SPECIFICATION Spec
CONSTANTS
    Collector = {"c1", "c2", "c3"}
    Node = {"n1", "n2"}
    Target = {"t1", "t2", "t3"}
    Job = {"j1", "j2"}
    Meta <- NodeMeta
    JobName <- MCJobName
    NameRank <- MCNameRank
    LocateKey <- MCLocateKey
    Strategy = "per-node"
    Fallback = "consistent-hashing"
    NoCollector = NoCollector
    NoNode = NoNode
    NoItem = NoItem
    Absent = Absent
INVARIANTS Bookkeeping EveryTargetPlaced NodeLocal HistoryIndependent
