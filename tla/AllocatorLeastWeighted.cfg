SPECIFICATION Spec
CONSTANTS
    Collector = {"c1", "c2", "c3"}
    Node = {"n1"}
    Target = {"t1", "t2", "t3", "t4"}
    Job = {"j1", "j2"}
    Meta <- OneMeta
    JobName <- MCJobName
    NameRank <- MCNameRank
    LocateKey <- MCLocateKey
    Strategy = "least-weighted"
    Fallback = "none"
    NoCollector = NoCollector
    NoNode = NoNode
    NoItem = NoItem
    Absent = Absent
PROPERTIES Sticky GainersStayLevel ImplementsPlacement
