SPECIFICATION FairSpec
CONSTANTS
    Pod = {"p1", "p2"}
    Node = {"n1", "n2"}
    GracePeriod = TRUE
    MaxChanges = 2
INVARIANTS UpToDate
PROPERTIES SharesFollowHealth
CHECK_DEADLOCK FALSE
