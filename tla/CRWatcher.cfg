SPECIFICATION FairSpec
CONSTANTS
    Kind = {"servicemonitors", "podmonitors"}
    MaxVersion = 2
    MaxChanges = 2
    MaxFailures = 1
INVARIANTS NothingForgotten
PROPERTIES EventuallyCurrent
CHECK_DEADLOCK FALSE
