SPECIFICATION FairSpec
CONSTANTS
    Version = {"v1", "v2"}
    Invalid = {}
    MaxFailures = 1
INVARIANTS NoUpdateNeeded
CHECK_DEADLOCK FALSE
