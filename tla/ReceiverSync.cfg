SPECIFICATION FairSpec
CONSTANTS
    Version = {"v1", "v2", "v3", "bad"}
    Invalid = {"bad"}
    MaxFailures = 3
INVARIANTS SavedMeansApplied InvalidIsHarmless
PROPERTIES EventuallyInSync
CHECK_DEADLOCK FALSE
