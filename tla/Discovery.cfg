SPECIFICATION FairSpec
CONSTANTS
    Version = {1, 2}
    MaxEvents = 3
    MaxWorld = 1
    MaxFailures = 1
INVARIANTS NothingStale Converged
PROPERTIES EventuallyFresh
CHECK_DEADLOCK FALSE
