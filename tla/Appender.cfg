SPECIFICATION Spec
CONSTANTS
    Targets <- MCTargets
    MaxSamples = 4
    Word = 65536
INVARIANTS
    TypeOK
    NothingLost
    OneTimestamp
    StaleSeen
    BucketsRight
    ExemplarsFollow
    InfoReachesAll
CHECK_DEADLOCK FALSE
