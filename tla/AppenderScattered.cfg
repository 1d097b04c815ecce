SPECIFICATION Spec
CONSTANTS
    Targets <- MCScatter
    MaxSamples = 4
    Word = 65536
INVARIANT CustomBucketsRight
CHECK_DEADLOCK FALSE
