SPECIFICATION Spec
CONSTANTS
    Targets <- MCNumbers
    MaxSamples = 4
    Word = 65536
INVARIANT NothingDropped
CHECK_DEADLOCK FALSE
