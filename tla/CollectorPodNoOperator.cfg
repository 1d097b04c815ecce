SPECIFICATION Spec
CONSTANTS
    Kinds <- NoOperator
    Grace = 1
    Threshold = 2
    PerMinute <- MCPerMinute
    MaxChanges = 1
PROPERTIES
    ServesWithoutOperator
