SPECIFICATION Spec
CONSTANTS
    Kinds <- MCKinds
    Grace = 1
    Threshold = 2
    PerMinute <- MCPerMinute
    MaxChanges = 2
INVARIANTS
    Noticed
    HttpsProven
    StartsInTime
    GraceBounded
PROPERTIES
    RestartedWhenDue
    EventuallyApplied
