SPECIFICATION Spec
CONSTANTS
    Keys = {k}
    N = 3
    Replaying = {2}
    MaxChanges = 2
    MaxFails = 1
INVARIANTS
    TypeOK
    SettledPriority
PROPERTIES
    NoRegression
    AtomicUpdates
CHECK_DEADLOCK FALSE
