SPECIFICATION Spec
CONSTANTS
    Keys = {k}
    NLow = 1
    NHigh = 2
    MaxChanges = 2
    MaxFails = 0
INVARIANTS
    DocumentedPriority
CHECK_DEADLOCK FALSE
