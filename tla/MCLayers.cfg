SPECIFICATION Parts
CONSTANTS
    Keys = {k}
    NLow = 1
    NHigh = 2
    N = 2
    Replaying = {1, 2}
    MaxChanges = 2
    MaxFails = 1
INVARIANTS
    TypeOK
    GroupPriority
PROPERTIES
    Drains
    Converges
    ReaderEnds
CHECK_DEADLOCK FALSE
