SPECIFICATION Parts
CONSTANTS
    Jobs = {1, 2}
    MaxRuns = 2
    Hooks = 2
    Runs = {r1, r2}
    NoRun = NoRun
    MaxReloads = 1
INVARIANTS
    TypesOK
    AtMostOne
    GateKept
    PileDiscarded
    HookOrder
    EndLinesOfTheTime
PROPERTIES
    NoneBegins
    StopEnds
    RunEnds
CHECK_DEADLOCK FALSE
