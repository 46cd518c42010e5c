SPECIFICATION Parts
CONSTANTS
    Threads = {t1, t2}
    MaxUpdates = 3
    Fields = {f}
    FilterNames = {k}
    Contexts = {c}
    NoCtx = NoCtx
    Levels = {0, 1}
    CanDisable = TRUE
    MaxLoggers = 3
    MaxTreeUpdates = 2
    MaxHooks = 1
    MaxDepth = 2
    Names = {n1, n2}
    MaxInstruments = 2
    Paths <- MCPaths
    Operations <- MCOperations
    MaxRoutes = 3
    MaxNodes = 3
INVARIANTS
    TypesOK
    ReleasedOnce
    FreshWrites
    SettledSinks
    FreshGeneration
    OwnSettings
    MostSpecific
    NearestClass
PROPERTIES
    AtomicRegistry
CHECK_DEADLOCK FALSE
