SPECIFICATION Parts
CONSTANTS
    Threads = {t1, t2}
    Keys = {k1, k2}
    NoThread = NoThread
    MaxClients = 2
    Handlers = {h1, h2}
    Loop = Loop
    Nobody = Nobody
    MaxRepeats = 3
    ChSize = 1
    ErrSize = 1
    MaxMessages = 3
    Max = 2
    NTasks = 4
INVARIANTS
    TypesOK
    NoneLost
    OneClient
    OneWriter
    ClosedMeansRefused
    Accounted
    WaitCovers
PROPERTIES
    CallsReturn
    AtomicAnswers
    LoopEnds
    CallsEnd
    SubscriptionEnds
    PoolDrains
CHECK_DEADLOCK FALSE
