CONSTANTS
    Fields = {f}
    FilterNames = {}
    Contexts = {c, d}
    NoCtx = NoCtx
    Levels = {0}
    CanDisable = FALSE
    MaxLoggers = 3
    MaxUpdates = 1
    MaxHooks = 0
    MaxDepth = 0
SPECIFICATION Spec
INVARIANT ContextFollows
CHECK_DEADLOCK FALSE
