CONSTANTS
    Fields = {f, g}
    FilterNames = {}
    Contexts = {}
    NoCtx = NoCtx
    Levels = {0}
    CanDisable = FALSE
    MaxLoggers = 6
    MaxUpdates = 2
    MaxHooks = 0
    MaxDepth = 0
SPECIFICATION Spec
INVARIANT AskedFields
CHECK_DEADLOCK FALSE
