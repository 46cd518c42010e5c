SPECIFICATION Spec
CONSTANT Hooks = 2
INVARIANT BeforeStopFirst
CHECK_DEADLOCK FALSE
