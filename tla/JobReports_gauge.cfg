SPECIFICATION Spec
CONSTANTS
    Jobs = {j1, j2}
    Runs = {r1, r2}
    NoRun = NoRun
    MaxReloads = 1
INVARIANT GaugeCounts
CHECK_DEADLOCK FALSE
