CONSTANTS
    Threads = {t1}
    MaxUpdates = 3
SPECIFICATION Spec
INVARIANT ValidCache
