SPECIFICATION FairSpec
CONSTANTS
    Keys = {k}
    N = 2
    Replaying = {1, 2}
    MaxChanges = 2
    MaxFails = 1
PROPERTIES
    CleanupReleases
CHECK_DEADLOCK FALSE
