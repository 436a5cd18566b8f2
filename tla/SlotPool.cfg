SPECIFICATION MCSpec
CONSTANTS
    Slots = {1, 2}
    Primary = 1
    MaxIter = 3
    CleanCap = 1
    MaxDry = 1
    TransientMax = 1
    PauseMax = 1
CHECK_DEADLOCK FALSE
PROPERTIES RelaunchesKept BothEnd
