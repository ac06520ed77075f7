SPECIFICATION FairSpec
CONSTANTS
    Events = {e1}
    Instances = {i1, i2}
    ZeroDebounce = {}
    WithMedia = {e1}
    None = None
    Free = Free
    NoticeEnabled = TRUE
    MaxTurns = 1
    MaxParts = 2
    MaxCrashes = 2
    MaxFaults = 1
PROPERTIES
    WindowSurvivesCrash
    LockEventuallyFree
    ImplementsLedger
CHECK_DEADLOCK FALSE
