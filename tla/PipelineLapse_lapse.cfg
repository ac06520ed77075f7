SPECIFICATION LapseSpec
CONSTANTS
    Events = {e1}
    Instances = {i1, i2}
    ZeroDebounce = {}
    WithMedia = {}
    None = None
    Free = Free
    NoticeEnabled = TRUE
    MaxTurns = 2
    MaxParts = 1
    MaxCrashes = 1
    MaxFaults = 0
INVARIANT WindowLaunchedOnce
CHECK_DEADLOCK FALSE
