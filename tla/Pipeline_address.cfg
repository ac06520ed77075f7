SPECIFICATION Spec
CONSTANTS
    Events = {e1, e2}
    Instances = {i1}
    ZeroDebounce = {e2}
    WithMedia = {}
    None = None
    Free = Free
    NoticeEnabled = TRUE
    MaxTurns = 2
    MaxParts = 1
    MaxCrashes = 0
    MaxFaults = 0
INVARIANT URLReachesAI
CHECK_DEADLOCK FALSE
