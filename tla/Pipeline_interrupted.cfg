SPECIFICATION Spec
CONSTANTS
    Events = {e1, e2}
    Instances = {i1}
    ZeroDebounce = {}
    WithMedia = {}
    None = None
    Free = Free
    NoticeEnabled = TRUE
    MaxTurns = 2
    MaxParts = 1
    MaxCrashes = 0
    MaxFaults = 0
PROPERTY InterruptedDispatchSparesWindow
CHECK_DEADLOCK FALSE
