SPECIFICATION FairSpec
CONSTANTS
    Events = {e1}
    Instances = {i1}
    ZeroDebounce = {}
    WithMedia = {}
    None = None
    Free = Free
    NoticeEnabled = TRUE
    MaxTurns = 1
    MaxParts = 1
    MaxCrashes = 1
    MaxFaults = 0
PROPERTY AcceptedIsDurable
CHECK_DEADLOCK FALSE
