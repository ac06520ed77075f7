SPECIFICATION FairSpec
CONSTANTS
    Events = {e1, e2}
    Instances = {i1}
    ZeroDebounce = {}
    WithMedia = {}
    None = None
    Free = Free
    NoticeEnabled = TRUE
    MaxTurns = 2
    MaxParts = 1
    MaxCrashes = 0
    MaxFaults = 0
PROPERTY RaceRunsAPipeline
CHECK_DEADLOCK FALSE
