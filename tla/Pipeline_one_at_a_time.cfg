SPECIFICATION PoliteSpec
CONSTANTS
    Events = {e1, e2}
    Instances = {i1, i2}
    ZeroDebounce = {e1}
    WithMedia = {e1}
    None = None
    Free = Free
    NoticeEnabled = TRUE
    MaxTurns = 2
    MaxParts = 1
    MaxCrashes = 0
    MaxFaults = 0
INVARIANT TurnIsItsMessage
PROPERTY EveryMessageAnswered
CHECK_DEADLOCK FALSE
