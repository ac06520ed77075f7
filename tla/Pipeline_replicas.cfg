SPECIFICATION Spec
CONSTANTS
    Events = {e1, e2}
    Instances = {i1, i2}
    ZeroDebounce = {}
    WithMedia = {}
    None = None
    Free = Free
    NoticeEnabled = TRUE
    MaxTurns = 2
    MaxParts = 1
    MaxCrashes = 1
    MaxFaults = 1
SYMMETRY Interchangeable
INVARIANTS
    TypeOK
    LockExclusion
    WindowLaunchedOnce
    TimerRespected
    SnapshotIsWholeBuffer
    EntriesAreLive
    ConfigMatchesWindow
PROPERTY ImplementsLedger
CHECK_DEADLOCK FALSE
