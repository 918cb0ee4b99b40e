SPECIFICATION ProcSpec
CONSTANTS
    HourLen = 3
    DayHours = 3
    Offset = 1
    Past = 1
    Horizon = 11
    MaxFails = 1
    MaxBoots = 2
INVARIANTS
    TypeOK
    OnlyClosedHours
    TodayIsCovered
    CancelledForCause
PROPERTIES
    EndsTogether
CHECK_DEADLOCK FALSE
