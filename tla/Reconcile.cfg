SPECIFICATION Spec
CONSTANTS
    Keys <- MirrorKeys
    Rows <- MixedRows
    Runners = {r1, r2}
    StreamLive = TRUE
INVARIANTS
    TypeOK
    MatchedHourAgrees
    ResolvedHourAgrees
    RepairLeavesNothing
    DiffIsTrue
PROPERTIES
    DoneStays
