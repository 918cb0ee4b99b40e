SPECIFICATION Spec
CONSTANTS
    Keys <- PairKeys
    Rows <- PlainRows
    Runners = {r1}
    StreamLive = TRUE
INVARIANTS
    RepairFixes
