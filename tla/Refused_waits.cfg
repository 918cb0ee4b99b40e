SPECIFICATION Spec
CONSTANTS
    Base = 2
    MaxDelay = 5
    Ceiling = 4
    MaxMessages = 1
    MaxBreaks = 3
    Fatal = TRUE
PROPERTIES
    RefusedWaitsGrow
CHECK_DEADLOCK FALSE
