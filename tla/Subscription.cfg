SPECIFICATION ClientSpec
CONSTANTS
    Base = 2
    MaxDelay = 5
    Ceiling = 4
    MaxMessages = 2
    MaxBreaks = 3
    Fatal = TRUE
    DefaultRetries = 2
    RetryOptions <- MCRetryOptions
INVARIANTS
    TypeOK
    OnlyEndsWhenTold
    AnswerIsTrue
PROPERTIES
    WaitsGrow
    CancelReturns
    Delivered
    CallReturns
CHECK_DEADLOCK FALSE
