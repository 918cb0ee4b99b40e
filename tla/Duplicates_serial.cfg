SPECIFICATION QuerySpec
CONSTANTS
    c1 = c1
    c2 = c2
    k1 = k1
    k2 = k2
    Callers = {c1, c2}
    Requests <- MCRequests
    RequestsOf <- OwnOrders
    NoOrder = NoOrder
    Window = 3
    DayLength = 10
    Dawn = 4
    Horizon = 10
    MaxRows = 3
    Readers = {r1}
    Whos = {k1}
    AnyDay = AnyDay
    NoRequest = NoRequest
    HostBehind = 5
INVARIANTS
    TypeOK
    AlikeRowsOfADayApart
    CorrectionNotRefused
    TodaysOrdersAreFound
CHECK_DEADLOCK FALSE
