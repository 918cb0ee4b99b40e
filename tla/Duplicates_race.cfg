SPECIFICATION QuerySpec
CONSTANTS
    c1 = c1
    c2 = c2
    k1 = k1
    k2 = k2
    Callers = {c1, c2}
    Requests <- MCRequests
    RequestsOf <- SharedOrders
    NoOrder = NoOrder
    Window = 3
    DayLength = 10
    Dawn = 2
    Horizon = 7
    MaxRows = 3
    Readers = {}
    Whos = {k1}
    AnyDay = AnyDay
    NoRequest = NoRequest
    HostBehind = 5
INVARIANTS
    AlikeRowsApart
CHECK_DEADLOCK FALSE
