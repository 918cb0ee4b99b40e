SPECIFICATION Spec
CONSTANTS
    t1 = t1
    t2 = t2
    t3 = t3
    o1 = o1
    o2 = o2
    Unit = 2
    NoFee = NoFee
    BadFee = BadFee
    Trades = {t1, t2}
    Orders = {o1}
    Statuses = {"New", "Partially", "Filled"}
    OpenStatus = "New"
    OrderOf <- MCOrderOf
    Fill <- MCFill
    StatusOf <- MCStatusOf
    DayOf <- MCOneDay
    Qty <- MCQty
    Rate <- MCRate
    SideOf <- MCSideOf
    FeeOf <- MCFeeOf
    HasHandler = FALSE
    Streams = {s1}
    Pullers = {}
    Retriers = {r1}
    NoTrade = NoTrade
    LastDay = 1
    MaxRecoverDays = 2
    MaxAttempts = 1
    MaxFaults = 1
PROPERTIES
    EveryTradeSettled
CHECK_DEADLOCK FALSE
