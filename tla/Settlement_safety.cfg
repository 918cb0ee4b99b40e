SPECIFICATION SafeSpec
CONSTANTS
    t1 = t1
    t2 = t2
    t3 = t3
    o1 = o1
    o2 = o2
    Unit = 2
    NoFee = NoFee
    BadFee = BadFee
    Trades = {t1, t2}
    Orders = {o1}
    Statuses = {"New", "Partially", "Filled"}
    OpenStatus = "New"
    OrderOf <- MCOrderOf
    Fill <- MCFill
    StatusOf <- MCStatusOf
    DayOf <- MCDayOf
    Qty <- MCQty
    Rate <- MCRate
    SideOf <- MCSideOf
    FeeOf <- MCFeeOf
    HasHandler = TRUE
    Streams = {s1}
    Pullers = {p1}
    Retriers = {r1}
    NoTrade = NoTrade
    LastDay = 2
    MaxRecoverDays = 2
    MaxAttempts = 0
    MaxFaults = 1
INVARIANTS
    TypeOK
    IInv
    AckedIsStored
    SettledIsPaid
    RecoveredOnce
    RemainingMatchesTrades
    MovedAsWritten
