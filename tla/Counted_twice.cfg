SPECIFICATION Spec
CONSTANTS
    o1 = o1
    o2 = o2
    t1 = t1
    t2 = t2
    t3 = t3
    Orders = {o1}
    Market = {}
    Trades = {t1, t2}
    Qty <- OneQty
    OrderOf <- OneOrderOf
    Fill <- OneFill
    MaxRetries = 0
    MaxFaults = 0
INVARIANTS
    NeverCountedTwice
CHECK_DEADLOCK FALSE
