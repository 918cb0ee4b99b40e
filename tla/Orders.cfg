SPECIFICATION Spec
CONSTANTS
    o1 = o1
    o2 = o2
    t1 = t1
    t2 = t2
    t3 = t3
    Orders = {o1, o2}
    Market = {o2}
    Trades = {t1, t2, t3}
    Qty <- MCQty
    OrderOf <- MCOrderOf
    Fill <- MCFill
    MaxRetries = 1
    MaxFaults = 2
INVARIANTS
    TypeOK
    ParentIsStored
    IdOfSavedOrder
    CountedTwiceOnlyOutOfStep
    StoredRowAgrees
    QuietStatusAgrees
PROPERTIES
    NeverBackToPending
CHECK_DEADLOCK FALSE
