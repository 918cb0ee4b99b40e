------------------------- MODULE MCTradeSettlement -------------------------
(* Small instances of TradeSettlement for TLC. *)
EXTENDS TradeSettlement, TLC

CONSTANTS t1, t2, t3, o1, o2

\* Two fills of one order, matched on two days, and one of an order whose fee
\* is not a number; the fee of t1 falls halfway between two steps.
MCOrderOf == [t \in Trades |-> IF t = t3 THEN o2 ELSE o1]
MCFill == [t \in Trades |-> IF t = t1 THEN 1 ELSE 2]
MCRate == [t \in Trades |-> IF t = t1 THEN 2 ELSE 3]
MCQty == [o \in Orders |-> 4]
MCSideOf == [o \in Orders |-> "buy"]
MCFeeOf == [o \in Orders |-> IF o = o1 THEN 100 ELSE BadFee]
MCStatusOf == [t \in Trades |-> IF t = t1 THEN "Partially" ELSE "Filled"]
MCDayOf == [t \in Trades |-> IF t = t1 THEN 1 ELSE 2]
MCOneDay == [t \in Trades |-> 1]
=============================================================================
