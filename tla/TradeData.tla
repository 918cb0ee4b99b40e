----------------------------- MODULE TradeData -----------------------------
(***************************************************************************)
(* The data trades and orders are made of, shared by the specifications of *)
(* the trade pipeline.  A trade is what the Core matched: it belongs to    *)
(* one order, takes a quantity from it and carries the order status the    *)
(* Core reported with the match.                                           *)
(***************************************************************************)
EXTENDS Integers

CONSTANTS
    Trades,     \* trades the Core may match: (trade_id, order_id, trading_day)
    Orders,     \* ref_id of the partner's orders
    Statuses,   \* OrderStatus values
    OrderOf,    \* the parent order of a trade
    Fill,       \* filled_quantity of a trade
    StatusOf,   \* order_status the Core reported with a trade
    DayOf,      \* trading_day of a trade, as a number
    Qty,        \* quantity of an order
    OpenStatus, \* the status of an accepted order nothing has matched yet
    HasHandler  \* FALSE when the partner passed a nil settlement handler

ASSUME TradeDataAssumption ==
    /\ OrderOf \in [Trades -> Orders]
    /\ Fill \in [Trades -> Nat]
    /\ StatusOf \in [Trades -> Statuses]
    /\ DayOf \in [Trades -> Nat]
    /\ Qty \in [Orders -> Nat]
    /\ OpenStatus \in Statuses
    /\ HasHandler \in BOOLEAN

\* A client_orders row, as far as trades change it.
OrderRow == [status : Statuses, remaining : Nat]

\* The rows of orders the Core accepted and has not matched.
FreshOrders == [o \in Orders |-> [status |-> OpenStatus, remaining |-> Qty[o]]]

\* GREATEST(remaining_quantity - fill, 0)
Deduct(rem, fill) == IF fill <= rem THEN rem - fill ELSE 0

\* What recording trade t does to the rows of client_orders.
Filled(order, t) ==
    [order EXCEPT ![OrderOf[t]] =
        [status |-> StatusOf[t], remaining |-> Deduct(@.remaining, Fill[t])]]
=============================================================================
