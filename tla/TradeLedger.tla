---------------------------- MODULE TradeLedger ----------------------------
(***************************************************************************)
(* What the trade pipeline promises the partner, with the stream, the      *)
(* database transactions and the three concurrent paths taken away: a      *)
(* matched trade is recorded once, taking its fill from the parent order   *)
(* in the same step; it is acknowledged to the Core only when recorded,    *)
(* paid out only when recorded, and closed only when paid out.             *)
(***************************************************************************)
EXTENDS TradeData

CONSTANT
    Recordable  \* trades whose settlement and fee can be computed

VARIABLES
    executed,  \* trades the Core has matched
    stored,    \* trades with a row in client_trades
    acked,     \* trades the Core knows the partner to hold
    paid,      \* trades whose account movements the partner has made
    settled,   \* trades whose row says settled = TRUE
    order      \* the rows of client_orders

vars == <<executed, stored, acked, paid, settled, order>>

Init ==
    /\ executed = {}
    /\ stored = {}
    /\ acked = {}
    /\ paid = {}
    /\ settled = {}
    /\ order = FreshOrders

Execute(t) ==
    /\ t \notin executed
    /\ executed' = executed \cup {t}
    /\ UNCHANGED <<stored, acked, paid, settled, order>>

Record(t) ==
    /\ t \in (executed \cap Recordable) \ stored
    /\ stored' = stored \cup {t}
    /\ order' = Filled(order, t)
    /\ UNCHANGED <<executed, acked, paid, settled>>

Acknowledge(t) ==
    /\ t \in stored
    /\ acked' = acked \cup {t}
    /\ UNCHANGED <<executed, stored, paid, settled, order>>

\* The movement is idempotent, so paying again changes nothing.
Pay(t) ==
    /\ HasHandler
    /\ t \in stored
    /\ paid' = paid \cup {t}
    /\ UNCHANGED <<executed, stored, acked, settled, order>>

\* Without a handler there is nothing to move before a trade is closed.
Close(t) ==
    /\ t \in stored
    /\ HasHandler => t \in paid
    /\ settled' = settled \cup {t}
    /\ UNCHANGED <<executed, stored, acked, paid, order>>

Next ==
    \E t \in Trades :
        Execute(t) \/ Record(t) \/ Acknowledge(t) \/ Pay(t) \/ Close(t)

SafeSpec == Init /\ [][Next]_vars

\* Every matched trade that can be is eventually recorded, and every recorded
\* one closed.
Spec ==
    /\ SafeSpec
    /\ \A t \in Recordable : /\ WF_vars(Record(t))
                             /\ WF_vars(Pay(t))
                             /\ WF_vars(Close(t))
=============================================================================
