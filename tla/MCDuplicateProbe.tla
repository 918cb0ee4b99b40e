-------------------------- MODULE MCDuplicateProbe --------------------------
(* Small instances of DuplicateProbe and OrderQuery for TLC. *)
EXTENDS OrderQuery, TLC

CONSTANTS c1, c2, k1, k2

\* A limit order for 4 or, too fine, for 3; a market order that names a rate;
\* and orders that fail one of the other checks each.
Limit(k) == [who |-> k, segment |-> Retail, orderType |-> 0, quantity |-> 4,
             limitRate |-> 2, minTradeQuantity |-> Empty, counterparty |-> AnyCounterparty]
Fine(k) == [Limit(k) EXCEPT !.quantity = 3]
Market(k) == [Limit(k) EXCEPT !.orderType = MarketOrder, !.minTradeQuantity = 1]
Wrong(k) == {[Limit(k) EXCEPT !.segment = AnyCounterparty],
             [Limit(k) EXCEPT !.orderType = 3],
             [Limit(k) EXCEPT !.limitRate = Empty],
             [Limit(k) EXCEPT !.minTradeQuantity = 1],
             [Limit(k) EXCEPT !.counterparty = Treasury]}
All(k) == {Limit(k), Fine(k), Market(k)} \cup Wrong(k)

MCRequests == All(k1) \cup All(k2)

\* Each client's orders come from one goroutine.
OwnOrders == c1 :> All(k1) @@ c2 :> {Limit(k2)}
\* A goroutine per request: the same order may come from two of them.
SharedOrders == c1 :> {Limit(k1)} @@ c2 :> {Limit(k1), Limit(k2)}
=============================================================================
