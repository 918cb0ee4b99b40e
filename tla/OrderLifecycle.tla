--------------------------- MODULE OrderLifecycle ---------------------------
(***************************************************************************)
(* One row of client_orders and the four paths that write it: SubmitOrder  *)
(* and CancelOrder reflecting the Core's answer, the order event stream    *)
(* (order.go), and the trades of the order being stored (trade.go).  They  *)
(* run in different goroutines and reach the row in any order.             *)
(*                                                                         *)
(* The Core is external: it knows an order by its ref_id, answers Duplicate*)
(* to one it knows, matches open orders, which it may tell the event stream*)
(* or not, and closes them on a cancel or an expiry, which it always does. *)
(* Storing a trade is the one step TradeSettlement proves it to be (its    *)
(* Ledger!Record).                                                         *)
(*                                                                         *)
(* A definition marked "Slip" is no part of the specification: it is a     *)
(* plausible wrong form of the definition after it, which the properties   *)
(* must reject.                                                            *)
(***************************************************************************)
EXTENDS Integers, Sequences, FiniteSetsExt

CONSTANTS
    Orders,       \* ref_id of the orders the partner submits
    Market,       \* the ones with order_type = MarketOrder
    Qty,          \* quantity of an order
    Trades,       \* trades the Core may match
    OrderOf,      \* the order of a trade
    Fill,         \* filled_quantity of a trade
    MaxRetries,   \* Config.MaxRetries: further attempts of a unary call
    MaxFaults     \* how many faults a behaviour may contain

ASSUME LifecycleAssumption ==
    /\ Market \subseteq Orders
    /\ Qty \in [Orders -> Nat \ {0}]
    /\ OrderOf \in [Trades -> Orders]
    /\ Fill \in [Trades -> Nat \ {0}]
    /\ MaxRetries \in Nat
    /\ MaxFaults \in Nat

\* A quantity is filled in finitely many trades.
ASSUME FillsAssumption ==
    \A o \in Orders : IsFiniteSet({t \in Trades : OrderOf[t] = o})

VARIABLES
    placed,     \* orders with a row in client_orders
    status,     \* client_orders.status
    remaining,  \* client_orders.remaining_quantity
    orderId,    \* client_orders.order_id: whether it is set
    stored,     \* trades with a row in client_trades
    call,       \* where SubmitOrder is for an order
    tries,      \* attempts its unary call has made
    resp,       \* the answer on its way to SubmitOrder, or None
    cancel,     \* the answer on its way to CancelOrder, or None
    cancelled,  \* orders a CancelOrder returned Success for
    book,       \* Core: [status, left] of an order it saved, or None
    executed,   \* Core: trades matched, with the status reported for each
    events,     \* order events on their way to the SDK
    outOfStep,  \* history: orders whose row was given what the Core had left
                \* after other trades than the ones stored
    overtaken,  \* history: orders whose row was given an older status than it had
    faults      \* faults so far

row == <<placed, status, remaining, orderId>>
calls == <<call, tries, resp, cancel, cancelled>>
core == <<book, executed>>
history == <<outOfStep, overtaken>>
vars == <<row, stored, calls, core, events, history, faults>>

None == [status |-> "None"]
Open == {"Pending", "FilledPartially"}
Closed == {"Filled", "Cancelled", "CancelledPartially", "Expired", "ExpiredPartially"}
Answers == Open \cup Closed \cup {"Rejected", "Duplicate"}
Told == Closed \cup {"FilledPartially"}
Message == [ref : Orders, status : Told, left : Nat, after : SUBSET Trades]

Matched == DOMAIN executed
Of(S, o) == {t \in S : OrderOf[t] = o}
Volume(S) == MapThenSumSet(LAMBDA t : Fill[t], S)

TypeOK ==
    /\ placed \subseteq Orders
    /\ status \in [Orders -> Open \cup Closed \cup {"Rejected"}]
    /\ remaining \in [Orders -> Nat]
    /\ orderId \in [Orders -> BOOLEAN]
    /\ stored \subseteq Matched
    /\ call \in [Orders -> {"new", "send", "sent", "done", "failed"}]
    /\ tries \in [Orders -> 0 .. MaxRetries + 1]
    /\ resp \in [Orders -> {None} \cup [status : Answers, id : BOOLEAN]]
    /\ cancel \in [Orders -> {None} \cup Message]
    /\ cancelled \subseteq Orders
    /\ book \in [Orders -> {None} \cup [status : Open \cup Closed, left : Nat]]
    /\ Matched \subseteq Trades
    /\ \A t \in Matched : executed[t] \in Told
    /\ events \in Seq(Message)
    /\ outOfStep \subseteq Orders
    /\ overtaken \subseteq Orders
    /\ faults \in 0 .. MaxFaults

Init ==
    /\ placed = {}
    /\ status = [o \in Orders |-> "Pending"]
    /\ remaining = Qty
    /\ orderId = [o \in Orders |-> FALSE]
    /\ stored = {}
    /\ call = [o \in Orders |-> "new"]
    /\ tries = [o \in Orders |-> 0]
    /\ resp = [o \in Orders |-> None]
    /\ cancel = [o \in Orders |-> None]
    /\ cancelled = {}
    /\ book = [o \in Orders |-> None]
    /\ executed = <<>>
    /\ events = <<>>
    /\ outOfStep = {}
    /\ overtaken = {}
    /\ faults = 0

Fault == faults < MaxFaults /\ faults' = faults + 1

-----------------------------------------------------------------------------
(* The Core *)

\* The status of an order with left of its quantity unfilled, closed as why
\* or, when some of it was filled, as partially.
ClosedAs(o, left, why, partially) == IF left = Qty[o] THEN why ELSE partially

\* The status of an order right after the Core looked for a match on arrival
\* and found the trades S: a limit order rests, what is left of a market order
\* is cancelled.
ArrivedAs(o, S, left) ==
    IF left = 0 THEN "Filled"
    ELSE IF o \in Market THEN ClosedAs(o, left, "Cancelled", "CancelledPartially")
    ELSE IF S = {} THEN "Pending" ELSE "FilledPartially"

\* A request is with the Core: of the attempt under way, or a late one nobody
\* waits for any more.
Asked(o) ==
    /\ tries[o] > 0
    /\ call[o] # "done"
    /\ resp[o] = None

Answer(o, s, id) ==
    resp' = IF call[o] = "sent" THEN [resp EXCEPT ![o] = [status |-> s, id |-> id]]
            ELSE resp

\* What the Core says of an order: its status, what is left of it, and, which
\* the message does not carry, the trades that leave it that.
Said(o, now, left, after) == [ref |-> o, status |-> now, left |-> left, after |-> after]

Tell(o, now, left, after) == events' = Append(events, Said(o, now, left, after))
MayTell(o, now, left, after) == UNCHANGED events \/ Tell(o, now, left, after)

\* An answer of Pending may come with an order_id or without one.
Accept(o) ==
    /\ Asked(o) /\ book[o] = None
    /\ \E S \in SUBSET (Of(Trades, o) \ Matched), left \in 0 .. Qty[o], id \in BOOLEAN :
        LET now == ArrivedAs(o, S, left)
        IN  /\ left = Qty[o] - Volume(S)
            /\ book' = [book EXCEPT ![o] = [status |-> now, left |-> left]]
            /\ executed' = [t \in Matched \cup S |-> IF t \in S THEN now ELSE executed[t]]
            /\ now # "Pending" => id
            /\ Answer(o, now, id)
            /\ IF S = {} THEN UNCHANGED events ELSE MayTell(o, now, left, S)
    /\ UNCHANGED <<row, stored, call, tries, cancel, cancelled, history, faults>>

\* Refused before it is saved: the answer carries no order_id.
Reject(o) ==
    /\ Asked(o) /\ book[o] = None
    /\ call[o] = "sent"
    /\ Answer(o, "Rejected", FALSE)
    /\ UNCHANGED <<row, stored, call, tries, cancel, cancelled, core, history, events, faults>>

\* A retry of a request whose answer was lost.
AnswerDuplicate(o) ==
    /\ Asked(o) /\ book[o] # None
    /\ call[o] = "sent"
    /\ Answer(o, "Duplicate", TRUE)
    /\ UNCHANGED <<row, stored, call, tries, cancel, cancelled, core, history, events, faults>>

Match(t) ==
    LET o == OrderOf[t]
        left == book[o].left - Fill[t]
        now == IF left = 0 THEN "Filled" ELSE "FilledPartially"
    IN  /\ t \notin Matched
        /\ book[o].status \in Open
        /\ left >= 0
        /\ book' = [book EXCEPT ![o] = [status |-> now, left |-> left]]
        /\ executed' = [u \in Matched \cup {t} |-> IF u = t THEN now ELSE executed[u]]
        /\ MayTell(o, now, left, Of(Matched, o) \cup {t})
        /\ UNCHANGED <<row, stored, calls, history, faults>>

\* The Core closes an open order and tells the event stream.
Close(o, why, partially) ==
    /\ book[o].status \in Open
    /\ LET now == ClosedAs(o, book[o].left, why, partially)
       IN  /\ book' = [book EXCEPT ![o].status = now]
           /\ Tell(o, now, book[o].left, Of(Matched, o))

Expire(o) ==
    /\ Close(o, "Expired", "ExpiredPartially")
    /\ UNCHANGED <<row, stored, calls, executed, history, faults>>

-----------------------------------------------------------------------------
(* SubmitOrder *)

\* INSERT INTO client_orders: status defaults to Pending, remaining_quantity
\* starts equal to quantity, order_id is NULL.
InsertOrder(o) ==
    /\ call[o] = "new"
    /\ call' = [call EXCEPT ![o] = "send"]
    /\ placed' = placed \cup {o}
    /\ UNCHANGED <<status, remaining, orderId, stored, tries, resp, cancel, cancelled,
                   core, history, events, faults>>

\* Slip: the request goes out before the row is written.
SendFirst(o) ==
    /\ call[o] \in {"new", "send"}
    /\ call' = [call EXCEPT ![o] = "sent"]
    /\ tries' = [tries EXCEPT ![o] = @ + 1]
    /\ UNCHANGED <<row, stored, resp, cancel, cancelled, core, history, events, faults>>

\* One attempt of the unary call.
Send(o) ==
    /\ call[o] = "send"
    /\ call' = [call EXCEPT ![o] = "sent"]
    /\ tries' = [tries EXCEPT ![o] = @ + 1]
    /\ UNCHANGED <<row, stored, resp, cancel, cancelled, core, history, events, faults>>

\* Slip: one attempt too many.
OneMoreAttempt(o) == tries[o] <= MaxRetries + 1

\* attempt < limit, counting attempts from 0.
AttemptsLeft(o) == tries[o] <= MaxRetries

\* The attempt fails, before or after the Core worked on it: retryUnary-
\* Interceptor tries again if the error is retryable and attempts are left, or
\* gives the error to the caller; the row stays as it is.
AttemptFails(o) ==
    /\ Fault
    /\ call[o] = "sent"
    /\ resp' = [resp EXCEPT ![o] = None]
    /\ \/ AttemptsLeft(o) /\ call' = [call EXCEPT ![o] = "send"]
       \/ call' = [call EXCEPT ![o] = "failed"]
    /\ UNCHANGED <<row, stored, tries, cancel, cancelled, core, history, events>>

\* How far the Core is with an order it gives this status.
Rank(s) == IF s = "Pending" THEN 0 ELSE IF s = "FilledPartially" THEN 1 ELSE 2

\* Every writer of the row overwrites the status that is there.
SetStatus(o, s) ==
    /\ status' = [status EXCEPT ![o] = s]
    /\ overtaken' = IF Rank(s) < Rank(status[o]) THEN overtaken \cup {o} ELSE overtaken

SetOrderId(o, id) == orderId' = [orderId EXCEPT ![o] = id]

KeepStatus == UNCHANGED <<status, overtaken>>

\* Slip: Pending is written like any other status, and so is an empty order_id.
WriteAnyAnswer(o) ==
    LET s == resp[o].status
    IN  \/ s = "Duplicate" /\ UNCHANGED orderId /\ KeepStatus
        \/ s # "Duplicate" /\ SetOrderId(o, TRUE) /\ SetStatus(o, s)

\* Slip: what becomes of a saved order is left to events and trades.
WriteRejection(o) ==
    LET s == resp[o].status
    IN  \/ s # "Rejected" /\ SetOrderId(o, orderId[o] \/ resp[o].id) /\ KeepStatus
        \/ s = "Rejected" /\ SetOrderId(o, FALSE) /\ SetStatus(o, s)

\* Duplicate (and Unknown) is not written, Pending only brings its order_id, if
\* it has one, and any other status is written with the order_id, NULL when
\* there is none.
WriteAnswer(o) ==
    LET s == resp[o].status
    IN  \/ s = "Duplicate" /\ UNCHANGED orderId /\ KeepStatus
        \/ s = "Pending" /\ SetOrderId(o, orderId[o] \/ resp[o].id) /\ KeepStatus
        \/ /\ s \notin {"Duplicate", "Pending"}
           /\ SetOrderId(o, resp[o].id)
           /\ SetStatus(o, s)

Reflect(o) ==
    /\ call[o] = "sent" /\ resp[o] # None
    /\ WriteAnswer(o)
    /\ call' = [call EXCEPT ![o] = "done"]
    /\ resp' = [resp EXCEPT ![o] = None]
    /\ UNCHANGED <<placed, remaining, stored, tries, cancel, cancelled, core, outOfStep,
                   events, faults>>

\* The UPDATE fails: it is logged, and the call still succeeds.
ReflectLost(o) ==
    /\ Fault
    /\ call[o] = "sent" /\ resp[o] # None
    /\ call' = [call EXCEPT ![o] = "done"]
    /\ resp' = [resp EXCEPT ![o] = None]
    /\ UNCHANGED <<row, stored, tries, cancel, cancelled, core, history, events>>

-----------------------------------------------------------------------------
(* CancelOrder *)

\* The request reaches the Core, which closes the order and answers with its
\* ref_id, status and what is left of it.
RequestCancel(o) ==
    /\ cancel[o] = None /\ o \notin cancelled
    /\ Close(o, "Cancelled", "CancelledPartially")
    /\ cancel' = [cancel EXCEPT ![o] =
                     Said(o, book'[o].status, book[o].left, Of(Matched, o))]
    /\ UNCHANGED <<row, stored, call, tries, resp, cancelled, executed, history, faults>>

\* The UPDATE of both: the row takes the status and the remainder the Core has.
TakeOver(m) ==
    /\ SetStatus(m.ref, m.status)
    /\ remaining' = [remaining EXCEPT ![m.ref] = m.left]
    /\ outOfStep' = IF m.after = Of(stored, m.ref) THEN outOfStep
                    ELSE outOfStep \cup {m.ref}

FinishCancel(o) ==
    /\ cancel[o] # None
    /\ cancel' = [cancel EXCEPT ![o] = None]
    /\ cancelled' = cancelled \cup {o}
    /\ UNCHANGED <<placed, orderId, stored, call, tries, resp, core, events>>

ReflectCancel(o) ==
    /\ FinishCancel(o)
    /\ TakeOver(cancel[o])
    /\ UNCHANGED faults

\* The error of the UPDATE is dropped, and the caller is told of success.
ReflectCancelLost(o) ==
    /\ Fault
    /\ FinishCancel(o)
    /\ UNCHANGED <<status, remaining, history>>

-----------------------------------------------------------------------------
(* The streams *)

\* runOrderEventStream writes the status and what the event says is left.
ApplyEvent ==
    /\ events # <<>>
    /\ TakeOver(Head(events))
    /\ events' = Tail(events)
    /\ UNCHANGED <<placed, orderId, stored, calls, core, faults>>

\* The UPDATE fails, which is only logged, or the stream breaks with the
\* event on its way: there is no ack, so the Core does not send it again.
LoseEvent ==
    /\ Fault
    /\ events # <<>>
    /\ events' = Tail(events)
    /\ UNCHANGED <<row, stored, calls, core, history>>

\* Slip: a redelivered trade is applied again.
AnyDelivery(t) == t \in Matched

\* A trade the Core has matched and the database does not hold.
FirstDelivery(t) == t \in Matched \ stored

\* persistTrade stores a trade and applies it to its order.
RecordTrade(t) ==
    LET o == OrderOf[t]
        after == remaining[o] - Fill[t]
    IN  /\ FirstDelivery(t)
        /\ o \in placed
        /\ stored' = stored \cup {t}
        /\ SetStatus(o, executed[t])
        /\ remaining' = [remaining EXCEPT ![o] = IF after > 0 THEN after ELSE 0]
        /\ UNCHANGED <<placed, orderId, calls, core, outOfStep, events, faults>>

\* The process stops: what it waited for is gone, the rows stay.
Crash ==
    /\ Fault
    /\ call' = [o \in Orders |-> IF call[o] \in {"send", "sent"} THEN "failed" ELSE call[o]]
    /\ resp' = [o \in Orders |-> None]
    /\ cancel' = [o \in Orders |-> None]
    /\ events' = <<>>
    /\ UNCHANGED <<row, stored, tries, cancelled, core, history>>

\* The answer is lost, or a retry of the request finds the order closed and is
\* told of no success: nothing is written.
CancelAnswerLost(o) ==
    /\ Fault
    /\ cancel[o] # None
    /\ cancel' = [cancel EXCEPT ![o] = None]
    /\ UNCHANGED <<row, stored, call, tries, resp, cancelled, core, history, events>>

CoreStep(o) ==
    Accept(o) \/ Reject(o) \/ AnswerDuplicate(o) \/ Expire(o)

Submit(o) ==
    InsertOrder(o) \/ Send(o) \/ AttemptFails(o) \/ Reflect(o) \/ ReflectLost(o)

Cancel(o) ==
    \/ RequestCancel(o) \/ ReflectCancel(o) \/ ReflectCancelLost(o)
    \/ CancelAnswerLost(o)

Next ==
    \/ \E o \in Orders : CoreStep(o) \/ Submit(o) \/ Cancel(o)
    \/ \E t \in Trades : Match(t) \/ RecordTrade(t)
    \/ ApplyEvent \/ LoseEvent
    \/ Crash

Spec == Init /\ [][Next]_vars
-----------------------------------------------------------------------------
(* What the row should say *)

\* The answer to SubmitOrder never undoes what an event or a trade made of the
\* row: once a row has left Pending it does not come back (order.go:191-194).
NeverBackToPending ==
    [][\A o \in Orders : status[o] # "Pending" => status'[o] # "Pending"]_vars

\* An order is written before it is ever sent to the Core, so nothing the
\* Core says of it, trade or event, can find no row (recover.go:36-39).
ParentIsStored == \A o \in Orders : book[o] # None => o \in placed

\* A row carries an order_id only if the Core saved the order under it
\* (order.go:185-186).
IdOfSavedOrder == \A o \in Orders : orderId[o] => book[o] # None

\* What the trades matched so far leave of an order.
Unfilled(o) == Qty[o] - Volume(Of(Matched, o))

\* remaining_quantity is never lower than the trades matched so far account
\* for: no filled volume is counted twice (order.go:171-175, README.md:494-498).
NeverCountedTwice == \A o \in Orders : remaining[o] >= Unfilled(o)

\* ... which takes an event or a cancel out of step with the trades: of every
\* other order no volume is counted twice, whatever is lost, late or repeated.
CountedTwiceOnlyOutOfStep ==
    \A o \in Orders \ outOfStep : remaining[o] >= Unfilled(o)

\* Nothing about order o is on its way, and no fault lost anything.
Quiet(o) ==
    /\ faults = 0
    /\ call[o] = "done"
    /\ cancel[o] = None
    /\ Of(Matched, o) \subseteq stored
    /\ \A i \in DOMAIN events : events[i].ref # o

\* Once every trade the Core matched of an order is stored, the row has left of
\* it what the Core has: whatever was lost, late or repeated on the way, and
\* whichever paths wrote the row, unless an event or a cancel wrote out of step
\* with the trades (order.go:248, order.go:407-410, trade.go:307-314).
StoredRowAgrees ==
    \A o \in Orders \ outOfStep :
        Of(Matched, o) \subseteq stored /\ book[o] # None => remaining[o] = book[o].left

\* At rest, with nothing lost, it has the status of the Core too, unless an
\* older one was written over a newer one, as the answer to SubmitOrder, an
\* event and a trade each may (order.go:200, order.go:408, trade.go:311).
QuietStatusAgrees ==
    \A o \in Orders \ overtaken :
        Quiet(o) /\ book[o] # None => status[o] = book[o].status
=============================================================================
