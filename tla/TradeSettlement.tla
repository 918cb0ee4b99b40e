-------------------------- MODULE TradeSettlement --------------------------
(***************************************************************************)
(* The trade pipeline of the Go SDK: SubscribeTrades (trade.go), Recover-  *)
(* Trades (recover.go) and RetryUnsettled (trade.go) working on one        *)
(* database, with persistTrade, settle and markSettled broken at every     *)
(* database statement, network send and handler call, since the other      *)
(* goroutines run between any two of them.                                 *)
(*                                                                         *)
(* The database is PostgreSQL under READ COMMITTED: a statement outside    *)
(* persistTrade is one atomic step; the transaction of persistTrade takes  *)
(* the primary key of the trade with its INSERT and the row of the parent  *)
(* order with its UPDATE, and both become visible at COMMIT.               *)
(*                                                                         *)
(* The Core is external: it matches trades, redelivers a trade it holds no *)
(* ack for whenever it likes, and answers GetTrades with what it matched.  *)
(*                                                                         *)
(* A definition marked "Slip" is no part of the specification: it is a     *)
(* plausible wrong form of the definition after it, which the properties   *)
(* must reject.                                                            *)
(***************************************************************************)
EXTENDS TradeData, Amounts, FiniteSetsExt

CONSTANTS
    Streams,      \* goroutines in SubscribeTrades
    Pullers,      \* goroutines in RecoverTrades
    Retriers,     \* goroutines in RetryUnsettled
    NoTrade,      \* what cur holds while a worker holds no trade
    Rate,         \* execution_rate of a trade
    SideOf,       \* side of an order
    FeeOf,        \* what the fee configuration of an order says of "fixed"
    LastDay,      \* trading days are 1 .. LastDay
    MaxRecoverDays,  \* the most days one RecoverTrades may cover
    MaxAttempts,  \* the largest SMALLINT: bound of settle_attempts
    MaxFaults     \* how many faults a behaviour may contain

Workers == Streams \cup Pullers \cup Retriers
Persisters == Streams \cup Pullers
Days == 1 .. LastDay

ASSUME SettlementAssumption ==
    /\ NoTrade \notin Trades
    /\ Rate \in [Trades -> Nat]
    /\ SideOf \in [Orders -> Sides]
    /\ FeeOf \in [Orders -> Fees]
    /\ LastDay \in Nat
    /\ MaxRecoverDays \in Nat
    /\ DayOf \in [Trades -> Days]
    /\ MaxAttempts \in Nat
    /\ MaxFaults \in Nat
    /\ Streams \cap Pullers = {}
    /\ Streams \cap Retriers = {}
    /\ Pullers \cap Retriers = {}

VARIABLES
    executed,   \* Core: trades it has matched
    acked,      \* Core: trades it has received an ack for
    ackNet,     \* acks of a stream on their way to the Core
    stored,     \* client_trades: the rows present
    settled,    \* client_trades: rows with settled = TRUE
    attempts,   \* client_trades: settle_attempts
    order,      \* client_orders: committed rows
    moves,      \* partner: what the handler has moved for a trade
    pc,         \* where a worker is
    cur,        \* the trade a worker is on
    seen,       \* the settled flag persistTrade returned to a worker
    batch,      \* trades a RecoverTrades or RetryUnsettled has yet to do
    daysLeft,   \* days a RecoverTrades has yet to pull
    counted,    \* how often a RecoverTrades counted a trade in Recovered
    faults      \* faults so far

core == <<executed, acked>>
flags == <<settled, attempts>>
db == <<stored, order, flags>>
loop == <<batch, daysLeft>>
vars == <<core, ackNet, db, moves, pc, cur, seen, loop, counted, faults>>

StreamLabels == {"closed", "recv", "send", "mark"}
PullLabels == {"idle", "day", "next"}
RetryLabels == {"idle", "next"}
PersistLabels == {"insert", "decrement", "commit", "readSettled"}
SettleLabels == {"settle", "recordFail", "markSettled"}
Labels == StreamLabels \cup PullLabels \cup PersistLabels \cup SettleLabels

TypeOK ==
    /\ executed \subseteq Trades
    /\ acked \subseteq Trades
    /\ ackNet \in [Streams -> SUBSET Trades]
    /\ stored \subseteq Trades
    /\ settled \subseteq Trades
    /\ attempts \in [Trades -> 0 .. MaxAttempts]
    /\ order \in [Orders -> OrderRow]
    /\ moves \in [Trades -> SUBSET Movement]
    /\ pc \in [Workers -> Labels]
    /\ cur \in [Workers -> Trades \cup {NoTrade}]
    /\ seen \in [Workers -> BOOLEAN]
    /\ batch \in [Workers -> SUBSET Trades]
    /\ daysLeft \in [Pullers -> SUBSET Days]
    /\ counted \in [Trades -> Nat]
    /\ faults \in 0 .. MaxFaults

\* Where a worker starts, at the call and again after a restart.
Start == [w \in Workers |-> IF w \in Streams THEN "closed" ELSE "idle"]

Init ==
    /\ executed = {} /\ acked = {}
    /\ ackNet = [w \in Streams |-> {}]
    /\ stored = {} /\ settled = {}
    /\ attempts = [t \in Trades |-> 0]
    /\ order = FreshOrders
    /\ moves = [t \in Trades |-> {}]
    /\ pc = Start
    /\ cur = [w \in Workers |-> NoTrade]
    /\ seen = [w \in Workers |-> FALSE]
    /\ batch = [w \in Workers |-> {}]
    /\ daysLeft = [w \in Pullers |-> {}]
    /\ counted = [t \in Trades |-> 0]
    /\ faults = 0

-----------------------------------------------------------------------------
(* Moving a worker *)

At(w, l) == pc[w] = l
Goto(w, l) == pc' = [pc EXCEPT ![w] = l]
Hold(w, t) == cur' = [cur EXCEPT ![w] = t]

\* Back to the head of the worker's loop with nothing in hand.
Continue(w) ==
    /\ Goto(w, IF w \in Streams THEN "recv" ELSE "next")
    /\ Hold(w, NoTrade)
    /\ seen' = [seen EXCEPT ![w] = FALSE]

Fault == faults < MaxFaults /\ faults' = faults + 1

\* Slip: two transactions may hold one key (no ON CONFLICT, only a look).
NoKeyHeld(w, t) == FALSE

\* Another transaction has inserted trade t and not yet ended.
KeyHeld(w, t) ==
    \E v \in Persisters \ {w} : pc[v] \in {"decrement", "commit"} /\ cur[v] = t

\* Another transaction has updated order o and not yet ended.
OrderHeld(w, o) ==
    \E v \in Persisters \ {w} : pc[v] = "commit" /\ OrderOf[cur[v]] = o

-----------------------------------------------------------------------------
(* The Core *)

Execute(t) ==
    /\ t \notin executed
    /\ executed' = executed \cup {t}
    /\ UNCHANGED <<acked, ackNet, db, moves, pc, cur, seen, loop, counted, faults>>

ReceiveAck(w, t) ==
    /\ t \in ackNet[w]
    /\ acked' = acked \cup {t}
    /\ ackNet' = [ackNet EXCEPT ![w] = @ \ {t}]
    /\ UNCHANGED <<executed, db, moves, pc, cur, seen, loop, counted, faults>>

\* The trades the partner has moved money for.
paid == {t \in Trades : moves[t] # {}}

-----------------------------------------------------------------------------
(* The amounts of a trade *)

\* persistTrade computes them from what the Core sent and the parent order.
Amount(t) == Cal(Fill[t], Rate[t], SideOf[OrderOf[t]], FeeOf[OrderOf[t]])

\* RetryUnsettled computes them again, from the columns of the row, which hold
\* all the decimals there are, and the parent order.
Recomputed(t) == Cal(Fill[t], Rate[t], SideOf[OrderOf[t]], FeeOf[OrderOf[t]])

\* What the handler makes of the event a worker hands it.
Moved(w) ==
    [moves EXCEPT ![cur[w]] =
        @ \cup {IF w \in Retriers THEN Recomputed(cur[w]) ELSE Amount(cur[w])}]

\* Trades that can be stored: the parent order has a fee that is a number.
Storable == {t \in Trades : Computable(FeeOf[OrderOf[t]])}

-----------------------------------------------------------------------------
(* persistTrade, called by the stream and by RecoverTrades *)

\* Cal fails, now and on every redelivery.
NotComputed(w) ==
    /\ At(w, "insert")
    /\ cur[w] \notin Storable
    /\ Continue(w)
    /\ UNCHANGED <<core, ackNet, db, moves, loop, counted, faults>>

\* Slip: the row count of the INSERT is not looked at.
InsertUncounted(w) ==
    /\ At(w, "insert")
    /\ cur[w] \in Storable
    /\ ~ KeyHeld(w, cur[w])
    /\ Goto(w, "decrement")
    /\ UNCHANGED <<core, ackNet, db, moves, cur, seen, loop, counted, faults>>

\* INSERT ... ON CONFLICT DO NOTHING waits for a transaction that holds the
\* key, then finds the row there or not.
InsertTrade(w) ==
    /\ At(w, "insert")
    /\ cur[w] \in Storable
    /\ ~ KeyHeld(w, cur[w])
    /\ Goto(w, IF cur[w] \in stored THEN "readSettled" ELSE "decrement")
    /\ UNCHANGED <<core, ackNet, db, moves, cur, seen, loop, counted, faults>>

\* The UPDATE of client_orders waits for the row lock; the row it computes is
\* the one COMMIT publishes, as nobody changes it in between.
DecrementOrder(w) ==
    /\ At(w, "decrement")
    /\ ~ OrderHeld(w, OrderOf[cur[w]])
    /\ Goto(w, "commit")
    /\ UNCHANGED <<core, ackNet, db, moves, cur, seen, loop, counted, faults>>

\* COMMIT of a first delivery, in the database.
Publish(w) ==
    /\ At(w, "commit")
    /\ stored' = stored \cup {cur[w]}
    /\ order' = Filled(order, cur[w])

\* ... and its answer to the caller: inserted, not settled.
CommitFirst(w) ==
    /\ Publish(w)
    /\ Goto(w, IF w \in Streams THEN "send" ELSE "settle")
    /\ counted' = IF w \in Pullers THEN [counted EXCEPT ![cur[w]] = @ + 1] ELSE counted
    /\ UNCHANGED <<core, ackNet, flags, moves, cur, seen, loop, faults>>

\* Slip: the stream passes over a trade that is settled already.
ReadSettledPasses(w) ==
    /\ At(w, "readSettled")
    /\ IF cur[w] \in settled
       THEN Continue(w)
       ELSE Goto(w, IF w \in Streams THEN "send" ELSE "settle") /\ UNCHANGED <<seen, cur>>
    /\ UNCHANGED <<core, ackNet, db, moves, loop, counted, faults>>

\* The row is there: read its settled flag, end the transaction, return.
ReadSettled(w) ==
    /\ At(w, "readSettled")
    /\ \/ /\ w \in Streams
          /\ Goto(w, "send")
          /\ seen' = [seen EXCEPT ![w] = cur[w] \in settled]
          /\ UNCHANGED cur
       \/ /\ w \in Pullers /\ cur[w] \notin settled
          /\ Goto(w, "settle")
          /\ UNCHANGED <<seen, cur>>
       \/ /\ w \in Pullers /\ cur[w] \in settled
          /\ Continue(w)
    /\ UNCHANGED <<core, ackNet, db, moves, loop, counted, faults>>

\* Slip: the stream goes on to the ack although the transaction failed.
PersistUnchecked(w) ==
    /\ Fault
    /\ pc[w] \in PersistLabels \ {"insert"}
    /\ IF w \in Streams THEN Goto(w, "send") /\ UNCHANGED <<seen, cur>> ELSE Continue(w)
    /\ UNCHANGED <<core, ackNet, db, moves, loop, counted>>

\* Any statement of persistTrade fails, and the deferred Rollback undoes it.
PersistFails(w) ==
    /\ Fault
    /\ pc[w] \in PersistLabels
    /\ Continue(w)
    /\ UNCHANGED <<core, ackNet, db, moves, loop, counted>>

\* COMMIT takes effect, and the connection is lost before it says so.
CommitUnsure(w) ==
    /\ Fault
    /\ Publish(w)
    /\ Continue(w)
    /\ UNCHANGED <<core, ackNet, flags, moves, loop, counted>>

Persist(w) ==
    \/ NotComputed(w) \/ InsertTrade(w) \/ DecrementOrder(w)
    \/ CommitFirst(w) \/ ReadSettled(w)

-----------------------------------------------------------------------------
(* settle and markSettled, called by all three *)

\* The handler moves the money, once however often it is called; a nil handler
\* has nothing to move.
HandlerPays(w) ==
    /\ At(w, "settle")
    /\ moves' = IF HasHandler THEN Moved(w) ELSE moves
    /\ Goto(w, "markSettled")
    /\ UNCHANGED <<core, ackNet, db, cur, seen, loop, counted, faults>>

\* Slip: the error of the handler is not looked at.
HandlerUnchecked(w) ==
    /\ Fault
    /\ At(w, "settle")
    /\ HasHandler
    /\ moves' \in {moves, Moved(w)}
    /\ Goto(w, "markSettled")
    /\ UNCHANGED <<core, ackNet, db, cur, seen, loop, counted>>

\* The handler returns an error, before or after the money moved.
HandlerFails(w) ==
    /\ Fault
    /\ At(w, "settle")
    /\ HasHandler
    /\ moves' \in {moves, Moved(w)}
    /\ Goto(w, "recordFail")
    /\ UNCHANGED <<core, ackNet, db, cur, seen, loop, counted>>

\* Slip: the counter is taken to be unbounded.
AttemptsForEver(t) == TRUE

\* settle_attempts is a SMALLINT.
AttemptsLeft(t) == attempts[t] < MaxAttempts

\* settle_attempts + 1, whatever the row says by now.  The text the statement
\* puts in settle_error is left out: nothing reads it.
RecordFailure(w) ==
    /\ At(w, "recordFail")
    /\ AttemptsLeft(cur[w])
    /\ attempts' = [attempts EXCEPT ![cur[w]] = @ + 1]
    /\ Continue(w)
    /\ UNCHANGED <<core, ackNet, stored, order, settled, moves, loop, counted, faults>>

\* The SMALLINT is at its limit: the statement fails, which is only logged.
AttemptsOverflow(w) ==
    /\ At(w, "recordFail")
    /\ ~ AttemptsLeft(cur[w])
    /\ Continue(w)
    /\ UNCHANGED <<core, ackNet, db, moves, loop, counted, faults>>

MarkSettled(w) ==
    /\ At(w, "markSettled")
    /\ settled' = settled \cup {cur[w]}
    /\ Continue(w)
    /\ UNCHANGED <<core, ackNet, stored, order, attempts, moves, loop, counted, faults>>

\* An UPDATE of settle or markSettled fails, which is only logged.
SettleUpdateLost(w) ==
    /\ Fault
    /\ pc[w] \in {"recordFail", "markSettled"}
    /\ Continue(w)
    /\ UNCHANGED <<core, ackNet, db, moves, loop, counted>>

Settle(w) ==
    \/ HandlerPays(w) \/ RecordFailure(w) \/ AttemptsOverflow(w) \/ MarkSettled(w)

-----------------------------------------------------------------------------
(* runTradeStream *)

\* Trade() and Header() succeed.
OpenStream(w) ==
    /\ At(w, "closed")
    /\ Goto(w, "recv")
    /\ UNCHANGED <<core, ackNet, db, moves, cur, seen, loop, counted, faults>>

Recv(w, t) ==
    /\ At(w, "recv")
    /\ t \in executed \ acked
    /\ Hold(w, t)
    /\ Goto(w, "insert")
    /\ UNCHANGED <<core, ackNet, db, moves, seen, loop, counted, faults>>

SendAck(w) ==
    /\ At(w, "send")
    /\ ackNet' = [ackNet EXCEPT ![w] = @ \cup {cur[w]}]
    /\ Goto(w, "mark")
    /\ UNCHANGED <<core, db, moves, cur, seen, loop, counted, faults>>

\* After UPDATE ... SET ack = TRUE, or its logged failure, which are one here:
\* nothing reads that column.  A trade settled before is only acked again.
MarkAck(w) ==
    /\ At(w, "mark")
    /\ \/ seen[w] /\ Continue(w)
       \/ ~ seen[w] /\ Goto(w, "settle") /\ UNCHANGED <<cur, seen>>
    /\ UNCHANGED <<core, ackNet, db, moves, loop, counted, faults>>

\* Recv or Send returns an error, and acks on their way are lost.
StreamBreaks(w) ==
    /\ Fault
    /\ pc[w] \in {"recv", "send"}
    /\ ackNet' = [ackNet EXCEPT ![w] = {}]
    /\ Goto(w, "closed")
    /\ Hold(w, NoTrade)
    /\ seen' = [seen EXCEPT ![w] = FALSE]
    /\ UNCHANGED <<core, db, moves, loop, counted>>

StreamStep(w) ==
    \/ OpenStream(w) \/ SendAck(w) \/ MarkAck(w)
    \/ \E t \in Trades : Recv(w, t)

-----------------------------------------------------------------------------
(* RecoverTrades *)

\* An inverted window, or one of too many days, is refused.
StartRecover(w) ==
    /\ At(w, "idle")
    /\ \E from, to \in Days :
        /\ from <= to /\ to - from < MaxRecoverDays
        /\ daysLeft' = [daysLeft EXCEPT ![w] = from .. to]
    /\ Goto(w, "day")
    /\ UNCHANGED <<core, ackNet, db, moves, cur, seen, batch, counted, faults>>

\* One GetTrades per day, oldest first.
PullDay(w) ==
    /\ At(w, "day")
    /\ \E d \in daysLeft[w] :
        /\ \A e \in daysLeft[w] : d <= e
        /\ daysLeft' = [daysLeft EXCEPT ![w] = @ \ {d}]
        /\ batch' = [batch EXCEPT ![w] = {t \in executed : DayOf[t] = d}]
    /\ Goto(w, "next")
    /\ UNCHANGED <<core, ackNet, db, moves, cur, seen, counted, faults>>

NextPulled(w) ==
    /\ At(w, "next")
    /\ \E t \in batch[w] :
        /\ batch' = [batch EXCEPT ![w] = @ \ {t}]
        /\ Hold(w, t)
    /\ Goto(w, "insert")
    /\ UNCHANGED <<core, ackNet, db, moves, seen, daysLeft, counted, faults>>

DayDone(w) ==
    /\ At(w, "next")
    /\ batch[w] = {}
    /\ Goto(w, "day")
    /\ UNCHANGED <<core, ackNet, db, moves, cur, seen, loop, counted, faults>>

RecoverDone(w) ==
    /\ At(w, "day")
    /\ daysLeft[w] = {}
    /\ Goto(w, "idle")
    /\ UNCHANGED <<core, ackNet, db, moves, cur, seen, loop, counted, faults>>

\* GetTrades fails, and the days not pulled yet are given up.
PullFails(w) ==
    /\ Fault
    /\ At(w, "day")
    /\ daysLeft[w] # {}
    /\ daysLeft' = [daysLeft EXCEPT ![w] = {}]
    /\ Goto(w, "idle")
    /\ UNCHANGED <<core, ackNet, db, moves, cur, seen, batch, counted>>

PullStep(w) == PullDay(w) \/ NextPulled(w) \/ DayDone(w) \/ RecoverDone(w)

-----------------------------------------------------------------------------
(* RetryUnsettled *)

\* Slip: only trades whose settlement was never attempted are picked up.
StartRetryUntried(w) ==
    /\ At(w, "idle")
    /\ HasHandler
    /\ batch' = [batch EXCEPT ![w] = {t \in stored \ settled : attempts[t] = 0}]
    /\ Goto(w, "next")
    /\ UNCHANGED <<core, ackNet, db, moves, cur, seen, daysLeft, counted, faults>>

\* SELECT ... WHERE settled = FALSE, drained before the loop.  With a nil
\* handler the call returns at once.
StartRetry(w) ==
    /\ At(w, "idle")
    /\ HasHandler
    /\ batch' = [batch EXCEPT ![w] = stored \ settled]
    /\ Goto(w, "next")
    /\ UNCHANGED <<core, ackNet, db, moves, cur, seen, daysLeft, counted, faults>>

\* The rows come ORDER BY trading_day.
Oldest(S, t) == t \in S /\ \A u \in S : DayOf[t] <= DayOf[u]

NextUnsettled(w) ==
    /\ At(w, "next")
    /\ \E t \in Trades :
        /\ Oldest(batch[w], t)
        /\ batch' = [batch EXCEPT ![w] = @ \ {t}]
        /\ Hold(w, t)
    /\ Goto(w, "settle")
    /\ UNCHANGED <<core, ackNet, db, moves, seen, daysLeft, counted, faults>>

\* The lookup of the parent order fails: the row is left for the next run.
SkipUnsettled(w) ==
    /\ Fault
    /\ At(w, "next")
    /\ \E t \in Trades :
        /\ Oldest(batch[w], t)
        /\ batch' = [batch EXCEPT ![w] = @ \ {t}]
    /\ UNCHANGED <<core, ackNet, db, moves, pc, cur, seen, daysLeft, counted>>

RetryDone(w) ==
    /\ At(w, "next")
    /\ batch[w] = {}
    /\ Goto(w, "idle")
    /\ UNCHANGED <<core, ackNet, db, moves, cur, seen, loop, counted, faults>>

RetryStep(w) == StartRetry(w) \/ NextUnsettled(w) \/ RetryDone(w)

-----------------------------------------------------------------------------

\* The process stops and starts again: open transactions roll back, acks on
\* their way are lost, the database and the partner's books remain.
Crash ==
    /\ Fault
    /\ pc' = Start
    /\ cur' = [w \in Workers |-> NoTrade]
    /\ seen' = [w \in Workers |-> FALSE]
    /\ batch' = [w \in Workers |-> {}]
    /\ daysLeft' = [w \in Pullers |-> {}]
    /\ ackNet' = [w \in Streams |-> {}]
    /\ UNCHANGED <<core, db, moves, counted>>

\* What worker w does when nothing goes wrong.
Step(w) ==
    \/ w \in Persisters /\ Persist(w)
    \/ Settle(w)
    \/ w \in Streams /\ StreamStep(w)
    \/ w \in Pullers /\ PullStep(w)
    \/ w \in Retriers /\ RetryStep(w)

\* What can go wrong for worker w.
Trouble(w) ==
    \/ w \in Persisters /\ (PersistFails(w) \/ CommitUnsure(w))
    \/ HandlerFails(w) \/ SettleUpdateLost(w)
    \/ w \in Streams /\ StreamBreaks(w)
    \/ w \in Pullers /\ PullFails(w)
    \/ w \in Retriers /\ SkipUnsettled(w)

CoreStep ==
    \E t \in Trades : Execute(t) \/ \E w \in Streams : ReceiveAck(w, t)

Next ==
    \/ CoreStep
    \/ \E w \in Workers : Step(w) \/ Trouble(w)
    \/ \E w \in Pullers : StartRecover(w)
    \/ Crash

SafeSpec == Init /\ [][Next]_vars

\* A goroutine that can go on does: the stream loop reconnects for ever, the
\* ticker calls RetryUnsettled for ever, a RecoverTrades once called runs to
\* its end.  The Core redelivers what it holds no ack for, and not for ever the
\* trades that cannot be stored before the others; and an ack on a connection
\* that stays up arrives.  Nobody has to call RecoverTrades.
Fairness ==
    /\ \A w \in Workers : WF_vars(Step(w))
    /\ \A w \in Streams : \A t \in Trades : WF_vars(ReceiveAck(w, t))
    /\ \A w \in Streams : SF_vars(\E t \in Storable : Recv(w, t))

Spec == SafeSpec /\ Fairness
-----------------------------------------------------------------------------
(* What the pipeline promises *)

\* A trade is paid when its movement, of whatever amount, was made.
Ledger == INSTANCE TradeLedger WITH Recordable <- Storable, paid <- paid

\* The pipeline implements the ledger: each trade is recorded and taken from
\* its order in one step and once only, acked and paid when recorded, closed
\* when paid, and no trade is left out for ever (trade.go:50-65, 223-231).
ImplementsLedger == Ledger!Spec

\* An ack means "I have it": whatever the Core holds an ack for, or is about
\* to, has a row that survives a crash (trade.go:57-59, 91-93).
AckedIsStored == acked \cup UNION {ackNet[w] : w \in Streams} \subseteq stored

\* A row says settled only when the account movement was made, whatever
\* handler errors, failed updates, crashes and concurrent settlements there
\* were (trade.go:117-122).
SettledIsPaid == HasHandler => settled \subseteq paid

\* What trades S take from order o.
Volume(S, o) == MapThenSumSet(LAMBDA t : Fill[t], {t \in S : OrderOf[t] = o})

\* What an order has left is its quantity less the fills of its stored
\* trades, each counted once, whoever stored them and however often they
\* were delivered (trade.go:307-323).
RemainingMatchesTrades ==
    \A o \in Orders : order[o].remaining = Deduct(Qty[o], Volume(stored, o))

\* A trade stored once is counted once: of all the RecoverTrades there are, at
\* the same time or one after a restart, and beside the stream, at most one
\* reports it Recovered (recover.go:80-82).
RecoveredOnce == \A t \in Trades : counted[t] <= 1

\* The money moves by what the row of the trade says, to the last decimal,
\* whichever of the three paths called the handler and however often: fee and
\* settlement are computed twice, from the delivery and from the row, and the
\* columns round in a way of their own (trade.go:213, types.go:288-320,
\* fee.go:16-22).
MovedAsWritten == \A t \in Trades : moves[t] \subseteq {Written(Amount(t))}

\* Every trade that can be stored is, once the Core matched it, although
\* deliveries fail, acks and connections are lost and the process restarts
\* (trade.go:57-59).
EveryTradeStored == \A t \in Storable : t \in executed ~> t \in stored

\* Every trade is eventually acked, so the Core stops redelivering it.
EveryTradeAcked == \A t \in Storable : t \in executed ~> t \in acked

\* Every stored trade is settled in the end, although the stream never offers
\* it again once acked (trade.go:108-110, 155-160).
EveryTradeSettled == \A t \in Trades : t \in stored ~> t \in settled
-----------------------------------------------------------------------------
(* The inductive invariant, in parts *)

\* A worker past Recv, or past taking a row from its batch, is on a trade.
Busy(w) == pc[w] \in PersistLabels \cup SettleLabels \cup {"send", "mark"}
HoldsTrade == \A w \in Workers : Busy(w) => cur[w] \in Trades

\* Each path stays on its own labels.
OwnLabels ==
    /\ \A w \in Streams :
        pc[w] \in StreamLabels \cup PersistLabels \cup SettleLabels
    /\ \A w \in Pullers :
        pc[w] \in PullLabels \cup PersistLabels \cup SettleLabels
    /\ \A w \in Retriers : pc[w] \in RetryLabels \cup SettleLabels

\* A transaction that inserted a trade is the only one, and the row is not
\* there yet.
InsertsAlone ==
    \A v \in Persisters :
        pc[v] \in {"decrement", "commit"} =>
            /\ cur[v] \notin stored
            /\ \A w \in Persisters :
                w # v /\ pc[w] \in {"decrement", "commit"} => cur[w] # cur[v]

\* The trades workers handle exist in the Core, and once past persistTrade in
\* the database too.
HandlesKnown ==
    \A w \in Workers :
        /\ pc[w] \in PersistLabels => cur[w] \in executed
        /\ pc[w] \in {"decrement", "commit"} => cur[w] \in Storable
        /\ pc[w] \in SettleLabels \cup {"send", "mark", "readSettled"} => cur[w] \in stored
        /\ pc[w] = "markSettled" /\ HasHandler => cur[w] \in paid
        /\ w \in Pullers => batch[w] \subseteq executed
        /\ w \in Retriers => batch[w] \subseteq stored

\* What the flags of a trade imply of one another.
FlagsAgree ==
    /\ stored \subseteq executed \cap Storable
    /\ paid \subseteq stored
    /\ settled \subseteq stored
    /\ SettledIsPaid

\* The partner's books hold nothing but what Cal returns for a trade.
MovedAsCalculated == \A t \in Trades : moves[t] \subseteq {Amount(t)}

IInv ==
    /\ TypeOK
    /\ HoldsTrade
    /\ OwnLabels
    /\ InsertsAlone
    /\ HandlesKnown
    /\ FlagsAgree
    /\ AckedIsStored
    /\ MovedAsCalculated
=============================================================================
