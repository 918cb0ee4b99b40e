# Verification of the FX SDK for Go

TLA+ specifications of the Go SDK under `src/go`, the TLC models that check
them, and proofs of the most important results for every size of the system.
`trade.go:288` below means line 288 of `src/go/v1/trade.go`; `main.go` is
`src/go/example/main.go`, `db.sql` is `src/go/db.sql`, `fee.go` is `src/go/pkg/fee.go`.

1. [The system](#1-the-system)
2. [What is hard about it](#2-what-is-hard-about-it)
3. [The modules](#3-the-modules)
4. [What the runs check](#4-what-the-runs-check)
5. [Fairness](#5-fairness)
6. [What is proved](#6-what-is-proved)
7. [What the code does otherwise than it says](#7-what-the-code-does-otherwise-than-it-says)
8. [What is assumed, and what is left out](#8-what-is-assumed-and-what-is-left-out)
9. [Plan](#9-plan)
10. [Running it](#10-running-it)

## 1. The system

A partner of the exchange embeds the SDK. It talks to the exchange's *Core* by
gRPC, keeps the partner's orders and trades in a PostgreSQL database, and calls
a handler of the partner that moves money for each trade.

| Component | Code | State | Operations |
|---|---|---|---|
| Trade stream and settlement | `trade.go` | `client_trades` (row, `ack`, `settled`, `settle_attempts`), `client_orders.status/remaining_quantity` | `SubscribeTrades`, `RetryUnsettled`; inside them `persistTrade`, `settle`, `markSettled` |
| Recovery after downtime | `recover.go` | the same rows; the counts it returns | `RecoverTrades` |
| Orders | `order.go` | `client_orders` | `SubmitOrder`, `CancelOrder`, `SubscribeOrderEvents`; the queries |
| Duplicate guard | `order.go:93-143` | `client_orders.submitted_at/order_day` | the probe and the insert of `SubmitOrder` |
| Reconciliation | `reconcile.go` | `reconciliations`; reads and repairs `client_trades` | `Reconcile`, `ReconcileRepair`, `ReconcileDiff` |
| Reconnect loop | `retry.go`, the loops of `trade.go`, `order.go` | the attempt counter and the wait | `backoff`, `isStreamRetryable` |
| Client and unary calls | `client.go`, `retry.go`, `partner.go`, the stubs in `forexv1` | `maxRetries`, the connection; the round of a call | `New`, the unary interceptor, keepalive; `GetCurrencyPairs` and every other unary method |
| Read-only queries | `order.go:266-339` | none | `FilterClientOrders`, `GetOrderBookDepth`, `GetTrades` |
| Days and hours | `timezone.go`, `reconcile.go:34-44` | none (the clock) | `Today`, `PreviousHour`, the window of an hour |
| Schedule | `main.go:194-231` | a timer | catch-up at start-up, then one hour each hour |
| Process | `main.go` | four goroutines of one error group, the foreground | start-up from flags, the goroutines, signals, fatal errors |
| Amounts | `types.go`, `pkg/fee.go`, `decimal.go` | none | `Cal`, `Percentage`, `checkDecimal` |
| Authentication | `client.go` | credentials | attached to every call |

How they meet:

- Five kinds of goroutine write the same rows of `client_trades` and
  `client_orders`: the trade stream, a recovery, the retry of unsettled trades, a
  repair of an hour, and the callers and event stream of orders. They share no
  lock. What orders them is the primary key of `client_trades`, the row lock of
  `client_orders` inside `persistTrade`'s transaction, and nothing else.
- The Core redelivers a trade until it has an ack. An order event is not acked
  and comes once.
- `settled = FALSE` is the only memory that money has still to move.
- A repair uses `persistTrade` and `settle` too; the schedule calls the repair.
- What the handler moves is computed by `Cal` when a trade is stored and again
  on every retry; the columns round what is written.
- Streams and unary calls share one connection, whose silence only the keepalive
  breaks, and one context, which a signal or the first goroutine to return cancels.

What makes each correct, in one line:

- *Pipeline*: every matched trade ends up stored, taken from its order once,
  acked only when stored, and settled only when paid, and all of it in the end.
- *Orders*: the row never says less is left than the trades account for, never
  goes back to Pending, exists before anyone can speak of it, and agrees with
  the Core once every trade of the order is stored.
- *Amounts*: what is moved is what is written, the first time and on any retry.
- *Duplicate guard*: two orders alike are a minute apart, and the correction of
  an order is not taken for its duplicate.
- *Queries*: the default days take in every order of today.
- *Reconciliation*: a match means agreement, done stays done, a repair leaves
  nothing it could fix, and what a diff says is true of the hour.
- *Reconnect loop*: it goes on through any outage, and stops when told.
- *Unary calls*: each returns, and what it returns is true.
- *Schedule*: closed hours only, and all of them.
- *Process*: its goroutines end together, and only for a cause.

## 2. What is hard about it

`PROJECT.json` lists the hazards one by one at their lines. In groups:

- **Interleaving.** The same trade in two transactions at once
  (`trade.go:280-327`); settlement by one goroutine while another records a
  failure (`trade.go:131-139`); a probe and an insert with others in between
  (`order.go:101-143`); a repair and a live stream on one hour
  (`reconcile.go:336-371`).
- **Order.** Ack after the row (`trade.go:85-99`), row before the request
  (`order.go:128-166`), answers, events and trades of one order on three paths
  with no order among them (`order.go:198`, `order.go:408`, `trade.go:311`).
- **Failure in the middle.** A commit that took effect and was reported as an
  error, a handler that paid and then failed, an update that is only logged, a
  crash anywhere; and an answer lost after the Core acted, so that the retry is
  answered Duplicate.
- **Liveness.** A trade acked and then not settled is known to nobody but the
  `settled` column; a subscription has to outlive any outage; a connection a
  proxy dropped gives no error, and a call on it no answer (`client.go:98-106`);
  an order whose fee is not a number must not keep the trades of others from
  being stored (`trade.go:252`). `Header` says nothing of a refusal, so that a server
  that refuses is not given more and more time (`order.go:389`).
- **Boundaries.** A SMALLINT counter (`db.sql:67`), the xor of ids that cancel
  (`reconcile.go:473-499`), midnight and the turn of the hour, a host whose day
  is not that of UTC+05:00 (`order.go:278`), a negative `maxRetries`
  (`retry.go:25`).
- **Precision.** Decimals rounded half to even by the SDK and half away from zero
  by the columns (`fee.go:5-23`, `types.go:288-320`, `db.sql:68-71`); a value finer
  than the columns, which the duplicate probe would compare with its rounded self
  (`order.go:73-91`).
- **The end.** One of four goroutines returns, or a signal comes, while the others
  sit in a repair, a timer or a stream (`main.go:72-231`).

## 3. The modules

| Module | Models | Composes |
|---|---|---|
| `TradeData` | orders, trades and what a trade does to an order's row | |
| `Amounts` | `TradeEvent.Cal`, `pkg.Percentage`, the rounding of the columns | |
| `TradeLedger` | the abstract promise of the pipeline | `TradeData` |
| `TradeSettlement` | `trade.go`, `recover.go` | `TradeData`, `Amounts`; implements `TradeLedger` |
| `OrderLifecycle` | `SubmitOrder`, `CancelOrder`, the event stream, trades of the order | uses a trade's step as the ledger has it |
| `DuplicateProbe` | the checks of `SubmitOrder` and the duplicate guard | |
| `OrderQuery` | `FilterClientOrders` | beside `DuplicateProbe` |
| `Reconciliation` | `reconcile.go` beside a live stream | |
| `Subscription` | the reconnect loops, `retry.go`'s backoff, the keepalive | |
| `Connection` | the client's options, unary calls and their retries | beside `Subscription`, on its connection and context |
| `Calendar` | `timezone.go`, windows | |
| `ReconcileSchedule` | the reconciling goroutine of `main.go` | `Calendar` |
| `Process` | the rest of `main.go` | around `ReconcileSchedule` |
| `...Proofs` | the theorems about `TradeSettlement`, `OrderLifecycle`, `DuplicateProbe` with `OrderQuery`, `Reconciliation`, `Connection` with `Subscription`, `Process` with `ReconcileSchedule` | |
| `InductionFacts` | nothing of the code: induction, sums and recursive functions for the proofs | |
| `MC...` | the small instances for TLC | |

Each module has **slips**: definitions marked "Slip" in their comment, which are
not used by the specification. A slip is a plausible wrong form of the definition
that follows it (a dropped check, an off-by-one), and for each property there is
one that the property rejects; the pairs are in `PROJECT.json` under "mutants".
They show that the property depends on that line of the code.

### TradeSettlement

A worker is a goroutine in one of the three calls. `pc` names the statement it is
at, `cur` the trade it holds, `seen` the `settled` flag `persistTrade` returned.

| Label | Statement | Actions |
|---|---|---|
| `closed`, `recv` | `Trade`, `Header`, `Recv` | `OpenStream`, `Recv`, `StreamBreaks` |
| `insert` | `INSERT ... ON CONFLICT DO NOTHING` | `InsertTrade` |
| `decrement` | `UPDATE client_orders` | `DecrementOrder` |
| `commit` | `Commit` of a first delivery | `CommitFirst`, `CommitUnsure` |
| `readSettled` | `SELECT settled`, `Commit` of a redelivery | `ReadSettled` |
| any of the four | an error, and the deferred `Rollback` | `PersistFails` |
| `insert` | `Cal` fails before it | `NotComputed` |
| `send`, `mark` | `Send` of the ack, `UPDATE ... ack` | `SendAck`, `MarkAck` |
| `settle` | the handler | `HandlerPays`, `HandlerFails` |
| `recordFail` | `settle_attempts + 1` | `RecordFailure`, `AttemptsOverflow`, `SettleUpdateLost` |
| `markSettled` | `settled = TRUE` | `MarkSettled`, `SettleUpdateLost` |
| `day`, `next`, `idle` | the loops of `RecoverTrades` and `RetryUnsettled` | `StartRecover`, `PullDay`, `NextPulled`, `StartRetry`, `NextUnsettled`, ... |

PostgreSQL under READ COMMITTED: a statement outside the transaction is atomic.
Inside it the insert takes the key (`KeyHeld`) and a second insert of the same
key waits for the first transaction to end, then finds the row or not; the update
of the order takes its row lock (`OrderHeld`); both are seen at `Commit`. The
lock means that the row the `UPDATE` computed is the one the commit publishes.
The order row is read and changed by nobody else in this module; `OrderLifecycle`
has the other writers.

The handler is required to be idempotent (`trade.go:162-163`), so what it moved is
a set: `moves[t]` holds every movement, settlement and fee, it has made for trade
t. A handler error leaves open whether the money moved. `Amount` is what
`persistTrade` computes and hands over, `Recomputed` what `RetryUnsettled` does from
the row of the trade and that of its order. A trade whose order has a fee that is
no number is not `Storable`: every delivery of it fails (`NotComputed`) and comes
again. `counted` is a history variable: how often a trade was counted in
`Recovered` by any recovery, earlier lives of the process included. A recovery may
be asked for any range of at most `MaxRecoverDays` days.

`TradeLedger` is the same with workers, transactions, networks and crashes taken
away: a trade is recorded and taken from its order in one step, acked when
recorded, closed when paid. The refinement is by equally named variables, with
`Storable` for the trades a ledger must record in the end, and `paid` for the
trades whose movement was made.

### Amounts

Quantities, rates and percentages are whole numbers of steps of the sixth decimal
(a step of `1 / Unit`), amounts are whole numbers of *grains* so fine that a
product of three of them is exact, as it is in the SDK's decimals. `RoundBank` is
the SDK's `RoundBank(6)`, `Numeric` what a `NUMERIC(28,6)` column does. Where a
value is already a whole step they agree: that is what `MovedAsWritten` needs, and
what its mutant, a fee that is left to the column to round, destroys.

### OrderLifecycle

One row of `client_orders`. `resp`, `cancel` and `events` are what is on its way
from the Core; `call` and `tries` where `SubmitOrder` and its unary retries are.
A lost answer may leave the Core with the order (`AttemptFails` after `Accept`),
and then the retry is answered Duplicate (`AnswerDuplicate`) — or the request
arrives after the caller has given up (`Asked`). `WriteAnswer` has the three cases
of `order.go:185-205`; an answer Pending may have an id or none, and then nothing is
written (`order.go:195-197`). `ApplyEvent` and `ReflectCancel` set the remainder the
Core says, `RecordTrade` subtracts: the two rules whose meeting
`CountedTwiceOnlyOutOfStep` and `StoredRowAgrees` are about. The repository does not
say which changes of status the Core announces, so the model's Core announces a
fill or not, as it likes (`MayTell`), and a closing always.

Two history variables. `outOfStep`: orders whose row took over a remainder that
accounts for other trades than the ones stored at that moment, more or fewer.
`overtaken`: orders whose row was given a status of a lower `Rank` than it had;
each of the four writers goes through `SetStatus`, which overwrites, as each
`UPDATE` of the code does.

### DuplicateProbe, OrderQuery

`Submit` makes the checks of `order.go:20-91` (`Valid`), the two statements of the
guard follow with the database clock ticking between them. A row has the moment
and the +05:00 day of its insert, what the caller wrote (`asked`, history) and what
the columns made of it (`key`). A decimal is counted in half units of the sixth
place, so that an odd one is what the columns round; `CheckDecimal` refuses it.

`OrderQuery` adds a reader who asks the Core for the orders of a client between two
days, by default today and tomorrow of the host's clock, which is `HostBehind`
ticks behind that of UTC+05:00; the Core may answer on a later day.

### Reconciliation

One completed hour. `core` and `local` are functions from the trades each side
has to what it says of them, and may differ in any way to begin with. A checksum
is the set of what entered the xor an odd number of times: of ids for version 1,
where a row whose two ids are equal cancels itself, of whole tuples for
version 2. A runner reads the local checksum (`ReadLocal`), asks the Core,
compares and upserts (`CompareAndRecord`), and in a repair pulls, persists and
settles each trade and checks again if something moved (`WalkDone`). The Core
may answer with either version. A trade that is not `timed` has a time that does
not parse: its row gets the time of the insert (`trade.go:262-270`), which is not in
the window of the hour. A repair's report says whether it resolved the hour, whether it
checked again, and whether storing a trade failed on the way.

### Subscription, Connection

The loop `SubscribeTrades` and `SubscribeOrderEvents` share: open, header, receive,
fail, return or wait, and again. The stub opens a stream when there is a connection
to put it on (`Opened`), whatever the server will make of it. `Header` then waits for
the server's headers (`Accepted`); when the stream ends before any, it returns no
error all the same, the attempt counter is reset, and the error comes from the `Recv`
that follows (`NotAccepted`). That is how `ClientStream.Header` of
grpc-go is documented: no metadata and no error mean that the stream ended without
headers, and that `RecvMsg` has the error. `Backoff` computes the interval `retry.go:71-85` draws
from. `attempt` is capped by `Ceiling`, beyond which the longest wait is constant
(an ASSUME). The connection is up, down, or *silent*: packets are dropped without
an error, until the keepalive of `client.go:98-106` gives it up (`Keepalive`).

`Connection` puts a unary call on the same connection, under the same context.
`Round(n)` is the head of the interceptor's `for`, with the limit clamped at 0;
`Serve` is the Core doing what is asked, which `Invoked` may report, or lose; then
`Decide` and `Again`, or `PauseCancelled`. `ran` counts what the Core did. Every
unary method of the SDK is such a call; the effect of a repeated `SubmitOrder` is
in `OrderLifecycle`.

### Calendar, ReconcileSchedule, Process

Instants are ticks; a day has `DayHours` hours of `HourLen` ticks, and the zone
is `Offset` hours east. The goroutine reads `PreviousHour`, then `Today` (two
reads of the clock, `main.go:208-210`), works through the hours, sets its timer
from the clock *after* the work, and when it fires takes `PreviousHour` anew.
`late` is a history variable: this start of the process has seen a timer fire
late or work last past the end of an hour.

`Process` has the rest: flags the process refuses to start with, the four
goroutines of the group (`gone` are the ones that have returned), the shared
context (`done`), the foreground's calls and `g.Wait`, a signal, a fatal error and a
kill. What the subscriptions do is in `Subscription`; here one runs or has ended.
Each goroutine looks at the context only where the code does: the ticker always,
the reconciling one in its timer and between the hours of the catch-up
(`HoursEnd`), and a repair under a cancelled context fails (`HourCancelled`).

## 4. What the runs check

Runs that must find no error:

| Run | Shows | Bounds, and why they are enough |
|---|---|---|
| `settlement_safety` | type and inductive invariant; no ack before the row; no settled flag before the payment; no trade counted or taken from its order twice; what was moved is what the row says | One stream, one recovery, one retry: each pair of paths meets on a trade. Two trades of one order on two days: they compete for the order's lock, and the recovery has a second day. The fee of one falls halfway between two steps, so that the two roundings would differ. One fault anywhere, a crash included. `MaxAttempts = 0` puts the SMALLINT at its limit from the start; the other value is in the next run. 1.3 million states. For other numbers of workers, trades and faults see section 6. |
| `settlement_liveness` | the pipeline implements the ledger, fairness included; every trade that can be stored is stored, acked, settled | A stream and a retry, which are what has to do it without help from a recovery. Two trades that can be stored and one, of another order, that never can. One fault at any point, then none (an unbounded number of faults would let the system never progress). 47 thousand states. |
| `orders` | order before request, order_id only of saved orders, never back to Pending, no double count of an order whose events and cancels were in step with its trades, agreement of the remainder once all is stored, and of the status at rest | A limit order with two fills that leave a part, and a market order filled or cancelled on arrival: all statuses occur. Two faults: a lost answer and a crash, or two lost answers. One retry, so that Duplicate happens. 1.1 million states. |
| `duplicates_serial` | rows alike of one day a minute apart, each kind of order submitted by one goroutine; no correction refused; the orders of today found | Two callers, eight parameters each of which five fail one check, three rows, window 3 in a day of 10 ticks, starting at 4 and ending past midnight: pairs inside, at and beyond the edge of the window, and across midnight. One reader on a host half a day behind. 0.8 million states. |
| `reconcile` | a version 2 match means agreement; a resolved repair means agreement, an unresolved one that nothing it could fix is left; done stays; what a diff says is true of the hour | Two runners, the stream and hand-closing. Two trades that mirror each other, with two values of terms and a time that parses or not: every start state of both tables. 3.3 million states. |
| `subscription` | a subscription ends only when told, its waits grow to the limit while no stream can be opened, a cancel returns, messages arrive; a unary call returns, and returns the truth | Three breaks of any kind, silent ones and refusals included, base 2 and limit 5 (reached, and not a power of two times the base), two messages; `maxRetries` -1, 0 and the default 2. 0.6 million states. |
| `schedule` | only closed hours; while not late, every closed hour of the day; goroutines that end together, for a cause | Days of three hours of three ticks, 11 ticks, more than a day and across midnight of the zone, two starts at any moment, one failed repair, work of any length, a signal, a fatal error or a kill at any moment. 0.3 million states. |

Runs that must find the violation (section 7): `nil_handler_lost`,
`counted_twice`, `duplicates_race`, `repair_stale`, `refused_waits`.

`CHECK_DEADLOCK FALSE` is said where a behaviour really comes to an end: a fully
settled instance with no retry to start, a subscription and a call that returned,
a process at its last tick, orders all closed.

Why these properties: each takes several steps, mostly of two actors, to break.
`RemainingMatchesTrades` relates the order row to the set of stored trades at all
times, whoever stored them and however little is left. `AckedIsStored` counts acks on the wire as well.
`SettledIsPaid` has to survive concurrent settlement, failed handlers and lost
updates, `MovedAsWritten` two computations of the same amount and two roundings.
`RecoveredOnce` is across recoveries and restarts. `StoredRowAgrees` says that a
row with every trade of its order stored has the remainder the Core has, whatever
was lost, refused or is still on its way, as long as it took over no remainder of
other trades than it had; `QuietStatusAgrees` relates the status of the two after all
messages between them have arrived. `CorrectionNotRefused` relates the probe to what the columns keep, and
`TodaysOrdersAreFound` three clocks. `MatchedHourAgrees` holds although the two
checksums are read at different times, because the Core's side of a completed hour is constant and the local side only grows towards it.
`RepairLeavesNothing` is about what a repair *reports*: unresolved, with every trade
it was given stored, means that what is left no repair can fix, except that a report
without a second check may be out of date about an hour that agrees. `DiffIsTrue`
compares what a diff *read*, of two tables at two moments beside a stream and another
runner, with the hour as it is now: the trades it calls missing remotely or mismatched
are just those for ever; what it calls missing locally or unsettled can only become
fewer; and it is empty only if the checksums of the hour match. `AnswerIsTrue` covers each way out of the interceptor's loop,
the one that never entered it included, and `EndsTogether` four goroutines that
each look at the context in another place.

## 5. Fairness

- *A worker that can take a step does* (`WF(Step(w))`). The subscription loop
  reconnects for ever on retryable errors (`trade.go:23-26`), `main.go` calls
  `RetryUnsettled` on a ticker for ever, a statement returns. Faults are not part
  of `Step`, so fairness never forces one. `Step` does not contain
  `StartRecover`: nobody has to call `RecoverTrades`, and liveness does not lean
  on it.
- *An ack on a connection that stays up arrives* (`WF(ReceiveAck)`).
- *The Core goes on delivering what it holds no ack for, and not for ever only what
  cannot be stored* (`SF(\E t \in Storable : Recv(w, t))`): the one place of strong
  fairness. Between two deliveries the stream is busy with a trade, so that a
  delivery of a storable one is possible again and again but not all the time; a
  Core that always chose the trade that cannot be computed would starve the
  others, and nothing in the SDK would prevent it.
- *Faults end*: `MaxFaults` bounds them. With faults for ever no liveness holds of
  any system of this kind.
- `Subscription`: the loop, its timer, that a stream on a connection that is gone or
  cancelled ends wherever it is, that an outage ends (`WF(NetUp)`) and that
  the keepalive ends a silence (`WF(Keepalive)`: it is on, `client.go:98-106`). That
  a connection breaks or that the server ends the stream is not fair.
- `Connection`: an attempt that reached the Core is worked on (`WF(Serve)`), one that
  can end does (`WF(Invoked)`), and the interceptor goes on
  (`WF(Decide \/ Again)`).
- `Process`: under a cancelled context a subscription returns (what `CancelReturns`
  of `Subscription` shows), the ticker and the reconciling goroutine get to where
  they look at it, repairs and the calls of the foreground return. No signal and
  no end of a subscription is fair.

## 6. What is proved

Every safety property of a passing run, invariant or action property, is a
theorem, for every value of the constants their assumptions admit. What stays with
TLC is liveness. The assumptions on the constants are the named `ASSUME`s of the
modules, which TLC evaluates in every run; two theorems have a hypothesis more,
given with them. Eight modules hold theorems: one for each component, one for the
status of orders, and `InductionFacts`, which the others rest on.

### Induction, sums and recursion (`InductionFacts`)

The library states induction for predicates, which the provers here cannot
instantiate. `InductionFacts` states it for sets instead: a set of numbers with 0
and the successor of each member is `Nat` (`NatSetInduction`), a family of sets with
`{}` and each member's extension by an element has every finite set
(`FiniteSetInduction`); both follow from the well-founded order of finite sets. On
them rest two facts the models need. *A recursive function exists*
(`NatRecursion`), so that `Doubled`, defined by a recursion, satisfies it
(`DoubledDef`). *A sum is a sum*: `Total(f, S)`, the fold `MapThenSumSet` takes by an
arbitrary choice of elements, grows by `f[x]` with a new element x whatever order
the fold takes (`TotalIs`, `TotalOneMore`), is 0 for no element (`TotalEmpty`) and
only grows with the set where f is not negative (`TotalGrows`).

### The pipeline (`TradeSettlementProofs`)

For every number of goroutines of each kind, trades, orders, days, decimals,
faults and every limit of the attempts counter, with or without a handler:

| Theorem | States |
|---|---|
| `TypeCorrect` | `SafeSpec => []TypeOK` |
| `Inductive` | `SafeSpec => []IInv` |
| `AcksAreSafe` | `SafeSpec => []AckedIsStored` |
| `SettledTradesArePaid` | `SafeSpec => []SettledIsPaid` |
| `RecoveriesDisjoint` | `SafeSpec => []RecoveredOnce` |
| `MovesAreWritten` | `SafeSpec => []MovedAsWritten` |
| `TradesAreCountedOnce` | `SafeSpec => []RemainingMatchesTrades` |
| `ImplementsLedgerSafety` | `SafeSpec => Ledger!SafeSpec` |

`AckedIsStored` alone is not inductive: `SendAck` acks whatever the worker holds,
so one must know that a worker past `persistTrade` holds a trade whose row is
there. `IInv` says so and what that needs:

- `HoldsTrade`: a worker past `Recv`, or past taking a row of its batch, holds a
  trade;
- `OwnLabels`: a worker is only at labels of its own kind of call, so that a
  retry, say, is never inside a transaction;
- `InsertsAlone`: a transaction past its insert is the only one on that key, and
  the key has no row yet. This is where `KeyHeld` is used; without it the commit
  of two workers would take the trade from the order twice;
- `HandlesKnown`: what a worker handles the Core has matched; past `persistTrade`
  its row is there; at `markSettled` with a handler it is paid;
- `FlagsAgree`: stored trades are matched, paid and settled trades are stored,
  and settled trades are paid;
- `AckedIsStored` itself, and `MovedAsCalculated`: every movement is what `Cal`
  makes of the trade.

The proof has a lemma per half (`TypedStep` for types and places, `SoundStep` for
the rest), each with one step per action, after `NextCases`, which splits the
next-state relation once for all. `RecoveriesDisjoint` adds that a trade is
counted only by the commit that stores it, so a trade not stored has count 0, and
`InsertsAlone` makes that commit unique. `MovesAreWritten` needs, beyond
`MovedAsCalculated`, only arithmetic: `Cal` gives whole steps, and a column leaves
a whole step as it is (`WholeStays`). `ImplementsLedgerSafety` maps
`CommitFirst` and `CommitUnsure` to `Record`, which needs `InsertsAlone` again (the
trade is not yet stored) and `HandlesKnown` (it is matched); `ReceiveAck`,
`HandlerPays`, `HandlerFails` and `MarkSettled` to `Acknowledge`, `Pay` and `Close`
or to nothing, and all else to nothing.

`TradesAreCountedOnce` is about a sum, `Deduct(Qty[o], Volume(stored, o))`, where
`Deduct` is the code's `GREATEST(... - ..., 0)`. Every state stores finitely many
trades (`Accounted`), a commit stores one more than before, which `InsertsAlone`
and `OnlyPublished` say was in no row yet, and taking two fills off one after the
other is taking off their sum, the floor at 0 included (`DeductTwice`).

### Orders (`OrderLifecycleProofs`, `OrderStatusProofs`)

`TypeCorrect`, `ParentsAreStored`, `IdsAreOfSavedOrders`, `RowsStayOutOfPending`,
`RowFollowsItsTrades` and from it `VolumeIsCountedOnce`
(`CountedTwiceOnlyOutOfStep`) and `StoredRowsAgree` (`StoredRowAgrees`), and
`StatusAgreesAtRest` (`QuietStatusAgrees`).
Types need to know how many attempts a call can have made where it is (`Typed`);
`ParentIsStored` and `IdOfSavedOrder` rest on `Traced`: nothing was sent before its
row was there, and an answer with an id, or Pending, is only made by a Core that
has the order in its book.

The remainder of a row has an invariant in three parts, each about another place.
`BookExact`: what the Core has left of an order is its quantity less the trades it
matched. `SaidExact`: what an event or a cancel's answer says is left is the
quantity less the trades it comes after. `RowExact`: what a row has left is its quantity
less its stored trades, unless it is in `outOfStep`. A fill takes its volume from
the book, a trade from the row (`VolumeOfOneMore`); a taking-over puts into the row
what `SaidExact` says, for the trades the message comes after, and these are the stored
ones or the order becomes `outOfStep` (`TakenOverExact`). `RowExact` is much stronger
than that no volume is counted twice: it is exact in both directions, in every
state and not only at rest. It uses that a quantity is filled in finitely many
trades (`FillsAssumption`).

`StatusAgreesAtRest` is the one of them about all of the row's
writers together. Its invariant has, for behaviours without a fault,
`AnsweredOnce` (an order has one answer, and until then its row is Pending) and
`NewestKnown`: every status in the row or on its way is one the order has or had
(`Reached`), and the newest is in the row, or on its way, or was overtaken. The
three ways a step can touch an order — the Core moves on and says so (`Ahead`),
a status that was on its way is written (`Overwritten`), nothing is written
(`LeftAlone`) — each keep it, and every action is one of them.

### Duplicates and queries (`DuplicateProbeProofs`)

`TypeCorrect`, `CorrectionsPass`, `AlikeOrdersAreApart`, `DayIsFound`. `Sound` says
that what a caller brings to the probe passed the checks and that a row holds
what was asked for to the last digit; hence a twin is what somebody asked for.
`AlikeOrdersAreApart` assumes `NoSharedOrders` — no two callers submit the same
order, which is what the run's instance does and the violating run's does not —
and carries `InsertClear`: what the probe saw still holds when its caller inserts,
however many others did in between. `DayIsFound` rests on `DaysAround`, that the
days of a request are around the day it was made on, and on the arithmetic of a
host behind by up to a day.

### Reconciliation (`ReconciliationProofs`)

`TypeCorrect`, `MatchesAreTrue`, `ResolutionsAreTrue`, `HoursStayDone`,
`RepairsLeaveNothing`, `DiffsAreTrue`, `RepairsFix`, for any tables, keys that mirror
each other and runners. `Sure` is the heart of the first three: a local checksum
that equals the Core's, read some time ago, is still that of the hour, because the
Core's side is constant and rows only come from it (`PulledIsCore`, `LocalGrows`).

`RepairsLeaveNothing` and `DiffsAreTrue` have the invariant `Kept`, for any number of
runners beside a stream. For a repair: until a failure is counted, what the Core has is
stored or still pulled; the checksum read after the walk is of a table that had all
of it (`AllStored`); and a report does not lose its truth. The last needs that an hour
with everything stored can be left alone with differences no repair fixes, and
otherwise agrees (`NoDifference`, `AlikeMatch`). For a diff: what it said when it was
made (`DiffMade`) stays, as the table grows by the Core's rows and rows are settled
(`HourGrows`, `OneMoreStored`, `SettledGrows`, `DiffStays`). `RepairsFix` is for one runner
and no stream, where a report that skipped the second check is never out of date:
`Alone` says that the checksum such a runner holds is of the table as it is, and that as
long as nothing moved the mismatch it started from is still one. With a stream the
same property, `RepairFixes`, fails, as `repair_stale` shows.

### Connection, schedule and process (`ConnectionProofs`, `ProcessProofs`)

`SubscriptionEndsWhenTold` and `CallsTellTheTruth`, with `EndsKnown` and `CallKnown`:
where a stream or a call is says what it was told and, for the call, how often the
Core can have run it, for every value of `maxRetries`.

`SubscriptionTypeCorrect` and `WaitsOnlyGrow` (`WaitsGrow`) rest on `Paced`: no more
messages wait than were sent, an accepted stream has no wait behind it, and, as long
as the counter was not reset, the last wait was shorter than the longest its attempt
allowed. The lemma `Waits` says of
`backoff` what the step needs: the longest doubles as long as it has not reached
`maxDelay`, and a wait is at least half of its longest and less than all of it; so
the next is at least the longest of the one before. That is for a base delay of two
ticks or more, every maximum and every ceiling; with a base of 0 or 1 there is no room for a random share and all waits may be equal
(`retry.go:79-82`), and after a reset by `Header` nothing grows (`refused_waits`). `Ceiling`, where `attempt`
stays, makes no difference, by its assumption. What holds of a subscription alone
holds of one beside unary calls (`ClientIsSubscription`).

`ScheduleTypeCorrect`, `OnlyClosedHoursAreReconciled`, `TodayIsReconciled`
(`TodayIsCovered`) and `ContextEndsForCause`, for any calendar, offset and clock, for
the schedule alone and inside the process. The invariant `HoursKnown` says that the
hour a timer is set for and each hour of the list were closed when they were computed.
`TodayIsReconciled` needs `CaughtUp`, for a process that has not fallen behind: what
it read at start-up is still the last hour; while it works each closed hour of the
day is recorded or in the list; when it is done each is recorded; and while it waits
each hour of the day that closes an hour or more before the timer fires is recorded,
and the timer fires less than two hours after the clock. The steps are calendar arithmetic: the clock is in the
window of exactly one slot (`SlotHolds`, `OneSlot`), within an hour nothing becomes
due (`TickInHour`), the catch-up is every hour up to the last (`CatchUpIsWhole`), a
timer that fires on time finds one hour closed since (`TimerIsOnTime`), and after
midnight none is owed (`NewDay`).

### Only model-checked

Liveness, and with it the fairness part of `ImplementsLedger`, the three
`Every...` properties, `CancelReturns`, `Delivered`, `CallReturns` and
`EndsTogether`: out of the prover's reach.

## 7. What the code does otherwise than it says

Five runs show it, by a shortest counterexample:

1. `nil_handler_lost`. `trade.go:121-122` says that with a nil handler a trade "is
   considered settled", and `trade.go:108-110` that a trade not settled is picked
   up by `RetryUnsettled`, "it is never lost". With a nil handler
   `RetryUnsettled` returns at once (`trade.go:165`), so if the one
   `UPDATE` of `markSettled` fails, or the process stops between ack and update, the row
   stays `settled = FALSE` for ever.
2. `counted_twice`. `src/README.md:494-498` and `order.go:173-175` say that a filled volume
   is never counted twice. An event or the answer to a cancel writes the
   remainder the Core has (`order.go:408`, `order.go:248`), in which a trade still
   on its way is accounted for; when it arrives, `persistTrade` takes it
   off again (`GREATEST(..., 0)` hides part of it). `CountedTwiceOnlyOutOfStep`
   shows that this is the only way. It takes one event and one trade on two
   streams, where an event announces a fill at all; otherwise a cancel or an expiry
   with a trade on its way.
3. `duplicates_race`. Two goroutines pass the probe before either inserts, and two
   orders alike go out within the minute (`order.go:101`), where
   `src/README.md:458-460` promises `ErrDuplicateOrder`.
4. `repair_stale`. A repair in which nothing moved reports the check it
   made at its start, on the ground that "the local checksum cannot have changed"
   (`reconcile.go:360-361`). A live stream may have stored and settled the
   missing trade in between, and the hour that agrees is reported as unresolved.
   The next run of the hour repairs the record.
5. `refused_waits`. `order.go:383-385` says that `Header` blocks until the server
   accepts the stream: "Reset the reconnect counter only once the connection is
   established, so backoff keeps growing if the open fails"; `trade.go:71-73` says
   the same. But `Header` returns no error when the server ends
   the stream without headers, which is how it refuses with Unavailable or
   ResourceExhausted: the counter is reset (`order.go:389`, `trade.go:77`), the
   error comes from `Recv`, and every wait is one of the base delay. The shortest
   counterexample is two refusals in a row. While there is no connection to put a
   stream on the waits do grow (`WaitsGrow`). Were `NotAccepted` to leave the counter
   alone, `RefusedWaitsGrow` would hold.

Met while modelling, and kept as text only:

- A settlement failure recorded after another goroutine settled the trade leaves
  `settle_error` on a settled row (`trade.go:133` names the key only; `db.sql:76`
  says "NULL once settled").
- A recovery can hand a trade to the handler that the live stream has settled
  since `persistTrade` read the flag (`recover.go:85`; `recover.go:25-28` says an
  already settled trade "is not settled again"). The handler's idempotence makes
  it harmless.
- The `ack` column of a recovered trade is set by its redelivery
  (`trade.go:102`), although `recover.go:32-35` says it stays FALSE.
- `CancelOrder` drops the error of its `UPDATE` (`order.go:248`); `src/README.md:565` says
  the row is updated on success.
- The probe looks at rows of today only (`order.go:104`), so it is blind for a minute
  after midnight of +05:00 to orders of the minute before.
- `src/README.md:709-713` and `client.go:24-27` say a subscription gives up after
  `maxRetries` failed reconnects; it never does (`trade.go:23-26` and
  `order.go:349-370`).
- An hour that closes while the catch-up is running is not reconciled by the
  schedule (`main.go:222`), and neither are yesterday's hours when the process was
  down over midnight (`main.go:208-217`; `main.go:196-199` speaks of holes).
  `TodayIsCovered` is stated for the rest.
- `FilterClientOrders` takes its default days from the clock of the host
  (`order.go:278`), whereas `timezone.go:21` and `src/README.md:117` say the host's zone
  does not matter. On a host ahead of UTC+05:00 the default days begin tomorrow
  from its midnight until that of UTC+05:00, and the orders of today are not found.
- `FilterClientOrders` never sends `RefId`, which `types.go:176` and `src/README.md:577`
  list as an optional filter.
- A trade of an order whose stored fee is not a number cannot be computed
  (`trade.go:252`): it is never stored nor acked, and the Core redelivers it for as
  long as the row of the order stays as it is.

## 8. What is assumed, and what is left out

Assumed of what is not in the repository:

- The Core redelivers a trade it has no ack for at any time, never loses a trade,
  answers `GetTrades` with all it matched, and never changes a completed hour.
- It answers Duplicate to a `ref_id` it knows, announces every closing of an order
  and any fills it likes, in the order they happen, and answers a cancel with
  what is left at that moment.
- An order is filled in finitely many trades.
- `hashint8` and the tuple hash have no collisions.
- The database keeps what it committed and is READ COMMITTED.

Abstracted, because no property depends on it: the text of errors, the `ack` and
`settle_error` columns (no code reads them), accounts, wording of log lines, the
random part of a unary retry's wait.

Not modelled:

- *The credentials the interceptors of `client.go` attach, and that `New` refuses
  missing parameters*: no state, and a refused client does nothing.
- *The fields `GetOrderBookDepth` and `GetTrades` copy from an answer, and the
  bounds `GetTrades` defaults to*: one unary call each, of which `Connection` has
  the control; the copies are assignments.
- *The optional filters of `FilterClientOrders`*: the Core's business.
- *A negative base delay or maximum*: the options take any duration, and a negative
  one makes every wait return at once, as a base of 0 does.
- *The refusal of an inverted or too long range of days* (`recover.go:100-124`): a
  refused call does nothing; the model starts the recoveries that are accepted.
- *The messages, descriptors and server side of the generated protocol code*:
  `protoc`'s, and they hold no logic of the SDK. The client stubs are modelled as
  how a call or a stream starts and ends.
- *Hypertables, indices and retention of `db.sql`*: what the code relies on are the
  keys, defaults, widths and scales.

## 9. Plan

Written in this order, most important first: `TradeData`, `TradeLedger`,
`TradeSettlement` and its proofs; `OrderLifecycle`; `DuplicateProbe`;
`Reconciliation`; `Subscription`; `Calendar` and `ReconcileSchedule`; then
`Amounts` in the pipeline, `Connection`, `OrderQuery`, `Process`, and the proofs of
every part. What is left:

1. `SubmitOrder` composed with `Connection`, so that the waits of its retries and
   the window of the duplicate guard meet.
2. An abstract specification of what the row of an order promises, and the
   proof that `OrderLifecycle` implements it.

## 10. Running it

```
tlc -workers 2 -config Settlement_safety.cfg MCTradeSettlement
tlapm TradeSettlementProofs.tla
```

The other configurations are run with the module `PROJECT.json` names for them; the other proofs
are in `ConnectionProofs`, `ProcessProofs`, `OrderLifecycleProofs`,
`OrderStatusProofs`, `DuplicateProbeProofs` and `ReconciliationProofs`, and what they
rest on is in `InductionFacts`.

`PROJECT.json` has the module, the configuration and the properties of each run,
and for each definition the lines of the source it models.
