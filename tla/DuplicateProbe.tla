--------------------------- MODULE DuplicateProbe ---------------------------
(***************************************************************************)
(* SubmitOrder up to the row it stores (order.go:20-143): the parameters   *)
(* are checked and trimmed, a SELECT EXISTS looks for the order among the  *)
(* rows of the last minute, an INSERT stores it.  The two are separate     *)
(* statements with no transaction around them, run by any number of        *)
(* goroutines while the database clock goes on.                            *)
(*                                                                         *)
(* A decimal is a number of half units of the sixth place, so that the odd *)
(* ones are those NUMERIC(28,6) rounds; Empty is the empty string, which   *)
(* is NULL in a nullable column.                                           *)
(*                                                                         *)
(* A definition marked "Slip" is no part of the specification: it is a     *)
(* plausible wrong form of the definition after it, which the properties   *)
(* must reject.                                                            *)
(***************************************************************************)
EXTENDS Integers, Sequences

CONSTANTS
    Callers,    \* goroutines that call SubmitOrder
    Requests,   \* SubmitOrderParams that somebody may pass
    RequestsOf, \* the parameters a caller passes
    NoOrder,    \* what order holds outside a call
    Window,     \* one minute, in ticks of the clock
    DayLength,  \* one UTC+05:00 day, in ticks
    Dawn,       \* the tick of the day the behaviour starts at
    Horizon,    \* how many ticks a behaviour lasts
    MaxRows     \* how many rows before no further call is made

Empty == -1
Decimals == Nat \cup {Empty}

AnyCounterparty == 0  Retail == 1  Treasury == 3
LimitOrder == 1  MarketOrder == 2
OrderTypes == {LimitOrder, MarketOrder}

ASSUME ProbeAssumption ==
    /\ \A p \in Requests : /\ p.quantity \in Decimals
                           /\ p.limitRate \in Decimals
                           /\ p.minTradeQuantity \in Decimals
    /\ RequestsOf \in [Callers -> SUBSET Requests]
    /\ NoOrder \notin Requests
    /\ Window \in Nat \ {0}
    /\ DayLength \in Nat \ {0}
    /\ Dawn \in Nat
    /\ Horizon \in Nat
    /\ MaxRows \in Nat

VARIABLES
    now,   \* the database clock
    rows,  \* client_orders, in the order of insertion
    pc,    \* where a caller is
    order  \* the parameters of the call a caller is in

vars == <<now, rows, pc, order>>

-----------------------------------------------------------------------------

\* order_type defaults to a limit order.
TypeOf(p) == IF p.orderType = 0 THEN LimitOrder ELSE p.orderType

\* A market order has no rate of its own and never rests in the book.
RateOf(p) == IF TypeOf(p) = MarketOrder THEN Empty ELSE p.limitRate
MinOf(p) == IF TypeOf(p) = MarketOrder THEN Empty ELSE p.minTradeQuantity

\* Slip: the value is a decimal, of any precision.
AnyDecimal(v) == v # Empty

\* checkDecimal: cutting the value after the sixth place leaves it alone.
CheckDecimal(v) == v # Empty /\ v % 2 = 0

\* SubmitOrder goes past its checks.
Valid(p) ==
    /\ p.segment \in Retail .. Treasury
    /\ TypeOf(p) \in OrderTypes
    /\ TypeOf(p) = LimitOrder => p.limitRate # Empty
    /\ p.counterparty \in {AnyCounterparty, Treasury}
    /\ p.counterparty = Treasury => p.segment = Treasury
    /\ CheckDecimal(p.quantity)
    /\ RateOf(p) # Empty => CheckDecimal(RateOf(p))
    /\ MinOf(p) # Empty => CheckDecimal(MinOf(p))

\* What the probe compares.  "who" is partner, client, side and pair.
KeyOf(p) == [who |-> p.who, orderType |-> TypeOf(p),
             rate |-> RateOf(p), quantity |-> p.quantity]

Keys == {KeyOf(p) : p \in Requests}

\* A NUMERIC(28,6) column rounds half up.
Numeric(v) == IF v = Empty THEN Empty ELSE 2 * ((v + 1) \div 2)

\* The columns of a row that stores k.
ColumnsOf(k) == [who |-> k.who, orderType |-> k.orderType,
                 rate |-> Numeric(k.rate), quantity |-> Numeric(k.quantity)]

\* Slip: the day of another zone.
DayElsewhere(t) == (t - DayLength \div 2) \div DayLength

\* The UTC+05:00 day of a clock reading.
Day(t) == t \div DayLength

Row == [key : {ColumnsOf(k) : k \in Keys}, asked : Keys, at : Nat, day : Nat]

TypeOK ==
    /\ now \in Dawn .. Dawn + Horizon
    /\ rows \in Seq(Row)
    /\ pc \in [Callers -> {"idle", "probe", "insert"}]
    /\ order \in [Callers -> Requests \cup {NoOrder}]
    /\ \A c \in Callers : pc[c] # "idle" => order[c] \in Requests

Init ==
    /\ now = Dawn
    /\ rows = <<>>
    /\ pc = [c \in Callers |-> "idle"]
    /\ order = [c \in Callers |-> NoOrder]

-----------------------------------------------------------------------------

Tick ==
    /\ now < Dawn + Horizon
    /\ now' = now + 1
    /\ UNCHANGED <<rows, pc, order>>

\* The call passes its checks; one that does not returns having done nothing.
Submit(c) ==
    /\ pc[c] = "idle"
    /\ Len(rows) < MaxRows
    /\ \E p \in RequestsOf[c] : Valid(p) /\ order' = [order EXCEPT ![c] = p]
    /\ pc' = [pc EXCEPT ![c] = "probe"]
    /\ UNCHANGED <<now, rows>>

\* Slip: off by one at the edge of the window.
RecentTwins(k) ==
    {i \in DOMAIN rows : /\ rows[i].day = Day(now)
                         /\ rows[i].at > now - Window + 1
                         /\ rows[i].key = k}

\* Today's rows of the last minute whose columns equal what the caller wrote.
Twins(k) ==
    {i \in DOMAIN rows : /\ rows[i].day = Day(now)
                         /\ rows[i].at > now - Window
                         /\ rows[i].key = k}

Return(c) ==
    /\ pc' = [pc EXCEPT ![c] = "idle"]
    /\ order' = [order EXCEPT ![c] = NoOrder]

\* ErrDuplicateOrder, or on to the INSERT.
Probe(c) ==
    /\ pc[c] = "probe"
    /\ \/ Twins(KeyOf(order[c])) # {} /\ Return(c)
       \/ /\ Twins(KeyOf(order[c])) = {}
          /\ pc' = [pc EXCEPT ![c] = "insert"]
          /\ UNCHANGED order
    /\ UNCHANGED <<now, rows>>

\* submitted_at and order_day default to the clock of the INSERT.  What comes
\* of the order at the Core touches neither.  "asked" is history: what the
\* caller wrote.
Insert(c) ==
    /\ pc[c] = "insert"
    /\ LET k == KeyOf(order[c])
       IN rows' = Append(rows, [key |-> ColumnsOf(k), asked |-> k,
                                at |-> now, day |-> Day(now)])
    /\ Return(c)
    /\ UNCHANGED now

\* The statement, or the call, fails.
GiveUp(c) ==
    /\ pc[c] \in {"probe", "insert"}
    /\ Return(c)
    /\ UNCHANGED <<now, rows>>

Next == Tick \/ \E c \in Callers : Submit(c) \/ Probe(c) \/ Insert(c) \/ GiveUp(c)

Spec == Init /\ [][Next]_vars

-----------------------------------------------------------------------------

\* An order alike in side, limit_rate, quantity, currency_pair, order_type,
\* partner_id and client_id is refused within a minute, so two rows alike are
\* a minute apart (README.md:458-460).
AlikeRowsApart ==
    \A i, j \in DOMAIN rows :
        i < j /\ rows[i].asked = rows[j].asked => rows[j].at - rows[i].at >= Window

\* ... which the guard sees to within a day, when no two goroutines submit the
\* same order at once (order.go:93-99).
AlikeRowsOfADayApart ==
    \A i, j \in DOMAIN rows :
        i < j /\ rows[i].asked = rows[j].asked /\ rows[i].day = rows[j].day
            => rows[j].at - rows[i].at >= Window

\* An order is refused as a duplicate of what somebody asked for, never of
\* what the columns made of it: the correction of a value that was too fine is
\* not taken for a repeat of the mistake (order.go:73-78).
CorrectionNotRefused ==
    \A c \in Callers : pc[c] = "probe" =>
        \A i \in Twins(KeyOf(order[c])) : rows[i].asked = KeyOf(order[c])
=============================================================================
