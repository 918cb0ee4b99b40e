------------------------ MODULE DuplicateProbeProofs ------------------------
(***************************************************************************)
(* Proofs about the duplicate guard of SubmitOrder and the query beside    *)
(* it: the probe compares like with like, no order of a day gets past it   *)
(* within the minute while nobody else submits the same, and the default   *)
(* days of a host behind UTC+05:00 cover the day of the call.              *)
(***************************************************************************)
EXTENDS OrderQuery, SequenceTheorems, TLAPS

LEMMA Quotient ==
    ASSUME NEW x \in Int, NEW d \in Nat \ {0}
    PROVE  /\ x \div d \in Int
           /\ d * (x \div d) <= x
           /\ x < d * (x \div d) + d
<1>1. x \div d \in Int
  OBVIOUS
<1>2. x % d \in 0 .. d - 1
  OBVIOUS
<1>3. x % d = x - d * (x \div d)
  BY SMTT(60)
<1> QED BY <1>1, <1>2, <1>3

\* A later reading is of no earlier day.
LEMMA DaysPass ==
    ASSUME NEW x \in Int, NEW y \in Int, x <= y, NEW d \in Nat \ {0}
    PROVE  x \div d <= y \div d
<1> DEFINE p == x \div d
           q == y \div d
<1>1. p \in Int /\ d * p <= x /\ q \in Int /\ y < d * q + d
  BY Quotient
<1> HIDE DEF p, q
<1>2. SUFFICES ASSUME p >= q + 1 PROVE FALSE
  BY <1>1 DEF p, q
<1>3. d * p >= d * (q + 1)
  BY <1>1, <1>2
<1>4. d * (q + 1) = d * q + d
  BY <1>1
<1> QED BY <1>1, <1>3, <1>4

\* What passes the check is stored as it was written.
LEMMA ExactIsKept ==
    ASSUME NEW v \in Decimals, v # Empty => CheckDecimal(v)
    PROVE  Numeric(v) = v
<1>1. CASE v = Empty
  BY <1>1 DEF Numeric
<1>2. CASE v # Empty
  <2>1. v \in Nat /\ v % 2 = 0
    BY <1>2 DEF Decimals, CheckDecimal
  <2> DEFINE h == (v + 1) \div 2
  <2>2. h \in Int /\ 2 * h <= v + 1 /\ v + 1 < 2 * h + 2
    BY <2>1, Quotient
  <2>3. v = 2 * (v \div 2) /\ v \div 2 \in Int
    BY <2>1
  <2> HIDE DEF h
  <2>4. 2 * h = v
    BY <2>1, <2>2, <2>3
  <2> QED BY <2>4, <1>2 DEF Numeric, h
<1> QED BY <1>1, <1>2

LEMMA ValidIsExact ==
    ASSUME NEW p \in Requests, Valid(p)
    PROVE  ColumnsOf(KeyOf(p)) = KeyOf(p)
<1>1. p.quantity \in Decimals /\ CheckDecimal(p.quantity)
  BY ProbeAssumption DEF Valid
<1>2. RateOf(p) \in Decimals /\ (RateOf(p) # Empty => CheckDecimal(RateOf(p)))
  BY ProbeAssumption DEF Valid, RateOf, Decimals, Empty
<1>3. Numeric(p.quantity) = p.quantity /\ Numeric(RateOf(p)) = RateOf(p)
  BY <1>1, <1>2, ExactIsKept
<1> QED BY <1>3 DEF ColumnsOf, KeyOf

-----------------------------------------------------------------------------
(* What the proofs rest on *)

\* A caller in a call holds parameters of its own that passed the checks.
HoldsValid ==
    \A c \in Callers : pc[c] # "idle" => order[c] \in RequestsOf[c] /\ Valid(order[c])

\* A row says what was asked for, and when.
RowsTrue ==
    \A i \in DOMAIN rows : /\ rows[i].key = rows[i].asked
                           /\ rows[i].at <= now
                           /\ rows[i].day = Day(rows[i].at)

Sound == TypeOK /\ HoldsValid /\ RowsTrue

LEMMA ClockType == ASSUME TypeOK PROVE now \in Nat /\ Day(now) \in Nat
<1>1. now \in Nat /\ DayLength \in Nat \ {0}
  BY ProbeAssumption DEF TypeOK
<1> QED BY <1>1, Quotient DEF Day

LEMMA RowType ==
    ASSUME TypeOK, NEW i \in DOMAIN rows
    PROVE  rows[i] \in Row /\ rows[i].at \in Nat
<1>1. rows[i] \in Row
  BY DEF TypeOK
<1> QED BY <1>1 DEF Row

LEMMA SoundInit == Init => Sound
<1> SUFFICES ASSUME Init PROVE Sound
  OBVIOUS
<1>1. TypeOK
  BY ProbeAssumption DEF Init, TypeOK
<1>2. HoldsValid /\ RowsTrue
  BY DEF Init, HoldsValid, RowsTrue
<1> QED BY <1>1, <1>2 DEF Sound

LEMMA SoundStep == Sound /\ [Next]_vars => Sound'
<1> SUFFICES ASSUME Sound, [Next]_vars PROVE Sound'
  OBVIOUS
<1> USE DEF Sound
<1>0. now \in Nat /\ Day(now) \in Nat
  BY ClockType
<1>1. CASE Tick
  <2>1. TypeOK'
    BY <1>1, ProbeAssumption DEF Tick, TypeOK
  <2>2. HoldsValid'
    BY <1>1 DEF Tick, HoldsValid
  <2>3. RowsTrue'
    <3> SUFFICES ASSUME NEW i \in DOMAIN rows
                 PROVE  /\ rows[i].key = rows[i].asked
                        /\ rows[i].at <= now + 1
                        /\ rows[i].day = Day(rows[i].at)
      BY <1>1 DEF Tick, RowsTrue, Day
    <3>1. rows[i].at \in Nat
      BY RowType
    <3> QED BY <3>1, <1>0 DEF RowsTrue
  <2> QED BY <2>1, <2>2, <2>3
<1>2. ASSUME NEW c \in Callers, Submit(c) PROVE Sound'
  <2>1. PICK p \in RequestsOf[c] : Valid(p) /\ order' = [order EXCEPT ![c] = p]
    BY <1>2 DEF Submit
  <2>2. p \in Requests
    BY ProbeAssumption
  <2>3. pc' = [pc EXCEPT ![c] = "probe"] /\ UNCHANGED <<now, rows>>
    BY <1>2 DEF Submit
  <2>4. TypeOK'
    BY <2>1, <2>2, <2>3 DEF TypeOK
  <2>5. HoldsValid'
    BY <2>1, <2>3 DEF TypeOK, HoldsValid
  <2>6. RowsTrue'
    BY <2>3 DEF RowsTrue, Day
  <2> QED BY <2>4, <2>5, <2>6
<1>3. ASSUME NEW c \in Callers, Probe(c) \/ GiveUp(c) PROVE Sound'
  <2>1. /\ UNCHANGED <<now, rows>>
        /\ \/ Return(c)
           \/ pc[c] = "probe" /\ pc' = [pc EXCEPT ![c] = "insert"] /\ UNCHANGED order
    BY <1>3 DEF Probe, GiveUp
  <2>2. TypeOK'
    BY <2>1 DEF TypeOK, Return
  <2>3. HoldsValid'
    BY <2>1 DEF TypeOK, HoldsValid, Return
  <2>4. RowsTrue'
    BY <2>1 DEF RowsTrue, Day
  <2> QED BY <2>2, <2>3, <2>4
<1>4. ASSUME NEW c \in Callers, Insert(c) PROVE Sound'
  <2> DEFINE k == KeyOf(order[c])
             new == [key |-> ColumnsOf(k), asked |-> k, at |-> now, day |-> Day(now)]
  <2>1. order[c] \in Requests /\ Valid(order[c])
    BY <1>4 DEF Insert, TypeOK, HoldsValid
  <2>2. new \in Row /\ ColumnsOf(k) = k
    BY <2>1, <1>0, ValidIsExact DEF Row, Keys
  <2>3. rows' = Append(rows, new) /\ Return(c) /\ now' = now
    BY <1>4 DEF Insert
  <2> HIDE DEF new
  <2>4. TypeOK'
    BY <2>2, <2>3 DEF TypeOK, Return
  <2>5. HoldsValid'
    BY <2>3 DEF TypeOK, HoldsValid, Return
  <2>6. RowsTrue'
    <3> SUFFICES ASSUME NEW i \in DOMAIN rows'
                 PROVE  /\ rows'[i].key = rows'[i].asked
                        /\ rows'[i].at <= now
                        /\ rows'[i].day = Day(rows'[i].at)
      BY <2>3 DEF RowsTrue, Day
    <3>1. \/ i \in DOMAIN rows /\ rows'[i] = rows[i]
          \/ rows'[i] = new
      BY <2>2, <2>3 DEF TypeOK
    <3>2. new.key = new.asked /\ new.at <= now /\ new.day = Day(new.at)
      BY <2>2, <1>0 DEF new
    <3> QED BY <3>1, <3>2 DEF RowsTrue
  <2> QED BY <2>4, <2>5, <2>6
<1>5. CASE UNCHANGED vars
  BY <1>5 DEF vars, TypeOK, HoldsValid, RowsTrue, Day
<1> QED BY <1>1, <1>2, <1>3, <1>4, <1>5 DEF Next

LEMMA AlwaysSound == Spec => []Sound
<1> QED BY SoundInit, SoundStep, PTL DEF Spec

\* The rows, the clock and the calls in progress keep their types.
THEOREM TypeCorrect == Spec => []TypeOK
<1>1. Sound => TypeOK
  BY DEF Sound
<1> QED BY <1>1, AlwaysSound, PTL

\* For any parameters, an order is only ever taken for a duplicate of a row
\* that was asked for in the same words (order.go:73-91).
THEOREM CorrectionsPass == Spec => []CorrectionNotRefused
<1>1. Sound => CorrectionNotRefused
  BY DEF Sound, RowsTrue, CorrectionNotRefused, Twins
<1> QED BY <1>1, AlwaysSound, PTL

-----------------------------------------------------------------------------
(* Callers that share no order *)

\* No order of one caller is alike an order of another.
NoSharedOrders ==
    \A c, d \in Callers : c # d =>
        \A p \in RequestsOf[c], q \in RequestsOf[d] : KeyOf(p) # KeyOf(q)

\* What the probe saw still holds when its caller gets to the INSERT.
InsertClear ==
    \A c \in Callers : pc[c] = "insert" =>
        \A i \in DOMAIN rows :
            rows[i].asked = KeyOf(order[c]) /\ rows[i].day = Day(now)
                => rows[i].at <= now - Window

Apart == InsertClear /\ AlikeRowsOfADayApart

LEMMA ApartStep ==
    ASSUME NoSharedOrders, Sound, Sound', Apart, [Next]_vars
    PROVE  Apart'
<1> USE DEF Apart
<1>0. now \in Nat /\ Window \in Nat /\ DayLength \in Nat \ {0}
  BY ClockType, ProbeAssumption DEF Sound
<1>r. \A i \in DOMAIN rows : rows[i].at \in Nat /\ rows[i].at <= now /\ rows[i].day = Day(rows[i].at)
  BY RowType DEF Sound, RowsTrue
<1>1. CASE Tick
  <2>1. AlikeRowsOfADayApart'
    BY <1>1 DEF Tick, AlikeRowsOfADayApart
  <2>2. InsertClear'
    <3>0. now' = now + 1 /\ rows' = rows /\ pc' = pc /\ order' = order
      BY <1>1 DEF Tick
    <3> SUFFICES ASSUME NEW c \in Callers, pc'[c] = "insert", NEW i \in DOMAIN rows',
                        rows'[i].asked = KeyOf(order'[c]), rows'[i].day = now' \div DayLength
                 PROVE  rows'[i].at <= now' - Window
      BY DEF InsertClear, Day
    <3>a. /\ pc[c] = "insert" /\ i \in DOMAIN rows
          /\ rows[i].asked = KeyOf(order[c]) /\ rows[i].day = (now + 1) \div DayLength
      BY <3>0
    <3>1. rows[i].at \div DayLength <= now \div DayLength /\ now \div DayLength <= (now + 1) \div DayLength
      <4>1. rows[i].at \in Int /\ now \in Int /\ now + 1 \in Int /\ rows[i].at <= now
        BY <1>0, <1>r, <3>a
      <4> QED BY <1>0, <4>1, DaysPass
    <3>2. rows[i].day = Day(now)
      <4>1. rows[i].at \div DayLength \in Int /\ now \div DayLength \in Int /\ (now + 1) \div DayLength \in Int
        <5>1. rows[i].at \in Int /\ now \in Int /\ now + 1 \in Int
          BY <1>0, <1>r, <3>a
        <5> QED BY <1>0, <5>1, Quotient
      <4>2. rows[i].at \div DayLength = (now + 1) \div DayLength
        BY <1>r, <3>a DEF Day
      <4> QED BY <3>1, <4>1, <4>2, <1>r, <3>a DEF Day
    <3>3. rows[i].at <= now - Window
      BY <3>2, <3>a DEF InsertClear
    <3> QED BY <3>0, <3>3, <1>0, <1>r, <3>a
  <2> QED BY <2>1, <2>2
<1>2. ASSUME NEW c \in Callers, Submit(c) \/ GiveUp(c) PROVE Apart'
  <2>1. /\ UNCHANGED <<now, rows>>
        /\ \A d \in Callers : pc'[d] = "insert" => pc[d] = "insert" /\ order'[d] = order[d]
    BY <1>2 DEF Submit, GiveUp, Return, Sound, TypeOK
  <2> QED BY <2>1 DEF InsertClear, AlikeRowsOfADayApart, Day
<1>3. ASSUME NEW c \in Callers, Probe(c) PROVE Apart'
  <2>1. UNCHANGED <<now, rows>>
    BY <1>3 DEF Probe
  <2>2. \A d \in Callers : pc'[d] = "insert" =>
            /\ order'[d] = order[d]
            /\ pc[d] = "insert" \/ Twins(KeyOf(order[d])) = {}
    BY <1>3 DEF Probe, Return, Sound, TypeOK
  <2>3. InsertClear'
    <3> SUFFICES ASSUME NEW d \in Callers, pc'[d] = "insert", NEW i \in DOMAIN rows,
                        rows[i].asked = KeyOf(order[d]), rows[i].day = Day(now)
                 PROVE  rows[i].at <= now - Window
      BY <2>1, <2>2 DEF InsertClear, Day
    <3>1. CASE pc[d] = "insert"
      BY <3>1 DEF InsertClear
    <3>2. CASE Twins(KeyOf(order[d])) = {}
      <4>1. ~ (rows[i].at > now - Window)
        BY <3>2 DEF Twins, Sound, RowsTrue
      <4> QED BY <4>1, <1>0, <1>r
    <3> QED BY <3>1, <3>2, <2>2
  <2>4. AlikeRowsOfADayApart'
    BY <2>1 DEF AlikeRowsOfADayApart
  <2> QED BY <2>3, <2>4
<1>4. ASSUME NEW c \in Callers, Insert(c) PROVE Apart'
  <2> DEFINE k == KeyOf(order[c])
             new == [key |-> ColumnsOf(k), asked |-> k, at |-> now, day |-> Day(now)]
  <2>1. pc[c] = "insert" /\ rows' = Append(rows, new) /\ Return(c) /\ now' = now
    BY <1>4 DEF Insert
  <2>2. new.asked = k /\ new.at = now /\ new.day = Day(now)
    OBVIOUS
  <2>3. rows \in Seq(Row)
    BY DEF Sound, TypeOK
  <2> HIDE DEF new
  <2>4. /\ DOMAIN rows = 1 .. Len(rows) /\ Len(rows) \in Nat
        /\ DOMAIN rows' = 1 .. Len(rows) + 1
        /\ rows'[Len(rows) + 1] = new
        /\ \A i \in DOMAIN rows : rows'[i] = rows[i]
    <3>1. Len(rows) \in Nat /\ DOMAIN rows = 1 .. Len(rows)
      BY <2>3
    <3> QED BY <2>1, <2>3, <3>1, AppendProperties
  <2>5. InsertClear'
    <3> SUFFICES ASSUME NEW d \in Callers, pc'[d] = "insert", NEW i \in DOMAIN rows',
                        rows'[i].asked = KeyOf(order'[d]), rows'[i].day = Day(now)
                 PROVE  rows'[i].at <= now - Window
      BY <2>1 DEF InsertClear, Day
    <3>1. d # c /\ pc[d] = "insert" /\ order'[d] = order[d]
      BY <2>1 DEF Return, Sound, TypeOK
    <3>2. KeyOf(order[d]) # k
      BY <3>1, <2>1 DEF NoSharedOrders, Sound, HoldsValid
    <3>3. i \in DOMAIN rows /\ rows'[i] = rows[i]
      BY <2>2, <2>4, <3>1, <3>2
    <3> QED BY <3>1, <3>3 DEF InsertClear
  <2>6. AlikeRowsOfADayApart'
    <3> SUFFICES ASSUME NEW i \in DOMAIN rows', NEW j \in DOMAIN rows', i < j,
                        rows'[i].asked = rows'[j].asked, rows'[i].day = rows'[j].day
                 PROVE  rows'[j].at - rows'[i].at >= Window
      BY DEF AlikeRowsOfADayApart
    <3>1. i \in DOMAIN rows /\ rows'[i] = rows[i]
      BY <2>4
    <3>2. CASE j \in DOMAIN rows
      BY <3>1, <3>2, <2>4 DEF AlikeRowsOfADayApart
    <3>3. CASE j = Len(rows) + 1
      <4>1. rows[i].at <= now - Window
        BY <3>1, <3>3, <2>1, <2>2, <2>4 DEF InsertClear
      <4> QED BY <4>1, <3>1, <3>3, <2>2, <2>4, <1>0, <1>r
    <3> QED BY <3>2, <3>3, <2>4
  <2> QED BY <2>5, <2>6
<1>5. CASE UNCHANGED vars
  BY <1>5 DEF vars, InsertClear, AlikeRowsOfADayApart, Day
<1> QED BY <1>1, <1>2, <1>3, <1>4, <1>5 DEF Next

\* However many callers there are, and however long any of them takes between
\* its two statements: when no two of them submit the same order, rows alike of
\* one day are a minute apart (order.go:93-99).
THEOREM AlikeOrdersAreApart ==
    ASSUME NoSharedOrders
    PROVE  Spec => []AlikeRowsOfADayApart
<1>1. Init => Apart
  BY DEF Init, Apart, InsertClear, AlikeRowsOfADayApart
<1>2. Sound /\ Sound' /\ Apart /\ [Next]_vars => Apart'
  BY ApartStep
<1>3. Apart => AlikeRowsOfADayApart
  BY DEF Apart
<1> QED BY <1>1, <1>2, <1>3, AlwaysSound, PTL DEF Spec

-----------------------------------------------------------------------------
(* FilterClientOrders *)

Ask == [who : Whos, from : Int, to : Int, calledOn : Int]

\* The days of a request are around the day it was made on.
DaysAround ==
    /\ request \in [Readers -> Ask \cup {NoRequest}]
    /\ \A r \in Readers : request[r] # NoRequest =>
           /\ request[r] \in Ask
           /\ request[r].from <= request[r].calledOn
           /\ request[r].calledOn <= request[r].to

\* Today and tomorrow of a host that is behind, by a day at most, include today.
LEMMA HostDays ==
    ASSUME TypeOK
    PROVE  /\ HostDay \in Int /\ Day(now) \in Int
           /\ HostDay <= Day(now)
           /\ Day(now) <= HostDay + 1
<1> DEFINE n == now
           h == now - HostBehind
           p == h \div DayLength
           q == now \div DayLength
<1>1. /\ n \in Int /\ h \in Int /\ DayLength \in Nat \ {0}
      /\ h <= n /\ n <= h + DayLength
  BY ClockType, ProbeAssumption, QueryAssumption
<1>2. p \in Int /\ q \in Int /\ h < DayLength * p + DayLength /\ DayLength * q <= n
  BY <1>1, Quotient
<1>3. p <= q
  BY <1>1, DaysPass
<1> HIDE DEF n, h, p, q
<1>4. q <= p + 1
  <2> SUFFICES ASSUME q >= p + 2 PROVE FALSE
    BY <1>2
  <2>1. DayLength * q >= DayLength * (p + 2)
    BY <1>1, <1>2
  <2>2. DayLength * (p + 2) = DayLength * p + DayLength + DayLength
    BY <1>1, <1>2
  <2>3. DayLength * q \in Int /\ DayLength * p \in Int
    BY <1>1, <1>2
  <2> QED BY <1>1, <1>2, <2>1, <2>2, <2>3
<1> QED BY <1>2, <1>3, <1>4 DEF HostDay, Day, p, q, h

LEMMA DaysAroundStep ==
    ASSUME TypeOK, DaysAround, [QueryNext]_queryVars
    PROVE  DaysAround'
<1>1. ASSUME NEW r \in Readers, FilterClientOrders(r) PROVE DaysAround'
  <2>1. PICK who \in Whos, from, to \in {AnyDay, Day(now)} :
            request' = [request EXCEPT ![r] = [who |-> who, from |-> From(from),
                                               to |-> To(to), calledOn |-> Day(now)]]
    BY <1>1 DEF FilterClientOrders
  <2>2. From(from) \in Int /\ From(from) <= Day(now)
    BY HostDays DEF From
  <2>3. To(to) \in Int /\ Day(now) <= To(to)
    BY HostDays DEF To
  <2>4. [who |-> who, from |-> From(from), to |-> To(to), calledOn |-> Day(now)] \in Ask
    BY <2>2, <2>3, HostDays DEF Ask
  <2> QED BY <2>1, <2>2, <2>3, <2>4 DEF DaysAround
<1>2. ASSUME NEW r \in Readers, Answered(r) PROVE DaysAround'
  BY <1>2 DEF Answered, DaysAround
<1>3. CASE UNCHANGED request
  BY <1>3 DEF DaysAround
<1> QED BY <1>1, <1>2, <1>3 DEF QueryNext, queryVars

\* However long the Core takes, and wherever between UTC+05:00 and a day to
\* the west of it the clock of the host is (order.go:275-285).
THEOREM DayIsFound == QuerySpec => []TodaysOrdersAreFound
<1>1. QueryInit => Sound /\ DaysAround
  BY SoundInit DEF QueryInit, DaysAround
<1>2. Sound /\ [QueryNext]_queryVars => Sound'
  <2> SUFFICES ASSUME Sound, [QueryNext]_queryVars PROVE Sound'
    OBVIOUS
  <2>1. [Next]_vars
    BY DEF QueryNext, queryVars, FilterClientOrders, Answered
  <2> QED BY <2>1, SoundStep
<1>3. Sound /\ DaysAround /\ [QueryNext]_queryVars => DaysAround'
  BY DaysAroundStep DEF Sound
<1>4. Sound /\ DaysAround => TodaysOrdersAreFound
  <2> SUFFICES ASSUME Sound, DaysAround, NEW r \in Readers, request[r] # NoRequest,
                      NEW i \in DOMAIN rows, rows[i].key.who = request[r].who,
                      rows[i].day = request[r].calledOn
               PROVE  i \in Found(request[r])
    BY DEF TodaysOrdersAreFound
  <2>1. /\ request[r].from \in Int /\ request[r].to \in Int /\ request[r].calledOn \in Int
        /\ request[r].from <= request[r].calledOn /\ request[r].calledOn <= request[r].to
    BY DEF DaysAround, Ask
  <2> QED BY <2>1 DEF Found
<1> QED BY <1>1, <1>2, <1>3, <1>4, PTL DEF QuerySpec
=============================================================================
