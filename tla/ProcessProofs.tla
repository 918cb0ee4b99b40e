--------------------------- MODULE ProcessProofs ---------------------------
(***************************************************************************)
(* Proofs about the schedule of reconciliations and the process it runs    *)
(* in: only closed hours are reconciled, and nothing but a signal or the   *)
(* end of a subscription cancels the context.                              *)
(***************************************************************************)
EXTENDS Process, SequenceTheorems, TLAPS

\* Whole multiples: the quotient is the largest whose multiple is reached.
LEMMA Quotient ==
    ASSUME NEW x \in Int, NEW d \in Nat \ {0}
    PROVE  /\ x \div d \in Int
           /\ x % d \in 0 .. d - 1
           /\ x % d = x - d * (x \div d)
<1>1. x \div d \in Int
  OBVIOUS
<1>2. x % d \in 0 .. d - 1
  OBVIOUS
<1>3. x % d = x - d * (x \div d)
  BY SMTT(60)
<1> QED BY <1>1, <1>2, <1>3

LEMMA LargestMultiple ==
    ASSUME NEW x \in Int, NEW d \in Nat \ {0}, NEW q \in Int, q * d <= x
    PROVE  q <= x \div d
<1>1. x < d * (x \div d) + d /\ x \div d \in Int
  BY Quotient
<1>2. SUFFICES ASSUME q >= x \div d + 1 PROVE FALSE
  BY <1>1
<1>3. q * d >= (x \div d + 1) * d
  BY <1>1, <1>2
<1> QED BY <1>1, <1>3

LEMMA QuotientIs ==
    ASSUME NEW x \in Int, NEW d \in Nat \ {0}, NEW q \in Int, q * d <= x, x < (q + 1) * d
    PROVE  x \div d = q
<1>1. q <= x \div d
  BY LargestMultiple
<1>2. d * (x \div d) <= x /\ x \div d \in Int
  BY Quotient
<1> SUFFICES ASSUME x \div d >= q + 1 PROVE FALSE
  BY <1>1, <1>2
<1>3. (x \div d) * d >= (q + 1) * d
  BY <1>2
<1> QED BY <1>2, <1>3

LEMMA NoMultiple ==
    ASSUME NEW x \in Int, NEW d \in Nat \ {0}, x % d # 0, NEW m \in Int
    PROVE  x # m * d
<1> SUFFICES ASSUME x = m * d PROVE FALSE
  OBVIOUS
<1>1. m * d <= x /\ x < (m + 1) * d
  <2>1. (m + 1) * d = m * d + d
    OBVIOUS
  <2> QED BY <2>1
<1>2. x \div d = m
  BY <1>1, QuotientIs
<1> QED BY <1>2, Quotient

\* The windows of the slots lie end to end, from one day into the next.
LEMMA WindowType ==
    ASSUME NEW s \in Slots
    PROVE  /\ s.day \in Int /\ s.hour \in Int
           /\ WindowFrom(s) \in Int /\ WindowTo(s) = WindowFrom(s) + HourLen
           /\ WindowFrom(s) = (s.day * DayHours + s.hour) * HourLen
           /\ s.day * DayLen <= WindowFrom(s) /\ WindowTo(s) <= (s.day + 1) * DayLen
<1>1. HourLen \in Nat \ {0} /\ DayHours \in Nat \ {0} /\ DayLen \in Nat \ {0}
  BY CalendarAssumption DEF DayLen
<1>2. s.day \in Int /\ s.hour \in 0 .. DayHours - 1
  BY DEF Slots
<1>3. s.day * DayLen = (s.day * DayHours) * HourLen
  BY <1>1, <1>2 DEF DayLen
<1>4. (s.day * DayHours + s.hour) * HourLen = (s.day * DayHours) * HourLen + s.hour * HourLen
  BY <1>1, <1>2
<1>5. s.day * DayLen \in Int /\ s.hour * HourLen \in Int /\ 0 <= s.hour * HourLen
  BY <1>1, <1>2
<1>6. s.hour * HourLen + HourLen <= DayLen
  <2>1. (s.hour + 1) * HourLen <= DayHours * HourLen
    BY <1>1, <1>2
  <2> QED BY <1>1, <1>2, <2>1 DEF DayLen
<1>7. (s.day + 1) * DayLen = s.day * DayLen + DayLen
  BY <1>1, <1>2
<1> QED BY <1>1, <1>2, <1>3, <1>4, <1>5, <1>6, <1>7 DEF WindowFrom, WindowTo

\* The slot in whose window a wall clock is, is the one it shows.
LEMMA OneSlot ==
    ASSUME NEW s \in Slots, NEW x \in Int, WindowFrom(s) <= x, x < WindowTo(s)
    PROVE  SlotAt(x) = s
<1> DEFINE k == s.day * DayHours + s.hour
<1>1. HourLen \in Nat \ {0} /\ DayHours \in Nat \ {0} /\ DayLen \in Nat \ {0}
  BY CalendarAssumption DEF DayLen
<1>2. s.day \in Int /\ s.hour \in 0 .. DayHours - 1 /\ s = [day |-> s.day, hour |-> s.hour]
  BY DEF Slots
<1>3. k \in Int /\ s.day * DayHours <= k /\ k < (s.day + 1) * DayHours
  BY <1>1, <1>2
<1>4. k \div DayHours = s.day
  <2> HIDE DEF k
  <2> QED BY <1>1, <1>2, <1>3, QuotientIs
<1>5. k % DayHours = s.hour
  <2>1. k % DayHours = k - DayHours * s.day
    <3> HIDE DEF k
    <3> QED BY <1>1, <1>3, <1>4, Quotient
  <2> QED BY <1>1, <1>2, <2>1
<1>6. WindowFrom(s) = k * HourLen
  BY WindowType
<1>7. x \div HourLen = k
  <2> HIDE DEF k
  <2>1. (k + 1) * HourLen = k * HourLen + HourLen
    BY <1>1, <1>3
  <2>2. k * HourLen <= x /\ x < (k + 1) * HourLen
    BY <1>6, <2>1, WindowType
  <2> QED BY <1>1, <1>3, <2>2, QuotientIs
<1>8. x \div DayLen = s.day
  <2>1. s.day * DayLen \in Int /\ (s.day + 1) * DayLen \in Int /\ WindowFrom(s) \in Int
        /\ WindowTo(s) \in Int
    BY <1>1, <1>2, WindowType
  <2>2. s.day * DayLen <= x /\ x < (s.day + 1) * DayLen
    BY <2>1, WindowType
  <2> QED BY <1>1, <1>2, <2>2, QuotientIs
<1> HIDE DEF k
<1> QED BY <1>2, <1>5, <1>7, <1>8 DEF SlotAt

\* A wall clock is in the window of the slot it shows.
LEMMA SlotHolds ==
    ASSUME NEW x \in Int
    PROVE  /\ SlotAt(x) \in Slots
           /\ WindowFrom(SlotAt(x)) <= x /\ x < WindowTo(SlotAt(x))
<1> DEFINE h == x \div HourLen
           e == h \div DayHours
           r == h % DayHours
           s == [day |-> e, hour |-> r]
<1>1. HourLen \in Nat \ {0} /\ DayHours \in Nat \ {0}
  BY CalendarAssumption
<1>2. h \in Int /\ h * HourLen <= x /\ x < h * HourLen + HourLen
  BY <1>1, Quotient
<1> HIDE DEF h
<1>3. e \in Int /\ r \in 0 .. DayHours - 1 /\ r = h - DayHours * e
  BY <1>1, <1>2, Quotient
<1> HIDE DEF e, r
<1>4. s \in Slots
  BY <1>3 DEF Slots
<1>5. s.day * DayHours + s.hour = h
  <2>1. e * DayHours + r = h
    BY <1>1, <1>2, <1>3
  <2> QED BY <2>1
<1> HIDE DEF s
<1>6. WindowFrom(s) = h * HourLen /\ WindowTo(s) = h * HourLen + HourLen
  BY <1>4, <1>5, WindowType
<1> QED BY <1>2, <1>4, <1>6, OneSlot

\* A later wall clock shows no earlier day.
LEMMA DaysGoOn ==
    ASSUME NEW x \in Int, NEW y \in Int, x <= y
    PROVE  SlotAt(x).day \in Int /\ SlotAt(x).day <= SlotAt(y).day
<1>1. DayLen \in Nat \ {0}
  BY CalendarAssumption DEF DayLen
<1>2. x \div DayLen \in Int /\ (x \div DayLen) * DayLen <= x
  BY <1>1, Quotient
<1>3. x \div DayLen <= y \div DayLen
  <2>1. (x \div DayLen) * DayLen <= y
    <3>1. (x \div DayLen) * DayLen \in Int
      BY <1>1, <1>2
    <3> QED BY <1>2, <3>1
  <2> QED BY <1>1, <1>2, <2>1, LargestMultiple
<1> QED BY <1>2, <1>3 DEF SlotAt

\* A clock shows another slot only when an hour is over.
LEMMA SameHour ==
    ASSUME NEW x \in Int, \A m \in Int : x + 1 # m * HourLen
    PROVE  /\ SlotAt(x + 1) = SlotAt(x)
           /\ \A s \in Slots : WindowTo(s) # x + 1
<1>1. HourLen \in Nat \ {0} /\ DayHours \in Nat
  BY CalendarAssumption
<1>2. ASSUME NEW s \in Slots PROVE WindowTo(s) # x + 1
  <2> DEFINE k == s.day * DayHours + s.hour
  <2>1. k \in Int /\ WindowTo(s) = k * HourLen + HourLen
    BY <1>1, WindowType
  <2> HIDE DEF k
  <2>2. (k + 1) * HourLen = k * HourLen + HourLen
    BY <1>1, <2>1
  <2> QED BY <2>1, <2>2
<1>3. WindowTo(SlotAt(x)) \in Int /\ WindowFrom(SlotAt(x)) \in Int
  BY <1>1, SlotHolds, WindowType
<1>4. x + 1 < WindowTo(SlotAt(x)) /\ WindowFrom(SlotAt(x)) <= x + 1
  BY <1>2, <1>3, SlotHolds
<1> QED BY <1>2, <1>4, SlotHolds, OneSlot
-----------------------------------------------------------------------------

Closed(slots, wall) == \A i \in DOMAIN slots : WindowTo(slots[i]) <= wall

LEMMA PreviousClosed ==
    ASSUME NEW n \in Int
    PROVE  PreviousHour(n) \in Slots /\ WindowTo(PreviousHour(n)) <= Wall(n)
<1>1. Wall(n) \in Int /\ HourLen \in Int
  BY CalendarAssumption DEF Wall
<1> DEFINE w == Wall(n) - HourLen
<1>2. w \in Int /\ Wall(n) = w + HourLen
  BY <1>1
<1>3. PreviousHour(n) = SlotAt(w)
  BY DEF PreviousHour
<1> HIDE DEF w
<1>4. SlotAt(w) \in Slots /\ WindowFrom(SlotAt(w)) <= w
  BY <1>2, SlotHolds
<1> QED BY <1>1, <1>2, <1>3, <1>4, WindowType

\* An earlier hour of a day has an earlier window.
LEMMA HoursGoOn ==
    ASSUME NEW s \in Slots, NEW t \in Slots, s.day = t.day
    PROVE  s.hour <= t.hour <=> WindowFrom(s) < WindowTo(t)
<1>1. HourLen \in Nat \ {0} /\ s.hour \in Int /\ t.hour \in Int /\ s.day * DayLen \in Int
  BY CalendarAssumption DEF Slots, DayLen
<1>2. s.hour * HourLen \in Int /\ (t.hour + 1) * HourLen = t.hour * HourLen + HourLen
      /\ t.hour * HourLen \in Int
  BY <1>1
<1>3. WindowFrom(s) < WindowTo(t) <=> s.hour * HourLen < (t.hour + 1) * HourLen
  BY <1>1, <1>2 DEF WindowFrom, WindowTo
<1>4. s.hour <= t.hour => s.hour * HourLen <= t.hour * HourLen
  BY <1>1
<1>5. s.hour >= t.hour + 1 => s.hour * HourLen >= (t.hour + 1) * HourLen
  BY <1>1
<1> QED BY <1>1, <1>2, <1>3, <1>4, <1>5

\* The catch-up after an hour of today goes through the hours of the day.
LEMMA CatchUpIs ==
    ASSUME NEW last \in Slots
    PROVE  /\ CatchUp(last, last.day) \in Seq(Slots)
           /\ DOMAIN CatchUp(last, last.day) = 1 .. last.hour + 1
           /\ \A i \in 1 .. last.hour + 1 :
                 CatchUp(last, last.day)[i] = [day |-> last.day, hour |-> i - 1]
<1> DEFINE before == [i \in 1 .. last.hour |-> [day |-> last.day, hour |-> i - 1]]
<1>1. last.hour \in 0 .. DayHours - 1 /\ last.day \in Int /\ DayHours \in Nat \ {0}
      /\ last = [day |-> last.day, hour |-> last.hour]
  BY CalendarAssumption DEF Slots
<1>2. <<last>> \in Seq(Slots) /\ Len(<<last>>) = 1 /\ <<last>>[1] = last
  OBVIOUS
<1>3. before \in Seq(Slots) /\ Len(before) = last.hour
      /\ \A i \in 1 .. last.hour : before[i] = [day |-> last.day, hour |-> i - 1]
  <2>1. last.hour \in Nat
    BY <1>1
  <2>2. \A i \in 1 .. last.hour : before[i] \in Slots
    BY <1>1 DEF Slots
  <2>3. DOMAIN before = 1 .. last.hour /\ before = [i \in DOMAIN before |-> before[i]]
    OBVIOUS
  <2>4. \A i \in 1 .. last.hour : before[i] = [day |-> last.day, hour |-> i - 1]
    OBVIOUS
  <2> HIDE DEF before
  <2>5. before \in [1 .. last.hour -> Slots]
    BY <2>2, <2>3
  <2> QED BY <2>1, <2>4, <2>5
<1>4. CatchUp(last, last.day) = before \o <<last>>
  BY DEF CatchUp
<1> HIDE DEF before
<1>5. /\ before \o <<last>> \in Seq(Slots)
      /\ Len(before \o <<last>>) = last.hour + 1
      /\ \A i \in 1 .. last.hour + 1 :
            (before \o <<last>>)[i] = IF i <= last.hour THEN before[i] ELSE last
  BY <1>1, <1>2, <1>3, ConcatProperties
<1>6. \A i \in 1 .. last.hour + 1 :
         (before \o <<last>>)[i] = [day |-> last.day, hour |-> i - 1]
  <2> TAKE i \in 1 .. last.hour + 1
  <2>1. CASE i <= last.hour
    BY <1>1, <1>3, <1>5, <2>1
  <2>2. CASE ~ i <= last.hour
    <3>1. i - 1 = last.hour
      BY <1>1, <2>2
    <3> QED BY <1>1, <1>5, <2>2, <3>1
  <2> QED BY <2>1, <2>2
<1> QED BY <1>4, <1>5, <1>6

\* The hours before a closed one are closed.
LEMMA CatchUpClosed ==
    ASSUME NEW last \in Slots, NEW today, NEW wall \in Int, WindowTo(last) <= wall
    PROVE  /\ CatchUp(last, today) \in Seq(Slots)
           /\ CatchUp(last, today) # <<>>
           /\ Closed(CatchUp(last, today), wall)
<1>1. CASE last.day # today
  <2>1. <<last>> \in Seq(Slots) /\ DOMAIN <<last>> = {1} /\ <<last>>[1] = last
    OBVIOUS
  <2> QED BY <1>1, <2>1 DEF CatchUp, Closed
<1>2. CASE last.day = today
  <2>1. last.hour \in Int /\ 1 \in 1 .. last.hour + 1
    BY CalendarAssumption DEF Slots
  <2>2. ASSUME NEW i \in 1 .. last.hour + 1 PROVE WindowTo(CatchUp(last, today)[i]) <= wall
    <3> DEFINE s == [day |-> last.day, hour |-> i - 1]
    <3>1. s \in Slots /\ s.day = last.day /\ s.hour <= last.hour
      BY CalendarAssumption DEF Slots
    <3>2. CatchUp(last, today)[i] = s
      BY <1>2, CatchUpIs
    <3> HIDE DEF s
    <3>3. s.day * DayLen + s.hour * HourLen <= last.day * DayLen + last.hour * HourLen
      <4>1. s.day * DayLen \in Int /\ s.hour \in Int /\ HourLen \in Nat
        BY <3>1, CalendarAssumption DEF Slots, DayLen
      <4>2. s.hour * HourLen <= last.hour * HourLen
        BY <2>1, <3>1, <4>1
      <4> QED BY <2>1, <3>1, <4>1, <4>2
    <3>4. WindowTo(s) <= WindowTo(last) /\ WindowTo(s) \in Int /\ WindowTo(last) \in Int
      BY <3>1, <3>3, WindowType, CalendarAssumption DEF WindowFrom
    <3> QED BY <3>2, <3>4
  <2> DEFINE c == CatchUp(last, today)
  <2>3. c \in Seq(Slots) /\ DOMAIN c = 1 .. last.hour + 1
    BY <1>2, CatchUpIs
  <2>4. c # <<>>
    <3> HIDE DEF c
    <3> QED BY <2>1, <2>3
  <2> QED BY <2>2, <2>3, <2>4 DEF Closed
<1> QED BY <1>1, <1>2

\* Whatever waits to be reconciled is closed already.
HoursKnown ==
    /\ TypeOK
    /\ Closed(todo, Wall(now))
    /\ pc = "work" => todo # <<>>
    /\ pc = "read" => slot \in Slots /\ WindowTo(slot) <= Wall(now)
    /\ OnlyClosedHours

LEMMA NothingIsClosed == <<>> \in Seq(Slots) /\ \A wall : Closed(<<>>, wall)
<1>1. <<>> \in Seq(Slots) /\ Len(<<>>) = 0
  OBVIOUS
<1>2. DOMAIN <<>> = {}
  BY <1>1
<1> QED BY <1>1, <1>2 DEF Closed

LEMMA HoursKnownInit == Init => HoursKnown
<1> SUFFICES ASSUME Init PROVE HoursKnown
  OBVIOUS
<1>1. now \in 0 .. Horizon /\ fails \in 0 .. MaxFails /\ boots \in 0 .. MaxBoots
  BY ScheduleAssumption DEF Init
<1>2. todo \in Seq(Slots) /\ Closed(todo, Wall(now))
  BY NothingIsClosed DEF Init
<1>3. late \in BOOLEAN
  BY Zenon DEF Init
<1>4. recorded \subseteq Slots /\ due \in Int
  BY DEF Init
<1> QED BY <1>1, <1>2, <1>3, <1>4 DEF Init, HoursKnown, TypeOK, OnlyClosedHours

\* What a repair and one that a cancelled context fails have in common.
TakesHour ==
    /\ pc = "work"
    /\ asked' = Head(todo)
    /\ todo' = Tail(todo)
    /\ pc' = IF todo' = <<>> THEN "done" ELSE "work"
    /\ UNCHANGED <<now, slot, due, boots>>

LEMMA HoursKnownStep ==
    ASSUME HoursKnown, [Next \/ HourCancelled]_vars
    PROVE  HoursKnown'
<1> USE DEF HoursKnown, TypeOK, OnlyClosedHours
<1>1. now \in Int /\ Wall(now) \in Int /\ todo \in Seq(Slots)
  BY CalendarAssumption, ScheduleAssumption DEF Wall
<1>2. NoSlot \notin Slots
  BY DEF NoSlot, Slots
<1>3. CASE Tick
  <2>1. now' \in 0 .. Horizon /\ late' \in BOOLEAN
    BY <1>3, ScheduleAssumption DEF Tick
  <2>2. Wall(now') = Wall(now) + 1
    BY <1>1, <1>3, CalendarAssumption DEF Tick, Wall
  <2>3. \A s \in Slots : WindowTo(s) <= Wall(now) => WindowTo(s) <= Wall(now')
    BY <1>1, <2>2, WindowType, CalendarAssumption
  <2>4. \A i \in DOMAIN todo : todo[i] \in Slots
    BY <1>1
  <2> QED
    BY <1>3, <2>1, <2>3, <2>4 DEF Tick, Closed
<1>4. CASE Boot
  <2>1. slot' \in Slots /\ WindowTo(slot') <= Wall(now)
    BY <1>1, <1>4, PreviousClosed DEF Boot
  <2> QED BY <1>4, <2>1, ScheduleAssumption DEF Boot, Closed
<1>5. CASE Plan
  <2>1. todo' \in Seq(Slots) /\ todo' # <<>> /\ Closed(todo', Wall(now))
    BY <1>1, <1>5, CatchUpClosed DEF Plan
  <2> QED BY <1>5, <2>1 DEF Plan, Closed
<1>6. ASSUME TakesHour
      PROVE  /\ now' = now /\ todo' \in Seq(Slots) /\ asked' \in Slots
             /\ Closed(todo', Wall(now')) /\ OnlyClosedHours'
             /\ pc' \in {"done", "work"} /\ (pc' = "work" => todo' # <<>>)
  <2>1. /\ Head(todo) \in Slots /\ Tail(todo) \in Seq(Slots)
        /\ Len(Tail(todo)) = Len(todo) - 1
        /\ \A i \in 1 .. Len(Tail(todo)) : Tail(todo)[i] = todo[i + 1]
    BY <1>1, <1>6, HeadTailProperties DEF TakesHour
  <2>2. Head(todo) = todo[1] /\ 1 \in DOMAIN todo
    BY <1>1, <1>6 DEF TakesHour
  <2>3. Closed(Tail(todo), Wall(now))
    BY <1>1, <2>1 DEF Closed
  <2>4. WindowTo(Head(todo)) <= Wall(now)
    BY <2>2 DEF Closed
  <2> QED BY <1>6, <2>1, <2>3, <2>4 DEF TakesHour
<1>7. CASE ReconcileHour
  <2>1. TakesHour
    BY <1>7 DEF ReconcileHour, TakesHour
  <2>2. recorded' \subseteq Slots /\ fails' \in 0 .. MaxFails
    BY <1>6, <1>7, <2>1, ScheduleAssumption DEF ReconcileHour
  <2> QED BY <1>6, <1>7, <2>1, <2>2 DEF ReconcileHour
<1>8. CASE HourCancelled
  <2>1. TakesHour
    BY <1>8 DEF HourCancelled, TakesHour
  <2> QED BY <1>6, <1>8, <2>1 DEF HourCancelled
<1>9. CASE SetTimer
  <2>1. due' \in Int
    <3>1. HourLen \in Nat \ {0} /\ Past \in Int
      BY CalendarAssumption, ScheduleAssumption
    <3>2. Wall(now) \div HourLen \in Int
      BY <1>1, <3>1, Quotient
    <3> QED BY <1>9, <3>1, <3>2 DEF SetTimer
  <2> QED BY <1>9, <2>1 DEF SetTimer, Closed
<1>10. CASE Fire
  <2> DEFINE p == PreviousHour(now)
  <2>1. p \in Slots /\ WindowTo(p) <= Wall(now)
    BY <1>1, PreviousClosed
  <2>2. todo' = <<p>>
    BY <1>10 DEF Fire
  <2> HIDE DEF p
  <2>3. todo' \in Seq(Slots) /\ todo' # <<>> /\ Closed(todo', Wall(now))
    BY <2>1, <2>2 DEF Closed
  <2> QED BY <1>10, <2>3 DEF Fire, Closed
<1>11. CASE Stop
  <2>1. todo' \in Seq(Slots) /\ Closed(todo', Wall(now)')
    BY <1>11, NothingIsClosed DEF Stop
  <2> QED BY <1>11, <2>1 DEF Stop
<1>12. CASE UNCHANGED vars
  BY <1>12 DEF vars, Closed
<1> QED
  BY <1>3, <1>4, <1>5, <1>7, <1>8, <1>9, <1>10, <1>11, <1>12 DEF Next

LEMMA ProcessMovesHours ==
    ASSUME [ProcNext]_<<vars, procVars>>
    PROVE  [Next \/ HourCancelled]_vars
BY DEF ProcNext, Launch, SubscriptionEnds, RetryEnds, HoursEnd, Returns, Hours,
       Foreground, Called, CallFatal, AllBack, Interrupt, Kill, Exit, Next, procVars

\* The clock, the schedule and what is recorded are of their types, by
\* themselves and inside the process (example/main.go:197-232).
THEOREM ScheduleTypeCorrect == (Spec => []TypeOK) /\ (ProcSpec => []TypeOK)
<1>1. ProcInit => Init
  BY DEF ProcInit
<1>2. HoursKnown => TypeOK
  BY DEF HoursKnown
<1>3. HoursKnown /\ [Next]_vars => HoursKnown'
  BY HoursKnownStep
<1>4. HoursKnown /\ [ProcNext]_<<vars, procVars>> => HoursKnown'
  BY HoursKnownStep, ProcessMovesHours
<1> QED
  BY <1>1, <1>2, <1>3, <1>4, HoursKnownInit, PTL DEF Spec, ProcSpec

\* Only an hour whose window is over is ever reconciled, for every length of
\* hour and day, zone and clock, across midnight and restarts, and with a
\* context cancelled half way (timezone.go:64-80, main.go:197-232).
THEOREM OnlyClosedHoursAreReconciled ==
    (Spec => []OnlyClosedHours) /\ (ProcSpec => []OnlyClosedHours)
<1>1. ProcInit => Init
  BY DEF ProcInit
<1>2. HoursKnown => OnlyClosedHours
  BY DEF HoursKnown
<1>3. HoursKnown /\ [Next]_vars => HoursKnown'
  BY HoursKnownStep
<1>4. HoursKnown /\ [ProcNext]_<<vars, procVars>> => HoursKnown'
  BY HoursKnownStep, ProcessMovesHours
<1> QED
  BY <1>1, <1>2, <1>3, <1>4, HoursKnownInit, PTL DEF Spec, ProcSpec

-----------------------------------------------------------------------------

\* The hours of a day that are over at a wall clock.
ClosedOn(day, wall) ==
    {s \in [day : {day}, hour : 0 .. DayHours - 1] : WindowTo(s) <= wall}

\* A process that has kept up with the clock has recorded the closed hours of
\* the day or has them to do; while it waits, all but those of its timer.
CaughtUp ==
    fails = 0 /\ ~ late =>
        /\ pc = "read" => slot = PreviousHour(now)
        /\ pc = "work" => \A s \in ClosedOn(Today(now), Wall(now)) :
                             s \in recorded \/ \E i \in DOMAIN todo : todo[i] = s
        /\ pc = "done" => ClosedOn(Today(now), Wall(now)) \subseteq recorded
        /\ pc = "sleep" =>
              /\ due - Past - HourLen <= Wall(now) /\ Wall(now) <= due
              /\ ClosedOn(Today(now), due - HourLen) \subseteq recorded

LEMMA ClosedOnType ==
    ASSUME NEW n \in Int, NEW w, NEW s \in ClosedOn(Today(n), w)
    PROVE  s \in Slots /\ s.day = Today(n) /\ WindowTo(s) <= w
<1>1. Wall(n) \in Int
  BY CalendarAssumption DEF Wall
<1>2. Today(n) \in Int
  BY <1>1, DaysGoOn DEF Today
<1> QED BY <1>2 DEF ClosedOn, Slots

\* The catch-up takes in every closed hour of the day.
LEMMA CatchUpIsWhole ==
    ASSUME NEW n \in Int, NEW s \in ClosedOn(Today(n), Wall(n))
    PROVE  LET c == CatchUp(PreviousHour(n), Today(n)) IN \E i \in DOMAIN c : c[i] = s
<1> DEFINE w == Wall(n)
           p == SlotAt(w - HourLen)
<1>1. w \in Int /\ HourLen \in Nat \ {0} /\ w - HourLen \in Int
  BY CalendarAssumption DEF Wall
<1>2. s \in Slots /\ s.day = SlotAt(w).day /\ WindowTo(s) <= w
  BY ClosedOnType DEF Today
<1>3. PreviousHour(n) = p
  BY DEF PreviousHour
<1> HIDE DEF w
<1>4. p \in Slots /\ w - HourLen < WindowTo(p)
  BY <1>1, SlotHolds
<1>5. WindowFrom(s) \in Int /\ WindowFrom(s) <= w - HourLen
  BY <1>1, <1>2, WindowType
<1>6. p.day = s.day
  <2>1. p.day <= s.day /\ p.day \in Int /\ s.day \in Int
    BY <1>1, <1>2, DaysGoOn
  <2>2. WindowFrom(s) < WindowTo(s) /\ WindowTo(s) \in Int
    BY <1>1, <1>2, WindowType
  <2>3. SlotAt(WindowFrom(s)) = s
    BY <1>2, <1>5, <2>2, OneSlot
  <2>4. s.day <= p.day
    BY <1>1, <1>5, <2>3, DaysGoOn
  <2> QED BY <2>1, <2>4
<1> HIDE DEF p
<1>7. s.hour <= p.hour
  <2>1. WindowTo(p) \in Int
    BY <1>1, <1>4, WindowType
  <2>2. WindowFrom(s) < WindowTo(p)
    BY <1>1, <1>4, <1>5, <2>1
  <2> QED BY <1>2, <1>4, <1>6, <2>2, HoursGoOn
<1>8. s.hour \in Nat /\ p.hour \in Nat /\ s = [day |-> s.day, hour |-> s.hour]
  BY <1>2, <1>4, CalendarAssumption DEF Slots
<1>9. s.hour + 1 \in 1 .. p.hour + 1 /\ (s.hour + 1) - 1 = s.hour
  BY <1>7, <1>8
<1>10. CatchUp(p, p.day)[s.hour + 1] = s /\ s.hour + 1 \in DOMAIN CatchUp(p, p.day)
  BY <1>4, <1>6, <1>8, <1>9, CatchUpIs
<1>11. Today(n) = p.day
  BY <1>2, <1>6 DEF Today, w
<1> QED BY <1>3, <1>10, <1>11

\* Within an hour nothing becomes due.
LEMMA TickInHour ==
    ASSUME NEW n \in Int, (n + 1) % HourLen # 0
    PROVE  /\ Today(n + 1) = Today(n)
           /\ PreviousHour(n + 1) = PreviousHour(n)
           /\ ClosedOn(Today(n + 1), Wall(n + 1)) = ClosedOn(Today(n), Wall(n))
<1> DEFINE w == Wall(n)
<1>1. w \in Int /\ HourLen \in Nat \ {0} /\ Offset \in Int
  BY CalendarAssumption DEF Wall
<1>2. Wall(n + 1) = w + 1
  BY <1>1, CalendarAssumption DEF Wall
<1>3. ASSUME NEW m \in Int PROVE w + 1 # m * HourLen /\ (w - HourLen) + 1 # m * HourLen
  <2>1. n + 1 # (m - Offset) * HourLen /\ n + 1 # (m + 1 - Offset) * HourLen
    <3>1. n + 1 \in Int /\ m - Offset \in Int /\ m + 1 - Offset \in Int
      BY <1>1
    <3>2. \A k \in Int : n + 1 # k * HourLen
      BY <1>1, <3>1, NoMultiple
    <3> QED BY <3>1, <3>2, Zenon
  <2>2. /\ (m - Offset) * HourLen = m * HourLen - Offset * HourLen
        /\ (m + 1 - Offset) * HourLen = m * HourLen + HourLen - Offset * HourLen
        /\ m * HourLen \in Int /\ Offset * HourLen \in Int
    BY <1>1
  <2>3. w = n + Offset * HourLen
    BY DEF Wall
  <2> HIDE DEF w
  <2> QED BY <1>1, <2>1, <2>2, <2>3
<1> HIDE DEF w
<1>4. w - HourLen \in Int /\ (w + 1) - HourLen = (w - HourLen) + 1
  BY <1>1
<1>5. SlotAt(w + 1) = SlotAt(w) /\ \A s \in Slots : WindowTo(s) # w + 1
  BY <1>1, <1>3, SameHour
<1>6. SlotAt((w - HourLen) + 1) = SlotAt(w - HourLen)
  <2> DEFINE v == w - HourLen
  <2>1. v \in Int /\ \A m \in Int : v + 1 # m * HourLen
    BY <1>3, <1>4
  <2> HIDE DEF v
  <2>2. SlotAt(v + 1) = SlotAt(v)
    BY <2>1, SameHour
  <2> QED BY <2>2 DEF v
<1>7. Today(n + 1) = Today(n)
  BY <1>2, <1>5 DEF Today, w
<1>8. PreviousHour(n + 1) = PreviousHour(n)
  BY <1>2, <1>4, <1>6 DEF PreviousHour, w
<1>9. ASSUME NEW s \in [day : {Today(n)}, hour : 0 .. DayHours - 1]
      PROVE  WindowTo(s) <= w + 1 <=> WindowTo(s) <= w
  <2>1. Today(n) \in Int
    BY <1>1, DaysGoOn DEF Today, w
  <2>2. s \in Slots
    BY <2>1 DEF Slots
  <2>3. WindowTo(s) \in Int /\ WindowTo(s) # w + 1
    BY <1>1, <1>5, <2>2, WindowType
  <2> QED BY <1>1, <2>3
<1>10. ClosedOn(Today(n), w + 1) = ClosedOn(Today(n), w)
  BY <1>9 DEF ClosedOn
<1> QED BY <1>2, <1>7, <1>8, <1>10 DEF w

LEMMA CaughtUpInit == Init => CaughtUp
BY DEF Init, CaughtUp

\* The timer is set an hour after the hours that are done.
LEMMA TimerIsSet ==
    ASSUME NEW n \in Int, NEW d, d = (Wall(n) \div HourLen + 1) * HourLen + Past
    PROVE  /\ d \in Int /\ d - Past - HourLen <= Wall(n) /\ Wall(n) <= d
           /\ ClosedOn(Today(n), d - HourLen) \subseteq ClosedOn(Today(n), Wall(n))
<1> DEFINE w == Wall(n)
           h == w \div HourLen
<1>1. w \in Int /\ HourLen \in Nat \ {0} /\ Past \in 0 .. HourLen - 1 /\ DayHours \in Nat
  BY CalendarAssumption, ScheduleAssumption DEF Wall
<1>2. d = (h + 1) * HourLen + Past
  OBVIOUS
<1> HIDE DEF w
<1>3. h \in Int /\ h * HourLen <= w /\ w < h * HourLen + HourLen
  BY <1>1, Quotient
<1> HIDE DEF h
<1>4. (h + 1) * HourLen = h * HourLen + HourLen /\ h * HourLen \in Int
  BY <1>1, <1>3
<1>5. ASSUME NEW s \in Slots, WindowTo(s) <= d - HourLen PROVE WindowTo(s) <= w
  <2> DEFINE k == s.day * DayHours + s.hour
  <2>1. k \in Int /\ WindowTo(s) = k * HourLen + HourLen
    BY <1>1, WindowType
  <2> HIDE DEF k
  <2>2. (k + 1) * HourLen = k * HourLen + HourLen /\ (k + 1) * HourLen < (h + 1) * HourLen
    BY <1>1, <1>2, <1>3, <1>4, <1>5, <2>1
  <2>3. k + 1 < h + 1
    <3> SUFFICES ASSUME k >= h PROVE FALSE
      BY <1>3, <2>1
    <3>1. k * HourLen >= h * HourLen
      BY <1>1, <1>3, <2>1
    <3> QED BY <1>4, <2>1, <2>2, <3>1, <1>1
  <2>4. (k + 1) * HourLen <= h * HourLen
    BY <1>1, <1>3, <2>1, <2>3
  <2> QED BY <1>1, <1>3, <1>4, <2>1, <2>2, <2>4
<1>6. ClosedOn(Today(n), d - HourLen) \subseteq ClosedOn(Today(n), w)
  <2>1. ASSUME NEW s \in ClosedOn(Today(n), d - HourLen) PROVE s \in ClosedOn(Today(n), w)
    <3>1. WindowTo(s) <= w
      BY <1>5, ClosedOnType
    <3> QED BY <3>1 DEF ClosedOn
  <2> QED BY <2>1
<1> QED BY <1>1, <1>2, <1>3, <1>4, <1>6 DEF w

\* An hour closed since the timer was set is the one before, when it fires.
LEMMA TimerIsOnTime ==
    ASSUME NEW n \in Int, NEW s \in ClosedOn(Today(n), Wall(n)),
           s \notin ClosedOn(Today(n), Wall(n) - HourLen)
    PROVE  s = PreviousHour(n)
<1> DEFINE w == Wall(n)
<1>1. w \in Int /\ HourLen \in Nat /\ w - HourLen \in Int
  BY CalendarAssumption DEF Wall
<1>2. s \in Slots /\ WindowTo(s) <= w
  BY ClosedOnType
<1>3. WindowTo(s) = WindowFrom(s) + HourLen /\ WindowFrom(s) \in Int
  BY <1>2, WindowType
<1>4. ~ WindowTo(s) <= w - HourLen
  BY DEF ClosedOn
<1> HIDE DEF w
<1>5. SlotAt(w - HourLen) = s
  BY <1>1, <1>2, <1>3, <1>4, OneSlot
<1> QED BY <1>5 DEF PreviousHour, w

\* At midnight the new day has no hour that is over, nor will one be when the
\* timer fires.
LEMMA NewDay ==
    ASSUME NEW n \in Int, Today(n + 1) # Today(n), NEW d \in Int, d - Past - HourLen <= Wall(n)
    PROVE  ClosedOn(Today(n + 1), d - HourLen) = {}
<1> DEFINE w == Wall(n)
<1>1. w \in Int /\ HourLen \in Nat \ {0} /\ Past \in 0 .. HourLen - 1 /\ n + 1 \in Int
  BY CalendarAssumption, ScheduleAssumption DEF Wall
<1>2. Wall(n + 1) = w + 1
  BY <1>1, CalendarAssumption DEF Wall
<1> HIDE DEF w
<1> SUFFICES ASSUME NEW s \in ClosedOn(Today(n + 1), d - HourLen) PROVE FALSE
  OBVIOUS
<1>3. s \in Slots /\ s.day = SlotAt(w + 1).day /\ WindowTo(s) <= d - HourLen
  BY <1>1, <1>2, ClosedOnType DEF Today
<1>4. WindowFrom(s) \in Int /\ WindowTo(s) = WindowFrom(s) + HourLen
  BY <1>3, WindowType
<1>5. WindowFrom(s) < w
  BY <1>1, <1>3, <1>4 DEF w
<1>6. SlotAt(WindowFrom(s)) = s
  BY <1>1, <1>3, <1>4, OneSlot
<1>7. s.day <= SlotAt(w).day /\ SlotAt(w).day <= SlotAt(w + 1).day
      /\ SlotAt(w).day \in Int /\ SlotAt(w + 1).day \in Int
  <2>1. w + 1 \in Int /\ w <= w + 1 /\ WindowFrom(s) <= w
    BY <1>1, <1>4, <1>5
  <2> QED BY <1>1, <1>4, <1>6, <2>1, DaysGoOn
<1>8. SlotAt(w).day = Today(n) /\ SlotAt(w + 1).day = Today(n + 1)
  BY <1>2 DEF Today, w
<1> QED BY <1>3, <1>7, <1>8

LEMMA CaughtUpStep ==
    ASSUME HoursKnown, CaughtUp, [Next \/ HourCancelled]_vars
    PROVE  CaughtUp'
<1> SUFFICES ASSUME fails' = 0, ~ late'
    PROVE  /\ pc' = "read" => slot' = PreviousHour(now')
           /\ pc' = "work" => \A s \in ClosedOn(Today(now'), Wall(now')) :
                                 s \in recorded' \/ \E i \in DOMAIN todo' : todo'[i] = s
           /\ pc' = "done" => ClosedOn(Today(now'), Wall(now')) \subseteq recorded'
           /\ pc' = "sleep" =>
                 /\ due' - Past - HourLen <= Wall(now') /\ Wall(now') <= due'
                 /\ ClosedOn(Today(now'), due' - HourLen) \subseteq recorded'
  BY DEF CaughtUp, ClosedOn
<1>1. /\ now \in Int /\ Wall(now) \in Int /\ HourLen \in Nat \ {0} /\ Past \in 0 .. HourLen - 1
      /\ fails \in Nat /\ late \in BOOLEAN /\ due \in Int /\ todo \in Seq(Slots)
      /\ recorded \subseteq Slots
  BY CalendarAssumption, ScheduleAssumption DEF HoursKnown, TypeOK, Wall
<1>2. CASE Tick
  <2>1. now' = now + 1 /\ UNCHANGED <<pc, slot, todo, due, recorded, fails>> /\ ~ late
        /\ (Working => (now + 1) % HourLen # 0) /\ (pc = "sleep" => ~ Wall(now + 1) > due)
    BY <1>2 DEF Tick
  <2>2. Wall(now + 1) = Wall(now) + 1
    BY <1>1, CalendarAssumption DEF Wall
  <2>3. fails = 0 /\ CaughtUp
    BY <2>1
  <2>4. CASE Working
    <3>1. /\ Today(now + 1) = Today(now)
          /\ PreviousHour(now + 1) = PreviousHour(now)
          /\ ClosedOn(Today(now + 1), Wall(now + 1)) = ClosedOn(Today(now), Wall(now))
      BY <1>1, <2>1, <2>4, TickInHour
    <3> QED BY <2>1, <2>3, <2>4, <3>1 DEF CaughtUp, Working
  <2>5. CASE pc = "sleep"
    <3>1. due - Past - HourLen <= Wall(now) /\ ClosedOn(Today(now), due - HourLen) \subseteq recorded
      BY <2>1, <2>3, <2>5 DEF CaughtUp
    <3>2. ClosedOn(Today(now + 1), due - HourLen) \subseteq recorded
      <4>1. CASE Today(now + 1) = Today(now)
        BY <3>1, <4>1
      <4>2. CASE Today(now + 1) # Today(now)
        BY <1>1, <3>1, <4>2, NewDay
      <4> QED BY <4>1, <4>2
    <3>3. due - Past - HourLen <= Wall(now + 1) /\ Wall(now + 1) <= due
      BY <1>1, <2>1, <2>2, <2>5, <3>1
    <3> QED BY <2>1, <2>5, <3>2, <3>3
  <2>6. CASE ~ Working /\ pc # "sleep"
    BY <2>1, <2>6 DEF Working
  <2> QED BY <2>4, <2>5, <2>6
<1>3. CASE Boot
  BY <1>3 DEF Boot
<1>4. CASE Plan
  <2>1. slot = PreviousHour(now) /\ todo' = CatchUp(slot, Today(now)) /\ now' = now /\ pc' = "work"
    BY <1>4 DEF Plan, CaughtUp
  <2> QED BY <1>1, <2>1, CatchUpIsWhole
<1>5. CASE ReconcileHour
  <2>1. /\ pc = "work" /\ todo # <<>> /\ now' = now /\ recorded' = recorded \cup {Head(todo)}
        /\ todo' = Tail(todo) /\ pc' = IF todo' = <<>> THEN "done" ELSE "work"
        /\ fails = 0 /\ ~ late
    BY <1>1, <1>5 DEF ReconcileHour, HoursKnown
  <2>2. \A s \in ClosedOn(Today(now), Wall(now)) :
           s \in recorded \/ \E i \in DOMAIN todo : todo[i] = s
    BY <2>1 DEF CaughtUp
  <2>3. /\ Head(todo) = todo[1] /\ Tail(todo) \in Seq(Slots)
        /\ DOMAIN todo = 1 .. Len(todo) /\ Len(todo) \in Nat
        /\ DOMAIN Tail(todo) = 1 .. Len(todo) - 1
        /\ \A i \in 1 .. Len(todo) - 1 : Tail(todo)[i] = todo[i + 1]
    BY <1>1, <2>1, HeadTailProperties
  <2>4. ASSUME NEW s \in ClosedOn(Today(now), Wall(now)), s \notin recorded'
        PROVE  \E i \in DOMAIN todo' : todo'[i] = s
    <3>1. PICK i \in 1 .. Len(todo) : todo[i] = s
      BY <2>1, <2>2, <2>3, <2>4
    <3>2. i # 1
      BY <2>1, <2>3, <2>4, <3>1
    <3>3. i - 1 \in 1 .. Len(todo) - 1 /\ (i - 1) + 1 = i
      BY <2>3, <3>2
    <3>4. Tail(todo)[i - 1] = s
      BY <2>3, <3>1, <3>3
    <3> QED BY <2>1, <2>3, <3>3, <3>4
  <2>5. todo' = <<>> => \A i \in DOMAIN todo' : FALSE
    OBVIOUS
  <2> QED BY <2>1, <2>4, <2>5
<1>6. CASE HourCancelled
  BY <1>6 DEF HourCancelled
<1>7. CASE SetTimer
  <2>1. /\ ClosedOn(Today(now), Wall(now)) \subseteq recorded
        /\ now' = now /\ recorded' = recorded /\ pc' = "sleep"
        /\ due' = (Wall(now) \div HourLen + 1) * HourLen + Past
    BY <1>7 DEF SetTimer, CaughtUp
  <2> QED BY <1>1, <2>1, TimerIsSet
<1>8. CASE Fire
  <2>1. /\ Wall(now) = due /\ ClosedOn(Today(now), due - HourLen) \subseteq recorded
        /\ now' = now /\ recorded' = recorded /\ pc' = "work" /\ todo' = <<PreviousHour(now)>>
    BY <1>1, <1>8 DEF Fire, CaughtUp
  <2>2. 1 \in DOMAIN todo' /\ todo'[1] = PreviousHour(now)
    BY <2>1
  <2>3. ASSUME NEW s \in ClosedOn(Today(now), Wall(now)), s \notin recorded
        PROVE  s = PreviousHour(now)
    BY <1>1, <2>1, <2>3, TimerIsOnTime
  <2> QED BY <2>1, <2>2, <2>3
<1>9. CASE Stop
  BY <1>9 DEF Stop
<1>10. CASE UNCHANGED vars
  BY <1>10 DEF vars, CaughtUp
<1> QED
  BY <1>2, <1>3, <1>4, <1>5, <1>6, <1>7, <1>8, <1>9, <1>10 DEF Next

\* Whenever the process waits for its timer, having kept up with the clock, no
\* closed hour of the day is left out, for every length of hour and day, zone,
\* clock and number of restarts (main.go:160-162, 197-232).
THEOREM TodayIsReconciled == (Spec => []TodayIsCovered) /\ (ProcSpec => []TodayIsCovered)
<1>1. ProcInit => Init
  BY DEF ProcInit
<1>2. HoursKnown /\ CaughtUp => TodayIsCovered
  <2> SUFFICES ASSUME HoursKnown, CaughtUp, pc = "sleep", fails = 0, ~ late,
                      NEW s \in OwedToday
               PROVE  s \in recorded
    BY DEF TodayIsCovered
  <2>1. now \in Int /\ due \in Int /\ HourLen \in Nat
    BY CalendarAssumption, ScheduleAssumption DEF HoursKnown, TypeOK
  <2>2. s \in ClosedOn(Today(now), WindowTo(s)) /\ WindowTo(s) + HourLen < due
    <3>1. Today(now) \in Int
      <4>1. Wall(now) \in Int
        BY <2>1, CalendarAssumption DEF Wall
      <4> QED BY <4>1, DaysGoOn DEF Today
    <3>2. s \in Slots
      BY <3>1 DEF OwedToday, Slots
    <3>3. WindowTo(s) \in Int
      BY <2>1, <3>2, WindowType
    <3> QED BY <3>3 DEF OwedToday, ClosedOn
  <2>3. WindowTo(s) \in Int
    BY <2>1, <2>2, ClosedOnType, WindowType
  <2>4. s \in ClosedOn(Today(now), due - HourLen)
    BY <2>1, <2>2, <2>3 DEF ClosedOn
  <2> QED BY <2>4 DEF CaughtUp
<1>3. HoursKnown /\ CaughtUp /\ [Next]_vars => (HoursKnown /\ CaughtUp)'
  BY HoursKnownStep, CaughtUpStep
<1>4. HoursKnown /\ CaughtUp /\ [ProcNext]_<<vars, procVars>> => (HoursKnown /\ CaughtUp)'
  BY HoursKnownStep, CaughtUpStep, ProcessMovesHours
<1> QED
  BY <1>1, <1>2, <1>3, <1>4, HoursKnownInit, CaughtUpInit, PTL DEF Spec, ProcSpec

-----------------------------------------------------------------------------

\* The context of the group is cancelled for a cause only: a signal, or a
\* subscription that ended (main.go:72-74, 143-159).
THEOREM ContextEndsForCause == ProcSpec => []CancelledForCause
<1>1. ProcInit => CancelledForCause
  BY DEF ProcInit, CancelledForCause
<1>2. CancelledForCause /\ [ProcNext]_<<vars, procVars>> => CancelledForCause'
  <2> SUFFICES ASSUME CancelledForCause, [ProcNext]_<<vars, procVars>>
               PROVE  CancelledForCause'
    OBVIOUS
  <2> USE DEF CancelledForCause
  <2>1. ASSUME NEW g \in Subscriptions, SubscriptionEnds(g) PROVE CancelledForCause'
    BY <2>1 DEF SubscriptionEnds, Returns
  <2>2. CASE RetryEnds \/ HoursEnd
    BY <2>2 DEF RetryEnds, HoursEnd, Returns
  <2>3. CASE Interrupt
    BY <2>3 DEF Interrupt
  <2>4. CASE CallFatal \/ AllBack \/ Kill
    BY <2>4 DEF CallFatal, AllBack, Kill, Exit
  <2>5. CASE UNCHANGED <<gone, done, told>>
    BY <2>5
  <2>6. CASE (Tick /\ UNCHANGED procVars) \/ Launch \/ Hours \/ Called
    BY <2>5, <2>6 DEF Launch, Hours, Called, procVars
  <2> QED BY <2>1, <2>2, <2>3, <2>4, <2>5, <2>6 DEF ProcNext, Foreground, procVars
<1> QED
  BY <1>1, <1>2, PTL DEF ProcSpec
=============================================================================
