-------------------------- MODULE OrderStatusProofs --------------------------
(***************************************************************************)
(* Proof that a row at rest has the status its order has at the Core,      *)
(* unless an older status was written over a newer one: whatever the Core  *)
(* says of an order is at most as far as the Core is with it, and until    *)
(* its last word has been written, something on its way carries it.        *)
(***************************************************************************)
EXTENDS OrderLifecycleProofs

\* Status s of order o is on its way to the row.
EventSays(o, s) == \E i \in DOMAIN events : events[i].ref = o /\ events[i].status = s
TradeSays(o, s) == \E t \in Matched \ stored : OrderOf[t] = o /\ executed[t] = s
CancelSays(o, s) == cancel[o] # None /\ cancel[o].status = s
AnswerSays(o, s) == resp[o] # None /\ resp[o].status = s

Carried(o, s) == EventSays(o, s) \/ TradeSays(o, s) \/ CancelSays(o, s)
Coming(o, s) == Carried(o, s) \/ AnswerSays(o, s)

\* s is a status the order has, or had before.
Reached(s, o) == Rank(s) < Rank(book[o].status) \/ s = book[o].status

\* With no attempt of a call lost, an order has one answer, written before
\* anything is known of it that the answer does not say.
AnsweredOnce(o) ==
    /\ call[o] # "failed"
    /\ call[o] \in {"new", "send"} => tries[o] = 0
    /\ tries[o] = 0 => book[o] = None /\ resp[o] = None
    /\ resp[o] # None => call[o] = "sent"
    /\ call[o] = "sent" /\ book[o] # None => resp[o] # None
    /\ resp[o] # None /\ book[o] = None => resp[o].status = "Rejected"
    /\ book[o] = None /\ call[o] # "done" => status[o] = "Pending"

\* Nothing says more of an order than there is, and the newest status is
\* either in the row, or coming, or was overtaken.
NewestKnown(o) ==
    /\ book[o] = None => \A s \in Answers : ~ Carried(o, s)
    /\ book[o] # None =>
        /\ Reached(status[o], o)
        /\ \A s \in Answers : Coming(o, s) => Reached(s, o)
        /\ o \notin overtaken =>
              status[o] = book[o].status \/ Coming(o, book[o].status)

\* The answer to a cancel is about its order.
CancelsOwn == \A o \in Orders : cancel[o] # None => cancel[o].ref = o

InStep == faults = 0 => \A o \in Orders : AnsweredOnce(o) /\ NewestKnown(o)

-----------------------------------------------------------------------------
(* What a step can do to one order *)

LEMMA RankType == ASSUME NEW s PROVE Rank(s) \in 0 .. 2 /\ (Rank(s) = 0 <=> s = "Pending")
BY DEF Rank

\* The Core moves on, and says so.
LEMMA Ahead ==
    ASSUME Typed, NEW o \in Orders, NewestKnown(o),
           book[o] = None => resp[o] = None /\ status[o] = "Pending",
           NEW b \in Open \cup Closed, book'[o] # None, book'[o].status = b,
           book[o] = None \/ Rank(book[o].status) < Rank(b) \/ book[o].status = b,
           UNCHANGED <<status, overtaken>>,
           Coming(o, b)',
           \A s \in Answers : Coming(o, s)' => s = b \/ Coming(o, s)
    PROVE  NewestKnown(o)'
<1>1. Reached(status[o], o)'
  <2>1. CASE book[o] = None
    BY <2>1, RankType DEF Reached
  <2>2. CASE book[o] # None
    BY <2>2, RankType DEF Reached, NewestKnown
  <2> QED BY <2>1, <2>2
<1>2. ASSUME NEW s \in Answers, Coming(o, s)' PROVE Reached(s, o)'
  <2>1. CASE s = b
    BY <2>1 DEF Reached
  <2>2. CASE s # b
    <3>1. Coming(o, s)
      BY <1>2, <2>2
    <3>2. book[o] # None
      BY <3>1 DEF NewestKnown, Coming, AnswerSays
    <3>3. Reached(s, o)
      BY <3>1, <3>2 DEF NewestKnown
    <3> QED BY <3>2, <3>3, RankType DEF Reached
  <2> QED BY <2>1, <2>2
<1> QED BY <1>1, <1>2 DEF NewestKnown

\* One of the statuses on their way is written.
LEMMA Overwritten ==
    ASSUME Typed, NEW o \in Orders, NewestKnown(o), book[o] # None,
           NEW s \in Answers, Coming(o, s), status'[o] = s, UNCHANGED book,
           overtaken \subseteq overtaken',
           Rank(s) < Rank(status[o]) => o \in overtaken',
           \A x \in Answers : Coming(o, x)' => Coming(o, x),
           \A x \in Answers : Coming(o, x) => Coming(o, x)' \/ x = s
    PROVE  NewestKnown(o)'
<1>1. book[o].status \in Answers
  BY DEF Typed, TypeOK, Answers, Open, Closed, None
<1>2. Reached(s, o)
  BY DEF NewestKnown
<1>3. Reached(status[o], o)'
  BY <1>2 DEF Reached
<1>4. ASSUME NEW x \in Answers, Coming(o, x)' PROVE Reached(x, o)'
  BY <1>4 DEF NewestKnown, Reached
<1>5. ASSUME o \notin overtaken' PROVE s = book[o].status \/ Coming(o, book[o].status)'
  <2>1. status[o] = book[o].status \/ Coming(o, book[o].status)
    BY <1>5 DEF NewestKnown
  <2>2. ~ (Rank(s) < Rank(status[o]))
    BY <1>5
  <2>3. CASE status[o] = book[o].status
    BY <1>2, <2>2, <2>3 DEF Reached
  <2>4. CASE Coming(o, book[o].status)
    BY <1>1, <2>4
  <2> QED BY <2>1, <2>3, <2>4
<1>6. (o \notin overtaken => status[o] = book[o].status \/ Coming(o, book[o].status))'
  BY <1>5
<1> QED BY <1>3, <1>4, <1>6 DEF NewestKnown

\* The row is left alone, and at most a Pending is gone that says nothing.
LEMMA LeftAlone ==
    ASSUME Typed, NEW o \in Orders, NewestKnown(o),
           UNCHANGED book, status'[o] = status[o],
           o \in overtaken => o \in overtaken',
           \A x \in Answers : Carried(o, x)' => Carried(o, x),
           \A x \in Answers : Coming(o, x)' => Coming(o, x),
           \A x \in Answers : Coming(o, x) => Coming(o, x)' \/ x = "Pending"
    PROVE  NewestKnown(o)'
<1>1. CASE book[o] = None
  BY <1>1 DEF NewestKnown
<1>2. CASE book[o] # None
  <2>1. book[o].status \in Answers
    BY <1>2 DEF Typed, TypeOK, Answers, Open, Closed, None
  <2>2. Reached(status[o], o) /\ Reached(status[o], o)'
    BY <1>2 DEF NewestKnown, Reached
  <2>3. ASSUME NEW x \in Answers, Coming(o, x)' PROVE Reached(x, o)'
    BY <1>2, <2>3 DEF NewestKnown, Reached
  <2>4. ASSUME o \notin overtaken' PROVE status[o] = book[o].status \/ Coming(o, book[o].status)'
    <3>1. CASE book[o].status = "Pending"
      BY <2>2, <3>1, RankType DEF Reached
    <3>2. CASE book[o].status # "Pending"
      BY <1>2, <2>1, <2>4, <3>2 DEF NewestKnown
    <3> QED BY <3>1, <3>2
  <2>5. (o \notin overtaken => status[o] = book[o].status \/ Coming(o, book[o].status))'
    BY <2>4
  <2> QED BY <1>2, <2>2, <2>3, <2>5 DEF NewestKnown
<1> QED BY <1>1, <1>2

-----------------------------------------------------------------------------
(* What a step can do to the messages about an order *)

LEMMA EventAdded ==
    ASSUME Typed, NEW m \in Message, events' = Append(events, m), NEW u, NEW s
    PROVE  EventSays(u, s)' <=> EventSays(u, s) \/ (m.ref = u /\ m.status = s)
<1>1. events \in Seq(Message)
  BY DEF Typed, TypeOK
<1>2. /\ DOMAIN events = 1 .. Len(events) /\ Len(events) \in Nat
      /\ DOMAIN events' = 1 .. Len(events) + 1
      /\ \A i \in DOMAIN events : events'[i] = events[i]
      /\ events'[Len(events) + 1] = m
  BY <1>1
<1> QED BY <1>2 DEF EventSays

LEMMA EventTaken ==
    ASSUME Typed, events # <<>>, events' = Tail(events), NEW u, NEW s
    PROVE  EventSays(u, s) <=>
              EventSays(u, s)' \/ (Head(events).ref = u /\ Head(events).status = s)
<1>1. events \in Seq(Message)
  BY DEF Typed, TypeOK
<1>2. /\ DOMAIN events = 1 .. Len(events) /\ Len(events) \in Nat \ {0}
      /\ DOMAIN events' = 1 .. Len(events) - 1
      /\ \A i \in DOMAIN events' : events'[i] = events[i + 1]
      /\ Head(events) = events[1]
  BY <1>1, HeadTailProperties
<1>3. \A i \in DOMAIN events : i = 1 \/ (i - 1 \in DOMAIN events' /\ events[i] = events'[i - 1])
  BY <1>2
<1>4. \A i \in DOMAIN events' : i + 1 \in DOMAIN events
  BY <1>2
<1>5. 1 \in DOMAIN events
  BY <1>2
<1> QED BY <1>2, <1>3, <1>4, <1>5 DEF EventSays

LEMMA EventsKept ==
    ASSUME UNCHANGED events, NEW u, NEW s
    PROVE  EventSays(u, s)' <=> EventSays(u, s)
BY DEF EventSays

LEMMA TradesKept ==
    ASSUME UNCHANGED <<executed, stored>>, NEW u, NEW s
    PROVE  TradeSays(u, s)' <=> TradeSays(u, s)
BY DEF TradeSays, Matched

-----------------------------------------------------------------------------
(* One step *)

\* Nothing about order u changed.
Untouched(u) ==
    /\ book'[u] = book[u] /\ status'[u] = status[u] /\ call'[u] = call[u]
    /\ tries'[u] = tries[u] /\ resp'[u] = resp[u]
    /\ u \in overtaken => u \in overtaken'
    /\ \A s \in Answers : Carried(u, s)' <=> Carried(u, s)

LEMMA UntouchedInStep ==
    ASSUME Typed, NEW u \in Orders, AnsweredOnce(u), NewestKnown(u), Untouched(u)
    PROVE  AnsweredOnce(u)' /\ NewestKnown(u)'
<1>1. AnsweredOnce(u)'
  BY DEF AnsweredOnce, Untouched
<1>2. \A s \in Answers : Coming(u, s)' <=> Coming(u, s)
  BY DEF Untouched, Coming, AnswerSays
<1>3. NewestKnown(u)'
  <2>1. CASE book[u] = None
    BY <2>1 DEF NewestKnown, Untouched
  <2>2. CASE book[u] # None
    <3>1. book[u].status \in Answers
      BY <2>2 DEF Typed, TypeOK, Answers, Open, Closed, None
    <3> QED BY <1>2, <2>2, <3>1 DEF NewestKnown, Untouched, Reached
  <2> QED BY <2>1, <2>2
<1> QED BY <1>1, <1>3

LEMMA InStepInit == Init => CancelsOwn /\ InStep
<1> SUFFICES ASSUME Init PROVE CancelsOwn /\ InStep
  OBVIOUS
<1>1. CancelsOwn
  BY DEF Init, CancelsOwn
<1>2. ASSUME NEW o \in Orders PROVE AnsweredOnce(o) /\ NewestKnown(o)
  BY DEF Init, AnsweredOnce, NewestKnown, Carried, EventSays, TradeSays, CancelSays, Matched
<1> QED BY <1>1, <1>2 DEF InStep

LEMMA CancelsOwnStep == Typed /\ CancelsOwn /\ [Next]_vars => CancelsOwn'
<1> SUFFICES ASSUME Typed, CancelsOwn, [Next]_vars PROVE CancelsOwn'
  OBVIOUS
<1>1. ASSUME NEW o \in Orders, RequestCancel(o) PROVE CancelsOwn'
  BY <1>1 DEF RequestCancel, Said, CancelsOwn, Typed, TypeOK
<1>2. ASSUME NEW o \in Orders, FinishCancel(o) \/ CancelAnswerLost(o) PROVE CancelsOwn'
  BY <1>2 DEF FinishCancel, CancelAnswerLost, CancelsOwn, Typed, TypeOK
<1>3. CASE Crash
  BY <1>3 DEF Crash, CancelsOwn
<1>4. CASE UNCHANGED cancel
  BY <1>4 DEF CancelsOwn
<1>5. ASSUME NEW o \in Orders,
             \/ Accept(o) \/ Reject(o) \/ AnswerDuplicate(o) \/ Expire(o)
             \/ InsertOrder(o) \/ Send(o) \/ AttemptFails(o) \/ Reflect(o) \/ ReflectLost(o)
      PROVE  UNCHANGED cancel
  BY <1>5 DEF Accept, Reject, AnswerDuplicate, Expire, InsertOrder, Send, AttemptFails,
              Reflect, ReflectLost, calls
<1>6. ASSUME NEW t \in Trades, Match(t) \/ RecordTrade(t) PROVE UNCHANGED cancel
  <2>1. CASE Match(t)
    BY <2>1 DEF Match, calls
  <2>2. CASE RecordTrade(t)
    BY <2>2 DEF RecordTrade, calls
  <2> QED BY <1>6, <2>1, <2>2
<1>7. /\ ApplyEvent => UNCHANGED cancel
      /\ LoseEvent => UNCHANGED cancel
      /\ UNCHANGED vars => UNCHANGED cancel
  BY DEF ApplyEvent, LoseEvent, vars, calls
<1>8. ASSUME NEW o \in Orders, ReflectCancel(o) \/ ReflectCancelLost(o) PROVE FinishCancel(o)
  BY <1>8 DEF ReflectCancel, ReflectCancelLost
<1> QED
  BY <1>1, <1>2, <1>3, <1>4, <1>5, <1>6, <1>7, <1>8, NextCases

LEMMA FaultsOnlyGrow ==
    ASSUME Typed, [Next]_vars, faults' = 0
    PROVE  /\ faults = 0 /\ ~ LoseEvent /\ ~ Crash
           /\ \A o \in Orders : /\ ~ AttemptFails(o) /\ ~ ReflectLost(o)
                                /\ ~ ReflectCancelLost(o) /\ ~ CancelAnswerLost(o)
<1>1. faults \in Nat
  BY LifecycleAssumption DEF Typed, TypeOK
<1>2. ~ Fault
  BY <1>1 DEF Fault
<1>3. /\ ~ LoseEvent /\ ~ Crash
      /\ \A o \in Orders : /\ ~ AttemptFails(o) /\ ~ ReflectLost(o)
                           /\ ~ ReflectCancelLost(o) /\ ~ CancelAnswerLost(o)
  BY <1>2 DEF LoseEvent, Crash, AttemptFails, ReflectLost, ReflectCancelLost, CancelAnswerLost
<1>4. ASSUME NEW o \in Orders,
             \/ Accept(o) \/ Reject(o) \/ AnswerDuplicate(o) \/ Expire(o)
             \/ InsertOrder(o) \/ Send(o) \/ Reflect(o) \/ RequestCancel(o) \/ ReflectCancel(o)
      PROVE  UNCHANGED faults
  BY <1>4 DEF Accept, Reject, AnswerDuplicate, Expire, InsertOrder, Send, Reflect,
              RequestCancel, ReflectCancel
<1>5. ASSUME NEW t \in Trades, Match(t) PROVE UNCHANGED faults
  BY <1>5 DEF Match
<1>6. ASSUME NEW t \in Trades, RecordTrade(t) PROVE UNCHANGED faults
  BY <1>6 DEF RecordTrade
<1>7. (ApplyEvent => UNCHANGED faults) /\ (UNCHANGED vars => UNCHANGED faults)
  BY DEF ApplyEvent, vars
<1>8. faults = 0
  BY <1>3, <1>4, <1>5, <1>6, <1>7, NextCases
<1> QED BY <1>3, <1>8

LEMMA InStepStep ==
    ASSUME Typed, Typed', CancelsOwn, InStep, [Next]_vars, faults' = 0, NEW u \in Orders
    PROVE  AnsweredOnce(u)' /\ NewestKnown(u)'
<1> DEFINE Good == AnsweredOnce(u)' /\ NewestKnown(u)'
<1>1. \A o \in Orders : AnsweredOnce(o) /\ NewestKnown(o)
  BY FaultsOnlyGrow DEF InStep
<1>t. AnsweredOnce(u) /\ NewestKnown(u)
  BY <1>1
<1>u. Untouched(u) => Good
  BY <1>t, UntouchedInStep
<1> HIDE DEF Good
<1>2. ASSUME NEW o \in Orders, Accept(o) PROVE Good
  <2>1. PICK S \in SUBSET (Of(Trades, o) \ Matched), left \in 0 .. Qty[o],
               id \in BOOLEAN :
          LET now == ArrivedAs(o, S, left)
          IN  /\ book' = [book EXCEPT ![o] = [status |-> now, left |-> left]]
              /\ executed' = [t \in Matched \cup S |-> IF t \in S THEN now ELSE executed[t]]
              /\ Answer(o, now, id)
              /\ IF S = {} THEN UNCHANGED events ELSE MayTell(o, now, left, S)
    BY <1>2 DEF Accept
  <2> DEFINE now == ArrivedAs(o, S, left)
  <2>2. now \in Open \cup Closed /\ (S # {} => now \in Told)
    BY DEF ArrivedAs, ClosedAs, Open, Closed, Told
  <2>3. left \in Nat /\ S \in SUBSET Trades /\ \A t \in S : OrderOf[t] = o
    BY LifecycleAssumption DEF Of
  <2> HIDE DEF now
  <2>4. /\ book[o] = None /\ tries[o] > 0 /\ call[o] # "done" /\ resp[o] = None
        /\ UNCHANGED <<row, stored, call, tries, cancel, history>>
    BY <1>2 DEF Accept, Asked
  <2>5. call[o] = "sent" /\ status[o] = "Pending"
    <3>1. call[o] \in {"new", "send", "sent", "done", "failed"} /\ tries[o] # 0
      BY <2>4 DEF Typed, TypeOK
    <3> QED BY <1>1, <2>4, <3>1 DEF AnsweredOnce
  <2>6. /\ book'[o] = [status |-> now, left |-> left] /\ \A v \in Orders : v # o => book'[v] = book[v]
        /\ resp'[o] = [status |-> now, id |-> id] /\ \A v \in Orders : v # o => resp'[v] = resp[v]
    BY <2>1, <2>5 DEF now, Answer, Typed, TypeOK
  <2>7. \A v, s : EventSays(v, s)' => EventSays(v, s) \/ (v = o /\ s = now)
    <3>1. CASE UNCHANGED events
      BY <3>1, EventsKept
    <3>2. CASE S # {} /\ Tell(o, now, left, S)
      <4>1. Said(o, now, left, S) \in Message /\ events' = Append(events, Said(o, now, left, S))
        BY <2>2, <2>3, <3>2 DEF Said, Message, Tell
      <4>2. Said(o, now, left, S).ref = o /\ Said(o, now, left, S).status = now
        BY DEF Said
      <4> QED BY <4>1, <4>2, EventAdded
    <3> QED BY <2>1, <3>1, <3>2 DEF now, MayTell
  <2>8. \A v, s : EventSays(v, s) => EventSays(v, s)'
    <3>1. CASE UNCHANGED events
      BY <3>1, EventsKept
    <3>2. CASE S # {} /\ Tell(o, now, left, S)
      <4>1. Said(o, now, left, S) \in Message /\ events' = Append(events, Said(o, now, left, S))
        BY <2>2, <2>3, <3>2 DEF Said, Message, Tell
      <4> QED BY <4>1, EventAdded
    <3> QED BY <2>1, <3>1, <3>2 DEF now, MayTell
  <2>9. Matched' = Matched \cup S /\ \A t \in Matched' : executed'[t] = IF t \in S THEN now ELSE executed[t]
    BY <2>1 DEF now, Matched
  <2>10. /\ \A v, s : TradeSays(v, s)' => TradeSays(v, s) \/ (v = o /\ s = now)
         /\ \A v, s : TradeSays(v, s) => TradeSays(v, s)'
    BY <2>3, <2>4, <2>9 DEF TradeSays
  <2>11. \A v, s : CancelSays(v, s)' <=> CancelSays(v, s)
    BY <2>4 DEF CancelSays
  <2>12. CASE u # o
    <3>1. \A s : Carried(u, s)' <=> Carried(u, s)
      BY <2>7, <2>8, <2>10, <2>11, <2>12 DEF Carried
    <3> QED BY <1>u, <2>4, <2>6, <2>12, <3>1 DEF Untouched, row, history
  <2>13. CASE u = o
    <3>1. book'[o] # None /\ resp'[o] # None /\ book'[o].status = now
      BY <2>6 DEF None
    <3>2. AnswerSays(o, now)'
      BY <2>6, <3>1 DEF AnswerSays
    <3>3. \A s : AnswerSays(o, s)' => s = now
      BY <2>6 DEF AnswerSays
    <3>4. \A s : Coming(o, s)' => s = now \/ Coming(o, s)
      BY <2>7, <2>10, <2>11, <3>3 DEF Coming, Carried
    <3>5. Coming(o, now)'
      BY <3>2 DEF Coming
    <3>6. NewestKnown(o)'
      BY <1>1, <2>2, <2>4, <2>5, <3>1, <3>4, <3>5, Ahead DEF row, history
    <3>7. AnsweredOnce(o)'
      BY <2>4, <2>5, <3>1 DEF AnsweredOnce
    <3> QED BY <2>13, <3>6, <3>7 DEF Good
  <2> QED BY <2>12, <2>13
<1>3. ASSUME NEW o \in Orders, Reject(o) PROVE Good
  <2>1. /\ book[o] = None /\ call[o] = "sent" /\ tries[o] > 0 /\ resp[o] = None
        /\ UNCHANGED <<row, stored, call, tries, cancel, core, history, events>>
        /\ resp' = [resp EXCEPT ![o] = [status |-> "Rejected", id |-> FALSE]]
    BY <1>3 DEF Reject, Asked, Answer
  <2>2. \A v, s : Carried(v, s)' <=> Carried(v, s)
    BY <2>1 DEF Carried, EventSays, TradeSays, CancelSays, Matched, core
  <2>3. CASE u # o
    BY <1>u, <2>1, <2>2, <2>3 DEF Untouched, row, core, history, Typed, TypeOK
  <2>4. CASE u = o
    <3>1. NewestKnown(o)'
      BY <1>1, <2>1, <2>2 DEF NewestKnown, core
    <3>2. resp'[o] = [status |-> "Rejected", id |-> FALSE]
      BY <2>1 DEF Typed, TypeOK
    <3>3. AnsweredOnce(o)'
      BY <1>1, <2>1, <3>2 DEF AnsweredOnce, core, row
    <3> QED BY <2>4, <3>1, <3>3 DEF Good
  <2> QED BY <2>3, <2>4
<1>4. ASSUME NEW o \in Orders, AnswerDuplicate(o) PROVE Good
  BY <1>1, <1>4 DEF AnswerDuplicate, Asked, AnsweredOnce
<1>5. ASSUME NEW o \in Orders, NEW why \in Closed, NEW partially \in Closed,
             Close(o, why, partially),
             UNCHANGED <<row, stored, call, tries, resp, executed, history>>,
             \A v \in Orders : \A s : CancelSays(v, s) => CancelSays(v, s)',
             \A v \in Orders : \A s : CancelSays(v, s)' =>
                 CancelSays(v, s) \/ (v = o /\ s = book'[o].status)
      PROVE  Good
  <2>1. book[o] \in [status : Open \cup Closed, left : Nat] /\ book[o].status \in Open
    BY <1>5 DEF Close, Typed, TypeOK, None, Open
  <2>2. PICK now \in Closed : now = ClosedAs(o, book[o].left, why, partially)
    BY DEF ClosedAs
  <2> DEFINE m == Said(o, now, book[o].left, Of(Matched, o))
  <2>3. /\ book' = [book EXCEPT ![o].status = now] /\ events' = Append(events, m)
        /\ m.ref = o /\ m.status = now
    BY <1>5, <2>2 DEF Close, Tell, Said
  <2>4. m \in Message
    <3>1. Of(Matched, o) \subseteq Trades
      BY DEF Of, Typed, TypeOK
    <3> QED BY <2>1, <2>2, <3>1 DEF Said, Message, Told
  <2> HIDE DEF m
  <2>5. \A v, s : EventSays(v, s)' <=> EventSays(v, s) \/ (v = o /\ s = now)
    BY <2>3, <2>4, EventAdded
  <2>6. book'[o] # None /\ book'[o].status = now /\ \A v \in Orders : v # o => book'[v] = book[v]
    BY <2>1, <2>2, <2>3 DEF Typed, TypeOK, None, Closed
  <2>7. \A v, s : TradeSays(v, s)' <=> TradeSays(v, s)
    BY <1>5, TradesKept
  <2>8. \A v, s : AnswerSays(v, s)' <=> AnswerSays(v, s)
    BY <1>5 DEF AnswerSays
  <2>9. CASE u # o
    <3>1. \A s : Carried(u, s)' <=> Carried(u, s)
      BY <1>5, <2>5, <2>7, <2>9 DEF Carried
    <3> QED BY <1>u, <1>5, <2>6, <2>9, <3>1 DEF Untouched, row, history
  <2>10. CASE u = o
    <3>1. \A s : Coming(o, s)' => s = now \/ Coming(o, s)
      BY <1>5, <2>5, <2>6, <2>7, <2>8 DEF Coming, Carried
    <3>2. Coming(o, now)'
      BY <2>5 DEF Coming, Carried
    <3>3. Rank(book[o].status) < Rank(now) /\ book[o] # None
      <4>1. Rank(now) = 2
        BY <2>2 DEF Rank, Closed
      <4>2. Rank(book[o].status) \in {0, 1}
        BY <2>1 DEF Rank, Open
      <4> QED BY <2>1, <4>1, <4>2 DEF None
    <3>4. NewestKnown(o)'
      BY <1>1, <1>5, <2>2, <2>6, <3>1, <3>2, <3>3, Ahead DEF row, history
    <3>5. AnsweredOnce(o)'
      BY <1>1, <1>5, <2>6, <3>3 DEF AnsweredOnce, row
    <3> QED BY <2>10, <3>4, <3>5 DEF Good
  <2> QED BY <2>9, <2>10
<1>6. ASSUME NEW o \in Orders, Expire(o) PROVE Good
  <2>1. \A v, s : CancelSays(v, s)' <=> CancelSays(v, s)
    BY <1>6 DEF Expire, CancelSays, calls
  <2> QED BY <1>5, <1>6, <2>1 DEF Expire, Closed, calls
<1>7. ASSUME NEW o \in Orders, RequestCancel(o) PROVE Good
  <2>1. cancel[o] = None /\ cancel' = [cancel EXCEPT ![o] =
                     Said(o, book'[o].status, book[o].left, Of(Matched, o))]
    BY <1>7 DEF RequestCancel
  <2>2. \A v \in Orders : v # o => cancel'[v] = cancel[v]
    BY <2>1 DEF Typed, TypeOK
  <2>3. cancel'[o].status = book'[o].status
    BY <2>1 DEF Said, Typed, TypeOK
  <2>4. \A v \in Orders : \A s : CancelSays(v, s) => CancelSays(v, s)'
    BY <2>1, <2>2 DEF CancelSays
  <2>5. \A v \in Orders : \A s : CancelSays(v, s)' =>
                 CancelSays(v, s) \/ (v = o /\ s = book'[o].status)
    BY <2>2, <2>3 DEF CancelSays
  <2> QED BY <1>5, <1>7, <2>4, <2>5 DEF RequestCancel, Closed
<1>8. ASSUME NEW o \in Orders, InsertOrder(o) \/ Send(o) PROVE Good
  <2>1. /\ UNCHANGED <<status, stored, resp, cancel, book, executed, overtaken, events>>
        /\ \A v \in Orders : v # o => call'[v] = call[v] /\ tries'[v] = tries[v]
    BY <1>8 DEF InsertOrder, Send, row, core, history, Typed, TypeOK
  <2>2. \A v, s : /\ Carried(v, s)' <=> Carried(v, s)
                  /\ Coming(v, s)' <=> Coming(v, s)
    BY <2>1 DEF Coming, Carried, EventSays, TradeSays, CancelSays, AnswerSays, Matched
  <2>3. CASE u # o
    BY <1>u, <2>1, <2>2, <2>3 DEF Untouched
  <2>4. CASE u = o
    <3>1. NewestKnown(o)'
      BY <1>1, <2>1, <2>2, LeftAlone
    <3>2. \/ call[o] = "new" /\ call'[o] = "send" /\ tries'[o] = tries[o]
          \/ call[o] = "send" /\ call'[o] = "sent" /\ tries'[o] = tries[o] + 1
      BY <1>8 DEF InsertOrder, Send, Typed, TypeOK
    <3>3. tries[o] = 0 /\ book[o] = None /\ resp[o] = None
      BY <1>1, <3>2 DEF AnsweredOnce
    <3>4. AnsweredOnce(o)'
      BY <1>1, <2>1, <3>2, <3>3 DEF AnsweredOnce
    <3> QED BY <2>4, <3>1, <3>4 DEF Good
  <2> QED BY <2>3, <2>4
<1>9. ASSUME NEW o \in Orders, Reflect(o) PROVE Good
  <2>1. /\ call[o] = "sent" /\ resp[o] # None /\ call' = [call EXCEPT ![o] = "done"]
        /\ resp' = [resp EXCEPT ![o] = None] /\ WriteAnswer(o)
        /\ UNCHANGED <<stored, tries, cancel, book, executed, events>>
    BY <1>9 DEF Reflect, core
  <2>2. /\ call'[o] = "done" /\ resp'[o] = None
        /\ \A v \in Orders : v # o => call'[v] = call[v] /\ resp'[v] = resp[v]
    BY <2>1 DEF Typed, TypeOK
  <2>3. \A v, s : Carried(v, s)' <=> Carried(v, s)
    BY <2>1 DEF Carried, EventSays, TradeSays, CancelSays, Matched
  <2>4. CASE u # o
    <3>1. status'[u] = status[u] /\ (u \in overtaken => u \in overtaken')
      BY <2>1, <2>4 DEF WriteAnswer, SetStatus, KeepStatus, Typed, TypeOK
    <3> QED BY <1>u, <2>1, <2>2, <2>3, <2>4, <3>1 DEF Untouched
  <2>5. CASE u = o
    <3> DEFINE b == book[o].status
    <3>1. AnsweredOnce(o)'
      BY <1>1, <2>1, <2>2 DEF AnsweredOnce
    <3>2. PICK s \in Answers : s = resp[o].status
      BY <2>1 DEF Typed, TypeOK, Answers
    <3>3. /\ \A x : Coming(o, x)' => Coming(o, x)
          /\ \A x : Coming(o, x) => Coming(o, x)' \/ x = s
          /\ Coming(o, s)
      BY <2>1, <2>2, <2>3, <3>2 DEF Coming, AnswerSays
    <3>4. CASE book[o] = None
      BY <1>1, <2>1, <2>3, <2>5, <3>1, <3>4 DEF NewestKnown, Good
    <3>5. CASE book[o] # None
      <4>1. Reached(s, o) /\ b \in Open \cup Closed
        BY <1>1, <3>3, <3>5 DEF NewestKnown, Typed, TypeOK, None
      <4>2. s \notin {"Duplicate", "Rejected"}
        BY <4>1 DEF Reached, Rank, Open, Closed
      <4>3. CASE s = "Pending"
        <5>1. UNCHANGED <<status, overtaken>>
          BY <2>1, <3>2, <4>3 DEF WriteAnswer, KeepStatus
        <5>2. NewestKnown(o)'
          BY <1>1, <2>1, <2>3, <3>3, <4>3, <5>1, LeftAlone
        <5> QED BY <2>5, <3>1, <5>2 DEF Good
      <4>4. CASE s # "Pending"
        <5>1. SetStatus(o, s)
          BY <2>1, <3>2, <4>2, <4>4 DEF WriteAnswer
        <5>2. /\ status'[o] = s /\ overtaken \subseteq overtaken'
              /\ Rank(s) < Rank(status[o]) => o \in overtaken'
          BY <5>1 DEF SetStatus, Typed, TypeOK
        <5>3. NewestKnown(o)'
          BY <1>1, <2>1, <3>3, <3>5, <5>2, Overwritten
        <5> QED BY <2>5, <3>1, <5>3 DEF Good
      <4> QED BY <4>3, <4>4
    <3> QED BY <3>4, <3>5
  <2> QED BY <2>4, <2>5
<1>10. ASSUME NEW o \in Orders, NEW s \in Answers, Carried(o, s), SetStatus(o, s),
              UNCHANGED <<call, tries, resp, book>>,
              \A v \in Orders : \A x : v # o => (Carried(v, x)' <=> Carried(v, x)),
              \A x : Carried(o, x)' => Carried(o, x),
              \A x : Carried(o, x) => Carried(o, x)' \/ x = s
       PROVE  Good
  <2>1. /\ status'[o] = s /\ overtaken \subseteq overtaken'
        /\ Rank(s) < Rank(status[o]) => o \in overtaken'
        /\ \A v \in Orders : v # o => status'[v] = status[v]
    BY <1>10 DEF SetStatus, Typed, TypeOK
  <2>2. CASE u # o
    BY <1>u, <1>10, <2>1, <2>2 DEF Untouched
  <2>3. CASE u = o
    <3>1. \A x : AnswerSays(o, x)' <=> AnswerSays(o, x)
      BY <1>10 DEF AnswerSays
    <3>2. /\ \A x : Coming(o, x)' => Coming(o, x)
          /\ \A x : Coming(o, x) => Coming(o, x)' \/ x = s
          /\ Coming(o, s)
      BY <1>10, <3>1 DEF Coming
    <3>3. book[o] # None
      BY <1>1, <1>10 DEF NewestKnown
    <3>4. NewestKnown(o)'
      BY <1>1, <1>10, <2>1, <3>2, <3>3, Overwritten
    <3>5. AnsweredOnce(o)'
      BY <1>1, <1>10, <3>3 DEF AnsweredOnce
    <3> QED BY <2>3, <3>4, <3>5 DEF Good
  <2> QED BY <2>2, <2>3
<1>11. ASSUME NEW o \in Orders, ReflectCancel(o) PROVE Good
  <2>1. /\ cancel[o] # None /\ cancel' = [cancel EXCEPT ![o] = None]
        /\ UNCHANGED <<stored, call, tries, resp, book, executed, events>>
        /\ SetStatus(cancel[o].ref, cancel[o].status)
    BY <1>11 DEF ReflectCancel, FinishCancel, TakeOver, core
  <2>2. PICK s \in Answers : s = cancel[o].status
    BY <2>1 DEF Typed, TypeOK, Message, Answers, Told, Open, Closed
  <2>3. SetStatus(o, s)
    BY <2>1, <2>2 DEF CancelsOwn
  <2>4. /\ \A v \in Orders : \A x : v # o => (CancelSays(v, x)' <=> CancelSays(v, x))
        /\ \A x : ~ CancelSays(o, x)'
        /\ \A x : CancelSays(o, x) <=> x = s
    BY <2>1, <2>2 DEF CancelSays, Typed, TypeOK
  <2>5. \A v, x : /\ EventSays(v, x)' <=> EventSays(v, x)
                  /\ TradeSays(v, x)' <=> TradeSays(v, x)
    BY <2>1, EventsKept, TradesKept
  <2> QED BY <1>10, <2>1, <2>2, <2>3, <2>4, <2>5 DEF Carried
<1>12. ASSUME NEW t \in Trades, RecordTrade(t) PROVE Good
  <2>1. /\ t \in Matched \ stored /\ stored' = stored \cup {t}
        /\ SetStatus(OrderOf[t], executed[t])
        /\ UNCHANGED <<call, tries, resp, cancel, book, executed, events>>
    BY <1>12 DEF RecordTrade, FirstDelivery, calls, core
  <2>2. PICK o \in Orders : o = OrderOf[t]
    BY LifecycleAssumption
  <2>3. PICK s \in Answers : s = executed[t]
    BY <2>1 DEF Typed, TypeOK, Answers, Told, Open, Closed
  <2>4. \A v, x : /\ EventSays(v, x)' <=> EventSays(v, x)
                  /\ CancelSays(v, x)' <=> CancelSays(v, x)
    BY <2>1, EventsKept DEF CancelSays
  <2>5. /\ \A v, x : TradeSays(v, x)' => TradeSays(v, x)
        /\ \A v, x : TradeSays(v, x) => TradeSays(v, x)' \/ (v = o /\ x = s)
        /\ TradeSays(o, s)
    BY <2>1, <2>2, <2>3 DEF TradeSays, Matched
  <2> QED BY <1>10, <2>1, <2>2, <2>3, <2>4, <2>5 DEF Carried
<1>13. ASSUME ApplyEvent PROVE Good
  <2>1. /\ events # <<>> /\ events' = Tail(events)
        /\ SetStatus(Head(events).ref, Head(events).status)
        /\ UNCHANGED <<stored, call, tries, resp, cancel, book, executed>>
    BY <1>13 DEF ApplyEvent, TakeOver, calls, core
  <2>2. Head(events) \in Message
    BY <2>1, FirstEvent DEF Typed, TypeOK
  <2>3. PICK o \in Orders, s \in Answers : o = Head(events).ref /\ s = Head(events).status
    BY <2>2 DEF Message, Answers, Told, Open, Closed
  <2>4. \A v, x : EventSays(v, x) <=> EventSays(v, x)' \/ (o = v /\ s = x)
    BY <2>1, <2>3, EventTaken
  <2>5. \A v, x : /\ TradeSays(v, x)' <=> TradeSays(v, x)
                  /\ CancelSays(v, x)' <=> CancelSays(v, x)
    BY <2>1, TradesKept DEF CancelSays
  <2>6. Carried(o, s) /\ SetStatus(o, s)
    BY <2>1, <2>3, <2>4 DEF Carried
  <2>7. /\ \A v \in Orders : \A x : v # o => (Carried(v, x)' <=> Carried(v, x))
        /\ \A x : Carried(o, x)' => Carried(o, x)
        /\ \A x : Carried(o, x) => Carried(o, x)' \/ x = s
    BY <2>4, <2>5 DEF Carried
  <2> QED BY <1>10, <2>1, <2>6, <2>7
<1>14. ASSUME NEW t \in Trades, Match(t) PROVE Good
  <2>1. PICK o \in Orders : o = OrderOf[t]
    BY LifecycleAssumption
  <2> DEFINE left == book[o].left - Fill[t]
  <2>2. PICK now \in {"Filled", "FilledPartially"} :
           now = IF left = 0 THEN "Filled" ELSE "FilledPartially"
    OBVIOUS
  <2>3. /\ t \notin Matched /\ book[o].status \in Open /\ left >= 0
        /\ book' = [book EXCEPT ![o] = [status |-> now, left |-> left]]
        /\ executed' = [v \in Matched \cup {t} |-> IF v = t THEN now ELSE executed[v]]
        /\ MayTell(o, now, left, Of(Matched, o) \cup {t})
        /\ UNCHANGED <<row, stored, calls, history>>
    BY <1>14, <2>1, <2>2 DEF Match
  <2>4. book[o] \in [status : Open \cup Closed, left : Nat] /\ book[o] # None
    BY <2>3 DEF Typed, TypeOK, None, Open
  <2>5. left \in Nat
    BY <2>3, <2>4, LifecycleAssumption
  <2> HIDE DEF left
  <2>6. book'[o] # None /\ book'[o].status = now /\ \A v \in Orders : v # o => book'[v] = book[v]
    BY <2>3 DEF Typed, TypeOK, None
  <2>7. /\ \A v, s : EventSays(v, s)' => EventSays(v, s) \/ (v = o /\ s = now)
        /\ \A v, s : EventSays(v, s) => EventSays(v, s)'
    <3>1. CASE UNCHANGED events
      BY <3>1, EventsKept
    <3> DEFINE m == Said(o, now, left, Of(Matched, o) \cup {t})
    <3>2. CASE events' = Append(events, m)
      <4>1. m \in Message /\ m.ref = o /\ m.status = now
        BY <2>5 DEF Said, Message, Told, Closed, Of, Typed, TypeOK
      <4> HIDE DEF m
      <4> QED BY <3>2, <4>1, EventAdded
    <3> QED BY <2>3, <3>1, <3>2 DEF MayTell, Tell
  <2>8. Matched' = Matched \cup {t} /\ \A v \in Matched' : executed'[v] = IF v = t THEN now ELSE executed[v]
    BY <2>3 DEF Matched
  <2>9. t \notin stored /\ stored' = stored
    BY <2>3 DEF Typed, TypeOK
  <2>10. /\ \A v, s : TradeSays(v, s)' => TradeSays(v, s) \/ (v = o /\ s = now)
         /\ \A v, s : TradeSays(v, s) => TradeSays(v, s)'
         /\ TradeSays(o, now)'
    BY <2>1, <2>3, <2>8, <2>9 DEF TradeSays
  <2>11. \A v, s : /\ CancelSays(v, s)' <=> CancelSays(v, s)
                   /\ AnswerSays(v, s)' <=> AnswerSays(v, s)
    BY <2>3 DEF CancelSays, AnswerSays, calls
  <2>12. CASE u # o
    <3>1. \A s : Carried(u, s)' <=> Carried(u, s)
      BY <2>7, <2>10, <2>11, <2>12 DEF Carried
    <3> QED BY <1>u, <2>3, <2>6, <2>12, <3>1 DEF Untouched, row, calls, history
  <2>13. CASE u = o
    <3>1. \A s : Coming(o, s)' => s = now \/ Coming(o, s)
      BY <2>7, <2>10, <2>11 DEF Coming, Carried
    <3>2. Coming(o, now)'
      BY <2>10 DEF Coming, Carried
    <3>3. Rank(book[o].status) < Rank(now) \/ book[o].status = now
      BY <2>3 DEF Rank, Open
    <3>4. now \in Open \cup Closed
      BY DEF Open, Closed
    <3>5. NewestKnown(o)'
      BY <1>1, <2>3, <2>4, <2>6, <3>1, <3>2, <3>3, <3>4, Ahead DEF row, history
    <3>6. AnsweredOnce(o)'
      BY <1>1, <2>3, <2>4, <2>6 DEF AnsweredOnce, row, calls
    <3> QED BY <2>13, <3>5, <3>6 DEF Good
  <2> QED BY <2>12, <2>13
<1>15. ASSUME UNCHANGED vars PROVE Good
  <2>1. UNCHANGED <<status, stored, call, tries, resp, cancel, book, executed, events, overtaken>>
    BY <1>15 DEF vars, row, calls, core, history
  <2>2. \A s : Carried(u, s)' <=> Carried(u, s)
    BY <2>1, EventsKept, TradesKept DEF Carried, CancelSays
  <2> QED BY <1>u, <2>1, <2>2 DEF Untouched
<1>16. Good
  BY <1>2, <1>3, <1>4, <1>6, <1>7, <1>8, <1>9, <1>11, <1>12, <1>13, <1>14, <1>15,
     FaultsOnlyGrow, NextCases
<1> QED BY <1>16 DEF Good

\* At rest nothing is on its way, so that what the row says is the newest.
LEMMA NewestAtRest ==
    ASSUME Typed, InStep
    PROVE  QuietStatusAgrees
<1> SUFFICES ASSUME NEW o \in Orders \ overtaken, Quiet(o), book[o] # None
             PROVE  status[o] = book[o].status
  BY DEF QuietStatusAgrees
<1>1. AnsweredOnce(o) /\ NewestKnown(o)
  BY DEF InStep, Quiet
<1>2. resp[o] = None
  BY <1>1 DEF AnsweredOnce, Quiet
<1>3. \A s : ~ Coming(o, s)
  BY <1>2 DEF Coming, Carried, EventSays, TradeSays, CancelSays, AnswerSays, Quiet, Of
<1> QED BY <1>1, <1>3 DEF NewestKnown

\* A row that is at rest, and on which no older status was written over a newer
\* one, has the status of the Core, whichever of the four paths wrote it last
\* (order.go:200, order.go:408, trade.go:311).
THEOREM StatusAgreesAtRest == Spec => []QuietStatusAgrees
<1>1. Init => Typed /\ CancelsOwn /\ InStep
  BY TypedInit, InStepInit
<1>2. Typed /\ CancelsOwn /\ InStep /\ [Next]_vars => (Typed /\ CancelsOwn /\ InStep)'
  <2> SUFFICES ASSUME Typed, CancelsOwn, InStep, [Next]_vars
               PROVE  (Typed /\ CancelsOwn /\ InStep)'
    OBVIOUS
  <2>1. Typed' /\ CancelsOwn'
    BY TypedStep, CancelsOwnStep
  <2>2. ASSUME faults' = 0 PROVE \A u \in Orders : AnsweredOnce(u)' /\ NewestKnown(u)'
    BY <2>1, <2>2, InStepStep
  <2>3. InStep'
    BY <2>2 DEF InStep
  <2> QED BY <2>1, <2>3
<1>3. Typed /\ CancelsOwn /\ InStep => QuietStatusAgrees
  BY NewestAtRest
<1> QED BY <1>1, <1>2, <1>3, PTL DEF Spec
=============================================================================
