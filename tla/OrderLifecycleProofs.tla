------------------------ MODULE OrderLifecycleProofs ------------------------
(***************************************************************************)
(* Proofs about OrderLifecycle, for any number of orders and trades, any   *)
(* number of retries and any faults: types, where ids and rows come from,  *)
(* and what the trades of an order leave of it.                            *)
(***************************************************************************)
EXTENDS OrderLifecycle, InductionFacts, SequenceTheorems

\* How many attempts a call can have made where it is.
Typed ==
    /\ TypeOK
    /\ \A o \in Orders : /\ call[o] = "new" => tries[o] = 0
                         /\ call[o] = "send" => tries[o] <= MaxRetries

USE DEF None, Open, Closed, Answers, Told

\* What a step can be, action by action.
LEMMA NextCases ==
    ASSUME [Next]_vars
    PROVE  \/ \E o \in Orders :
                \/ Accept(o) \/ Reject(o) \/ AnswerDuplicate(o) \/ Expire(o)
                \/ InsertOrder(o) \/ Send(o) \/ AttemptFails(o)
                \/ Reflect(o) \/ ReflectLost(o)
                \/ RequestCancel(o) \/ ReflectCancel(o) \/ ReflectCancelLost(o)
                \/ CancelAnswerLost(o)
           \/ \E t \in Trades : Match(t) \/ RecordTrade(t)
           \/ ApplyEvent \/ LoseEvent \/ Crash
           \/ UNCHANGED vars
BY DEF Next, CoreStep, Submit, Cancel

LEMMA TypedInit == Init => Typed
<1> SUFFICES ASSUME Init PROVE Typed
  OBVIOUS
<1>1. Matched = {} /\ events \in Seq(Message)
  BY DEF Init, Matched
<1>2. /\ remaining \in [Orders -> Nat]
      /\ tries \in [Orders -> 0 .. MaxRetries + 1]
      /\ faults \in 0 .. MaxFaults
  BY LifecycleAssumption DEF Init
<1>3. /\ orderId \in [Orders -> BOOLEAN]
      /\ stored \subseteq Matched /\ placed \subseteq Orders
  BY <1>1, Zenon DEF Init
<1> QED
  BY <1>1, <1>2, <1>3, LifecycleAssumption DEF Init, Typed, TypeOK

\* The first of a sequence of messages, and the ones after it.
LEMMA FirstEvent ==
    ASSUME events \in Seq(Message), events # <<>>
    PROVE  Head(events) \in Message /\ Tail(events) \in Seq(Message)
BY HeadTailProperties

LEMMA Telling ==
    ASSUME events \in Seq(Message), NEW o \in Orders, NEW now \in Told,
           NEW left \in Nat, NEW S \in SUBSET Trades,
           MayTell(o, now, left, S) \/ Tell(o, now, left, S)
    PROVE  events' \in Seq(Message)
<1>1. Said(o, now, left, S) \in Message
  BY DEF Said, Message
<1> HIDE DEF Message
<1> QED BY <1>1 DEF MayTell, Tell

\* A writer of a row leaves it a row.
LEMMA TakingOver ==
    ASSUME Typed, NEW m \in Message, TakeOver(m)
    PROVE  /\ status' \in [Orders -> Open \cup Closed \cup {"Rejected"}]
           /\ remaining' \in [Orders -> Nat]
           /\ outOfStep' \subseteq Orders /\ overtaken' \subseteq Orders
BY DEF Typed, TypeOK, Message, TakeOver, SetStatus

LEMMA TypedStep == Typed /\ [Next]_vars => Typed'
<1> SUFFICES ASSUME Typed, [Next]_vars PROVE Typed'
  OBVIOUS
<1> USE LifecycleAssumption
<1> USE DEF Typed, TypeOK, row, calls, core, history
<1>1. ASSUME NEW o \in Orders, Accept(o) PROVE Typed'
  <2>1. PICK S \in SUBSET (Of(Trades, o) \ Matched), left \in 0 .. Qty[o],
               id \in BOOLEAN :
          LET now == ArrivedAs(o, S, left)
          IN  /\ book' = [book EXCEPT ![o] = [status |-> now, left |-> left]]
              /\ executed' = [t \in Matched \cup S |-> IF t \in S THEN now ELSE executed[t]]
              /\ Answer(o, now, id)
              /\ IF S = {} THEN UNCHANGED events ELSE MayTell(o, now, left, S)
    BY <1>1 DEF Accept
  <2> DEFINE now == ArrivedAs(o, S, left)
  <2>2. now \in Open \cup Closed /\ (S # {} => now \in Told)
    BY DEF ArrivedAs, ClosedAs
  <2>3. left \in Nat /\ S \in SUBSET Trades
    BY DEF Of
  <2> HIDE DEF now
  <2>4. book' \in [Orders -> {None} \cup [status : Open \cup Closed, left : Nat]]
    BY <2>1, <2>2, <2>3 DEF now
  <2>5. Matched' \subseteq Trades /\ Matched \subseteq Matched' /\ \A t \in Matched' : executed'[t] \in Told
    BY <2>1, <2>2, <2>3 DEF now, Matched
  <2>6. resp' \in [Orders -> {None} \cup [status : Answers, id : BOOLEAN]]
    BY <2>1, <2>2 DEF now, Answer
  <2>7. events' \in Seq(Message)
    BY <2>1, <2>2, <2>3, Telling DEF now
  <2> QED
    BY <1>1, <2>4, <2>5, <2>6, <2>7 DEF Accept
<1>2. ASSUME NEW o \in Orders, Reject(o) PROVE Typed'
  BY <1>2 DEF Reject, Answer, Matched
<1>3. ASSUME NEW o \in Orders, AnswerDuplicate(o) PROVE Typed'
  BY <1>3 DEF AnswerDuplicate, Answer, Matched
<1>4. ASSUME NEW o \in Orders, NEW why \in Closed, NEW partially \in Closed,
             Close(o, why, partially)
      PROVE  /\ book' \in [Orders -> {None} \cup [status : Open \cup Closed, left : Nat]]
             /\ book'[o].status \in Closed /\ book[o].left \in Nat
             /\ events' \in Seq(Message)
  <2>1. book[o] \in [status : Open \cup Closed, left : Nat]
    BY <1>4 DEF Close
  <2> DEFINE now == ClosedAs(o, book[o].left, why, partially)
  <2>2. now \in Closed
    BY DEF ClosedAs
  <2>3. book' = [book EXCEPT ![o].status = now] /\ Tell(o, now, book[o].left, Of(Matched, o))
    BY <1>4 DEF Close
  <2> HIDE DEF now
  <2>4. events' \in Seq(Message)
    BY <2>1, <2>2, <2>3, Telling DEF Of
  <2> QED BY <2>1, <2>2, <2>3, <2>4
<1>5. ASSUME NEW o \in Orders, Expire(o) PROVE Typed'
  BY <1>4, <1>5 DEF Expire, Matched
<1>6. ASSUME NEW o \in Orders, InsertOrder(o) PROVE Typed'
  BY <1>6 DEF InsertOrder, Matched
<1>7. ASSUME NEW o \in Orders, Send(o) PROVE Typed'
  BY <1>7 DEF Send, Matched
<1>8. ASSUME NEW o \in Orders, AttemptFails(o) PROVE Typed'
  <2>1. faults' \in 0 .. MaxFaults /\ resp' \in [Orders -> {None} \cup [status : Answers, id : BOOLEAN]]
    BY <1>8 DEF AttemptFails, Fault
  <2>2. /\ call' \in [Orders -> {"new", "send", "sent", "done", "failed"}]
        /\ \A u \in Orders : call'[u] = "new" => call[u] = "new"
        /\ \A u \in Orders : call'[u] = "send" => tries[u] <= MaxRetries
    BY <1>8 DEF AttemptFails, AttemptsLeft
  <2> QED
    BY <1>8, <2>1, <2>2 DEF AttemptFails, Matched
<1>9. ASSUME NEW o \in Orders, Reflect(o) PROVE Typed'
  <2>1. resp[o] \in [status : Answers, id : BOOLEAN]
    BY <1>9 DEF Reflect
  <2>2. /\ status' \in [Orders -> Open \cup Closed \cup {"Rejected"}]
        /\ overtaken' \subseteq Orders
    <3>1. \/ KeepStatus
          \/ resp[o].status \notin {"Duplicate", "Pending"} /\ SetStatus(o, resp[o].status)
      BY <1>9 DEF Reflect, WriteAnswer
    <3>2. CASE KeepStatus
      BY <3>2 DEF KeepStatus
    <3>3. CASE /\ resp[o].status \notin {"Duplicate", "Pending"}
               /\ SetStatus(o, resp[o].status)
      <4>1. resp[o].status \in Open \cup Closed \cup {"Rejected"}
        BY <2>1, <3>3
      <4> QED BY <3>3, <4>1 DEF SetStatus
    <3> QED BY <3>1, <3>2, <3>3
  <2>3. orderId' \in [Orders -> BOOLEAN]
    BY <1>9, <2>1 DEF Reflect, WriteAnswer, SetOrderId
  <2> QED
    BY <1>9, <2>2, <2>3 DEF Reflect, Matched
<1>10. ASSUME NEW o \in Orders, ReflectLost(o) PROVE Typed'
  BY <1>10 DEF ReflectLost, Fault, Matched
<1>11. ASSUME NEW o \in Orders, RequestCancel(o) PROVE Typed'
  <2>1. Said(o, book'[o].status, book[o].left, Of(Matched, o)) \in Message
    BY <1>4, <1>11 DEF RequestCancel, Said, Message, Of
  <2> QED
    BY <1>4, <1>11, <2>1 DEF RequestCancel, Matched
<1>12. ASSUME NEW o \in Orders, ReflectCancel(o) PROVE Typed'
  BY <1>12, TakingOver DEF ReflectCancel, FinishCancel, Matched
<1>13. ASSUME NEW o \in Orders, ReflectCancelLost(o) PROVE Typed'
  BY <1>13 DEF ReflectCancelLost, FinishCancel, Fault, Matched
<1>14. ASSUME NEW o \in Orders, CancelAnswerLost(o) PROVE Typed'
  BY <1>14 DEF CancelAnswerLost, Fault, Matched
<1>15. ASSUME NEW t \in Trades, Match(t) PROVE Typed'
  <2> DEFINE o == OrderOf[t]
             left == book[o].left - Fill[t]
             now == IF left = 0 THEN "Filled" ELSE "FilledPartially"
  <2>1. o \in Orders /\ book[o] \in [status : Open \cup Closed, left : Nat]
    BY <1>15 DEF Match
  <2>2. left \in Nat /\ now \in Told
    BY <1>15, <2>1 DEF Match
  <2>3. /\ book' = [book EXCEPT ![o] = [status |-> now, left |-> left]]
        /\ executed' = [u \in Matched \cup {t} |-> IF u = t THEN now ELSE executed[u]]
        /\ MayTell(o, now, left, Of(Matched, o) \cup {t})
        /\ UNCHANGED <<row, stored, calls, history, faults>>
    BY <1>15 DEF Match
  <2> HIDE DEF o, left, now
  <2>4. events' \in Seq(Message)
    <3>1. Of(Matched, o) \cup {t} \in SUBSET Trades
      BY DEF Of
    <3> QED BY <2>1, <2>2, <2>3, <3>1, Telling
  <2>5. Matched' \subseteq Trades /\ Matched \subseteq Matched' /\ \A u \in Matched' : executed'[u] \in Told
    BY <2>2, <2>3 DEF Matched
  <2>6. book' \in [Orders -> {None} \cup [status : Open \cup Closed, left : Nat]]
    BY <2>1, <2>2, <2>3
  <2> QED BY <2>3, <2>4, <2>5, <2>6
<1>16. ASSUME NEW t \in Trades, RecordTrade(t) PROVE Typed'
  <2>1. OrderOf[t] \in Orders /\ executed[t] \in Told /\ t \in Matched
    BY <1>16 DEF RecordTrade, FirstDelivery
  <2>2. remaining' \in [Orders -> Nat]
    BY <1>16, <2>1 DEF RecordTrade
  <2> QED
    BY <1>16, <2>1, <2>2 DEF RecordTrade, SetStatus, Matched
<1>17. CASE ApplyEvent
  BY <1>17, FirstEvent, TakingOver DEF ApplyEvent, Matched
<1>18. CASE LoseEvent
  BY <1>18, FirstEvent DEF LoseEvent, Fault, Matched
<1>19. CASE Crash
  BY <1>19 DEF Crash, Fault, Matched
<1>20. CASE UNCHANGED vars
  BY <1>20 DEF vars, Matched
<1> HIDE DEF Typed
<1> QED
  BY <1>1, <1>2, <1>3, <1>5, <1>6, <1>7, <1>8, <1>9, <1>10, <1>11, <1>12,
     <1>13, <1>14, <1>15, <1>16, <1>17, <1>18, <1>19, <1>20, NextCases

\* Rows, answers, messages and counters are of their types, and no call makes
\* more attempts than the retry interceptor allows.
THEOREM TypeCorrect == Spec => []TypeOK
<1>1. Typed => TypeOK
  BY DEF Typed
<1> QED
  BY <1>1, TypedInit, TypedStep, PTL DEF Spec
-----------------------------------------------------------------------------

\* Where an order, an id and an answer come from: nothing is sent before its
\* row is there, and only the Core's book makes an order_id.
Traced ==
    \A o \in Orders :
        /\ call[o] # "new" => o \in placed
        /\ book[o] # None => o \in placed
        /\ orderId[o] => book[o] # None
        /\ resp[o] # None /\ (resp[o].id \/ resp[o].status = "Pending") => book[o] # None

LEMMA TracedInit == Init => Traced
BY DEF Init, Traced

\* An order the Core saved stays in its book, and its row in the database.
LEMMA SavedStays ==
    ASSUME Typed, [Next]_vars
    PROVE  /\ placed \subseteq placed'
           /\ \A o \in Orders : book[o] # None => book'[o] # None
<1> USE DEF Typed, TypeOK, row, calls, core, history
<1>1. ASSUME NEW o \in Orders, Accept(o) PROVE UNCHANGED placed /\ \A u \in Orders : book[u] # None => book'[u] # None
  BY <1>1 DEF Accept
<1>2. ASSUME NEW o \in Orders, NEW why, NEW partially, Close(o, why, partially)
      PROVE  \A u \in Orders : book[u] # None => book'[u] # None
  <2>1. book[o] \in [status : Open \cup Closed, left : Nat]
    BY <1>2 DEF Close
  <2>2. [book[o] EXCEPT !.status = ClosedAs(o, book[o].left, why, partially)] # None
    BY <2>1
  <2> QED BY <1>2, <2>2 DEF Close
<1>3. ASSUME NEW t \in Trades, Match(t) PROVE UNCHANGED placed /\ \A u \in Orders : book[u] # None => book'[u] # None
  BY <1>3, LifecycleAssumption DEF Match
<1>4. ASSUME NEW o \in Orders, Expire(o) \/ RequestCancel(o)
      PROVE  UNCHANGED placed /\ \A u \in Orders : book[u] # None => book'[u] # None
  BY <1>2, <1>4 DEF Expire, RequestCancel
<1>5. ASSUME NEW o \in Orders,
             \/ Reject(o) \/ AnswerDuplicate(o) \/ InsertOrder(o) \/ Send(o)
             \/ AttemptFails(o) \/ Reflect(o) \/ ReflectLost(o) \/ ReflectCancel(o)
             \/ ReflectCancelLost(o) \/ CancelAnswerLost(o)
      PROVE  placed \subseteq placed' /\ UNCHANGED book
  BY <1>5 DEF Reject, AnswerDuplicate, InsertOrder, Send, AttemptFails, Reflect, ReflectLost,
              ReflectCancel, ReflectCancelLost, CancelAnswerLost, FinishCancel
<1>6. ASSUME NEW t \in Trades, RecordTrade(t) PROVE UNCHANGED <<placed, book>>
  BY <1>6 DEF RecordTrade
<1>7. CASE ApplyEvent \/ LoseEvent \/ Crash \/ UNCHANGED vars
  BY <1>7 DEF ApplyEvent, LoseEvent, Crash, vars
<1> HIDE DEF Typed, TypeOK
<1> QED BY <1>1, <1>3, <1>4, <1>5, <1>6, <1>7, NextCases

LEMMA TracedStep == Typed /\ Traced /\ [Next]_vars => Traced'
<1> SUFFICES ASSUME Typed, Traced, [Next]_vars PROVE Traced'
  OBVIOUS
<1> USE SavedStays
<1> USE DEF Traced, row, calls, core, history
<1>1. ASSUME NEW o \in Orders, Accept(o) PROVE Traced'
  <2>1. o \in placed /\ book'[o] # None /\ UNCHANGED <<placed, orderId, call>>
    <3>1. PICK now, left : book' = [book EXCEPT ![o] = [status |-> now, left |-> left]]
      BY <1>1 DEF Accept
    <3>2. book'[o] # None
      BY <3>1 DEF Typed, TypeOK
    <3>3. call[o] # "new" /\ UNCHANGED <<placed, orderId, call>>
      BY <1>1 DEF Accept, Asked, Typed
    <3> QED BY <3>2, <3>3
  <2>2. \A u \in Orders : u # o => book'[u] = book[u] /\ resp'[u] = resp[u]
    BY <1>1 DEF Accept, Answer, Typed, TypeOK
  <2> QED BY <2>1, <2>2
<1>2. ASSUME NEW o \in Orders, Reject(o) \/ AnswerDuplicate(o) PROVE Traced'
  <2>1. UNCHANGED <<placed, orderId, call, book>>
    BY <1>2 DEF Reject, AnswerDuplicate
  <2>2. (~ resp'[o].id /\ resp'[o].status # "Pending") \/ book[o] # None
    <3>1. CASE AnswerDuplicate(o)
      BY <3>1 DEF AnswerDuplicate
    <3>2. CASE Reject(o)
      <4>1. resp' = [resp EXCEPT ![o] = [status |-> "Rejected", id |-> FALSE]]
        BY <3>2 DEF Reject, Answer
      <4> QED BY <4>1 DEF Typed, TypeOK
    <3> QED BY <1>2, <3>1, <3>2
  <2>3. \A u \in Orders : u # o => resp'[u] = resp[u]
    BY <1>2 DEF Reject, AnswerDuplicate, Answer, Typed, TypeOK
  <2> QED BY <2>1, <2>2, <2>3
<1>3. ASSUME NEW o \in Orders, Expire(o) \/ RequestCancel(o) PROVE Traced'
  <2>1. UNCHANGED <<placed, orderId, call, resp>>
    BY <1>3 DEF Expire, RequestCancel
  <2>2. \A u \in Orders : book'[u] # None => book[u] # None
    BY <1>3 DEF Expire, RequestCancel, Close, Typed, TypeOK
  <2> QED BY <2>1, <2>2
<1>4. ASSUME NEW o \in Orders, InsertOrder(o) PROVE Traced'
  BY <1>4 DEF InsertOrder, Typed, TypeOK
<1>5. ASSUME NEW o \in Orders, Send(o) PROVE Traced'
  BY <1>5 DEF Send, Typed, TypeOK
<1>6. ASSUME NEW o \in Orders, AttemptFails(o) PROVE Traced'
  BY <1>6 DEF AttemptFails, Typed, TypeOK
<1>7. ASSUME NEW o \in Orders, Reflect(o) PROVE Traced'
  <2>1. UNCHANGED <<placed, book>> /\ call[o] = "sent" /\ resp[o] # None
    BY <1>7 DEF Reflect
  <2>2. /\ \A u \in Orders : call'[u] # "new" => call[u] # "new"
        /\ \A u \in Orders : resp'[u] # None => resp'[u] = resp[u]
    BY <1>7 DEF Reflect, Typed, TypeOK
  <2>3. \A u \in Orders : orderId'[u] => book[u] # None
    BY <1>7, <2>1 DEF Reflect, WriteAnswer, SetOrderId, Typed, TypeOK
  <2> QED BY <2>1, <2>2, <2>3
<1>8. ASSUME NEW o \in Orders, ReflectLost(o) PROVE Traced'
  BY <1>8 DEF ReflectLost, Typed, TypeOK
<1>9. ASSUME NEW o \in Orders,
             ReflectCancel(o) \/ ReflectCancelLost(o) \/ CancelAnswerLost(o)
      PROVE  Traced'
  BY <1>9 DEF ReflectCancel, ReflectCancelLost, CancelAnswerLost, FinishCancel
<1>10. ASSUME NEW t \in Trades, Match(t) PROVE Traced'
  <2>1. UNCHANGED <<placed, orderId, call, resp>>
    BY <1>10 DEF Match
  <2>2. \A u \in Orders : book'[u] # None => book[u] # None
    BY <1>10 DEF Match, Typed, TypeOK
  <2> QED BY <2>1, <2>2
<1>11. ASSUME NEW t \in Trades, RecordTrade(t) PROVE Traced'
  BY <1>11 DEF RecordTrade
<1>12. CASE ApplyEvent \/ LoseEvent \/ UNCHANGED vars
  BY <1>12 DEF ApplyEvent, LoseEvent, vars
<1>13. CASE Crash
  BY <1>13 DEF Crash, Typed, TypeOK
<1> HIDE DEF Traced
<1> QED
  BY <1>1, <1>2, <1>3, <1>4, <1>5, <1>6, <1>7, <1>8, <1>9, <1>10, <1>11,
     <1>12, <1>13, NextCases

\* The parent of every trade and event is in the database before the Core can
\* speak of it, whatever fails (recover.go:36-39).
THEOREM ParentsAreStored == Spec => []ParentIsStored
<1>1. Traced => ParentIsStored
  BY DEF Traced, ParentIsStored
<1> QED
  BY <1>1, TypedInit, TypedStep, TracedInit, TracedStep, PTL DEF Spec

\* A row carries an order_id only if the Core saved the order, through retries,
\* rejections and answers out of order (order.go:185-209).
THEOREM IdsAreOfSavedOrders == Spec => []IdOfSavedOrder
<1>1. Traced => IdOfSavedOrder
  BY DEF Traced, IdOfSavedOrder
<1> QED
  BY <1>1, TypedInit, TypedStep, TracedInit, TracedStep, PTL DEF Spec

-----------------------------------------------------------------------------

LEMMA PendingIsLeftForGood ==
    ASSUME Typed, [Next]_vars
    PROVE  \A o \in Orders : status[o] # "Pending" => status'[o] # "Pending"
<1> USE DEF Typed, TypeOK, row, calls, core, history
<1>1. ASSUME NEW u \in Orders, NEW s, s # "Pending", SetStatus(u, s)
      PROVE  \A o \in Orders : status[o] # "Pending" => status'[o] # "Pending"
  BY <1>1 DEF SetStatus
<1>2. ASSUME NEW m \in Message, TakeOver(m)
      PROVE  \A o \in Orders : status[o] # "Pending" => status'[o] # "Pending"
  BY <1>1, <1>2 DEF TakeOver, Message
<1>3. ASSUME NEW u \in Orders, Reflect(u)
      PROVE  \A o \in Orders : status[o] # "Pending" => status'[o] # "Pending"
  BY <1>1, <1>3 DEF Reflect, WriteAnswer, KeepStatus
<1>4. ASSUME NEW u \in Orders, ReflectCancel(u)
      PROVE  \A o \in Orders : status[o] # "Pending" => status'[o] # "Pending"
  BY <1>2, <1>4 DEF ReflectCancel, FinishCancel
<1>5. ASSUME NEW t \in Trades, RecordTrade(t)
      PROVE  \A o \in Orders : status[o] # "Pending" => status'[o] # "Pending"
  BY <1>1, <1>5, LifecycleAssumption DEF RecordTrade, FirstDelivery
<1>6. CASE ApplyEvent
  BY <1>2, <1>6, FirstEvent DEF ApplyEvent
<1>7. ASSUME NEW u \in Orders,
             \/ Accept(u) \/ Reject(u) \/ AnswerDuplicate(u) \/ Expire(u)
             \/ InsertOrder(u) \/ Send(u) \/ AttemptFails(u) \/ ReflectLost(u)
             \/ RequestCancel(u) \/ ReflectCancelLost(u) \/ CancelAnswerLost(u)
      PROVE  UNCHANGED status
  BY <1>7 DEF Accept, Reject, AnswerDuplicate, Expire, InsertOrder, Send, AttemptFails,
              ReflectLost, RequestCancel, ReflectCancelLost, CancelAnswerLost
<1>8. ASSUME NEW t \in Trades, Match(t) PROVE UNCHANGED status
  BY <1>8 DEF Match
<1>9. CASE LoseEvent \/ Crash \/ UNCHANGED vars
  BY <1>9 DEF LoseEvent, Crash, vars
<1> HIDE DEF Typed, TypeOK
<1> QED
  BY <1>3, <1>4, <1>5, <1>6, <1>7, <1>8, <1>9, NextCases

\* No answer, event or trade, however late, makes a row Pending again
\* (order.go:191-194).
THEOREM RowsStayOutOfPending == Spec => NeverBackToPending
<1>1. Typed /\ [Next]_vars
        => [\A o \in Orders : status[o] # "Pending" => status'[o] # "Pending"]_vars
  BY PendingIsLeftForGood
<1> QED
  BY <1>1, TypedInit, TypedStep, PTL DEF Spec, NeverBackToPending

-----------------------------------------------------------------------------
(* What the trades of an order leave of it *)

LEMMA VolumeIsTotal ==
    ASSUME NEW S
    PROVE  Volume(S) = Total(Fill, S)
BY DEF Volume, Total

LEMMA VolumeOfNone == Volume({}) = 0
BY VolumeIsTotal, TotalEmpty

\* The more trades, the more volume.
LEMMA VolumeGrows ==
    ASSUME NEW o \in Orders, NEW S \in SUBSET Trades, NEW R \in SUBSET S
    PROVE  /\ Volume(Of(R, o)) \in Nat /\ Volume(Of(S, o)) \in Nat
           /\ Volume(Of(R, o)) <= Volume(Of(S, o))
<1>1. IsFiniteSet(Of(Trades, o))
  BY FillsAssumption DEF Of
<1>2. IsFiniteSet(Of(S, o)) /\ \A t \in Of(S, o) : Fill[t] \in Nat
  <2>1. Of(S, o) \in SUBSET Of(Trades, o)
    BY DEF Of
  <2>2. \A t \in Of(S, o) : Fill[t] \in Nat
    BY LifecycleAssumption DEF Of
  <2> QED BY <1>1, <2>1, <2>2, FS_Subset
<1>3. Of(R, o) \in SUBSET Of(S, o) /\ Of(S, o) \in SUBSET Of(S, o)
  BY DEF Of
<1> QED BY <1>2, <1>3, VolumeIsTotal, TotalGrows

\* One trade more is one fill more.
LEMMA VolumeOfOneMore ==
    ASSUME NEW S \in SUBSET Trades, NEW t \in Trades \ S
    PROVE  /\ Volume(Of(S \cup {t}, OrderOf[t])) = Volume(Of(S, OrderOf[t])) + Fill[t]
           /\ \A o \in Orders : o # OrderOf[t] => Of(S \cup {t}, o) = Of(S, o)
<1> DEFINE o == OrderOf[t]
<1>1. Of(S \cup {t}, o) = Of(S, o) \cup {t} /\ t \notin Of(S, o)
  BY DEF Of
<1>2. IsFiniteSet(Of(S, o))
  <2>1. IsFiniteSet(Of(Trades, o))
    <3>1. o \in Orders
      BY LifecycleAssumption
    <3> QED BY <3>1, FillsAssumption DEF Of
  <2>2. Of(S, o) \in SUBSET Of(Trades, o)
    BY DEF Of
  <2> QED BY <2>1, <2>2, FS_Subset
<1>3. Fill[t] \in Int /\ \A u \in Of(S, o) : Fill[u] \in Int
  BY LifecycleAssumption DEF Of
<1>4. Volume(Of(S, o) \cup {t}) = Volume(Of(S, o)) + Fill[t]
  BY <1>1, <1>2, <1>3, VolumeIsTotal, TotalOneMore
<1> QED BY <1>1, <1>4 DEF Of

\* The Core's book says what its trades leave of an order.
BookExact ==
    \A o \in Orders : /\ book[o] = None => Of(Matched, o) = {}
                      /\ book[o] # None => book[o].left = Unfilled(o)

\* A message says what the trades it comes after leave of its order.
Exact(m) == m.left = Qty[m.ref] - Volume(m.after)
SaidExact ==
    /\ \A i \in DOMAIN events : Exact(events[i])
    /\ \A o \in Orders : cancel[o] # None => Exact(cancel[o])

\* A row says what its stored trades leave of the order.
RowExact == \A o \in Orders \ outOfStep : remaining[o] = Qty[o] - Volume(Of(stored, o))

LEMMA ExactInit == Init => BookExact /\ SaidExact /\ RowExact
<1> SUFFICES ASSUME Init PROVE BookExact /\ SaidExact /\ RowExact
  OBVIOUS
<1>1. \A o \in Orders : Of(Matched, o) = {} /\ Of(stored, o) = {}
  BY DEF Init, Matched, Of
<1>2. \A o \in Orders : Qty[o] = Qty[o] - Volume({})
  BY VolumeOfNone, LifecycleAssumption
<1>3. events = <<>> /\ DOMAIN events = {}
  BY DEF Init
<1> QED BY <1>1, <1>2, <1>3 DEF Init, BookExact, SaidExact, RowExact

LEMMA BookStep == Typed /\ BookExact /\ [Next]_vars => BookExact'
<1> SUFFICES ASSUME Typed, BookExact, [Next]_vars PROVE BookExact'
  OBVIOUS
<1> USE DEF Typed, TypeOK, row, calls, core, history
<1>1. ASSUME NEW o \in Orders, Accept(o) PROVE BookExact'
  <2>1. PICK S \in SUBSET (Of(Trades, o) \ Matched), left \in 0 .. Qty[o] :
          LET now == ArrivedAs(o, S, left)
          IN  /\ left = Qty[o] - Volume(S)
              /\ book' = [book EXCEPT ![o] = [status |-> now, left |-> left]]
              /\ executed' = [t \in Matched \cup S |-> IF t \in S THEN now ELSE executed[t]]
    BY <1>1, Zenon DEF Accept
  <2>2. Of(Matched, o) = {} /\ Matched' = Matched \cup S
    BY <1>1, <2>1 DEF Accept, BookExact, Matched
  <2>3. Of(Matched', o) = S /\ \A u \in Orders : u # o => Of(Matched', u) = Of(Matched, u)
    BY <2>2 DEF Of
  <2>4. Unfilled(o)' = Qty[o] - Volume(S) /\ \A u \in Orders : u # o => Unfilled(u)' = Unfilled(u)
    BY <2>3 DEF Unfilled
  <2>5. book'[o].left = left /\ book'[o] # None /\ \A u \in Orders : u # o => book'[u] = book[u]
    BY <2>1
  <2>6. \A u \in Orders : u # o => Of(Matched, u)' = Of(Matched, u)
    BY <2>3 DEF Of
  <2> QED BY <2>1, <2>4, <2>5, <2>6 DEF BookExact
<1>2. ASSUME NEW t \in Trades, Match(t) PROVE BookExact'
  <2> DEFINE o == OrderOf[t]
             left == book[o].left - Fill[t]
             now == IF left = 0 THEN "Filled" ELSE "FilledPartially"
  <2>1. o \in Orders /\ book[o] # None /\ t \in Trades \ Matched
    BY <1>2, LifecycleAssumption DEF Match
  <2>2. /\ book' = [book EXCEPT ![o] = [status |-> now, left |-> left]]
        /\ executed' = [u \in Matched \cup {t} |-> IF u = t THEN now ELSE executed[u]]
    BY <1>2 DEF Match
  <2> HIDE DEF now
  <2>3. Matched' = Matched \cup {t}
    BY <2>2 DEF Matched
  <2>4. /\ Volume(Of(Matched', o)) = Volume(Of(Matched, o)) + Fill[t]
        /\ \A u \in Orders : u # o => Of(Matched', u) = Of(Matched, u)
    BY <2>1, <2>3, VolumeOfOneMore
  <2>5. Volume(Of(Matched, o)) \in Int /\ Fill[t] \in Int /\ Qty[o] \in Int
    <3>1. Matched \in SUBSET Trades /\ Matched \in SUBSET Matched
      OBVIOUS
    <3> HIDE DEF o
    <3>2. Volume(Of(Matched, o)) \in Nat
      BY <2>1, <3>1, VolumeGrows, Zenon
    <3> QED BY <2>1, <3>2, LifecycleAssumption
  <2>6. left = Qty[o] - Volume(Of(Matched', o))
    <3>1. book[o].left = Qty[o] - Volume(Of(Matched, o))
      BY <2>1, Zenon DEF BookExact, Unfilled
    <3> HIDE DEF Typed, TypeOK
    <3> QED BY <2>4, <2>5, <3>1
  <2>7. /\ book'[o].left = left /\ book'[o] # None
        /\ \A u \in Orders : u # o => book'[u] = book[u]
    BY <2>1, <2>2
  <2>8. /\ Unfilled(o)' = left
        /\ \A u \in Orders : u # o => Unfilled(u)' = Unfilled(u) /\ Of(Matched, u)' = Of(Matched, u)
    BY <2>4, <2>6 DEF Unfilled, Of
  <2> HIDE DEF o, left
  <2> QED BY <2>7, <2>8 DEF BookExact
<1>3. ASSUME NEW o \in Orders, NEW why, NEW partially, Close(o, why, partially), UNCHANGED executed
      PROVE  BookExact'
  <2>1. book[o] \in [status : Open \cup Closed, left : Nat]
    BY <1>3 DEF Close
  <2>2. /\ book'[o].left = book[o].left
        /\ \A u \in Orders : (book'[u] = None => book[u] = None) /\ (u # o => book'[u] = book[u])
    BY <1>3, <2>1 DEF Close
  <2>3. book[o] # None
    BY <2>1
  <2>4. \A u \in Orders : Unfilled(u)' = Unfilled(u) /\ Of(Matched, u)' = Of(Matched, u)
    BY <1>3 DEF Unfilled, Of, Matched
  <2> QED BY <2>2, <2>3, <2>4 DEF BookExact
<1>4. ASSUME NEW o \in Orders, Expire(o) \/ RequestCancel(o) PROVE BookExact'
  BY <1>3, <1>4 DEF Expire, RequestCancel
<1>5. ASSUME UNCHANGED core PROVE BookExact'
  BY <1>5 DEF BookExact, Unfilled, Of, Matched
<1>6. ASSUME NEW o \in Orders,
             \/ Reject(o) \/ AnswerDuplicate(o) \/ InsertOrder(o) \/ Send(o)
             \/ AttemptFails(o) \/ Reflect(o) \/ ReflectLost(o) \/ ReflectCancel(o)
             \/ ReflectCancelLost(o) \/ CancelAnswerLost(o)
      PROVE  UNCHANGED core
  BY <1>6 DEF Reject, AnswerDuplicate, InsertOrder, Send, AttemptFails, Reflect, ReflectLost,
              ReflectCancel, ReflectCancelLost, CancelAnswerLost, FinishCancel
<1>7. ASSUME NEW t \in Trades, RecordTrade(t) PROVE UNCHANGED core
  BY <1>7 DEF RecordTrade
<1>8. CASE ApplyEvent \/ LoseEvent \/ Crash \/ UNCHANGED vars
  <2>1. UNCHANGED core
    BY <1>8 DEF ApplyEvent, LoseEvent, Crash, vars
  <2> QED BY <1>5, <2>1
<1> HIDE DEF Typed, TypeOK, row, calls, core, history
<1> QED BY <1>1, <1>2, <1>4, <1>5, <1>6, <1>7, <1>8, NextCases

LEMMA OneMoreSaid ==
    ASSUME Typed, SaidExact, NEW m, Exact(m), events' = Append(events, m)
    PROVE  \A i \in DOMAIN events' : Exact(events'[i])
<1>1. events \in Seq(Message)
  BY DEF Typed, TypeOK
<1>2. /\ DOMAIN events = 1 .. Len(events) /\ Len(events) \in Nat
      /\ DOMAIN events' = 1 .. Len(events) + 1
      /\ \A i \in DOMAIN events : events'[i] = events[i]
      /\ events'[Len(events) + 1] = m
  BY <1>1
<1> QED BY <1>2 DEF SaidExact

LEMMA OneSaidLess ==
    ASSUME Typed, SaidExact, events # <<>>, events' = Tail(events)
    PROVE  Exact(Head(events)) /\ \A i \in DOMAIN events' : Exact(events'[i])
<1>1. events \in Seq(Message)
  BY DEF Typed, TypeOK
<1>2. /\ DOMAIN events = 1 .. Len(events) /\ Len(events) \in Nat \ {0}
      /\ DOMAIN events' = 1 .. Len(events) - 1
      /\ \A i \in DOMAIN events' : events'[i] = events[i + 1]
      /\ Head(events) = events[1]
  BY <1>1, HeadTailProperties
<1> QED BY <1>2 DEF SaidExact

LEMMA SaidStep == Typed /\ BookExact /\ SaidExact /\ [Next]_vars => SaidExact'
<1> SUFFICES ASSUME Typed, BookExact, SaidExact, [Next]_vars PROVE SaidExact'
  OBVIOUS
<1>1. ASSUME UNCHANGED cancel, \A i \in DOMAIN events' : Exact(events'[i]) PROVE SaidExact'
  BY <1>1 DEF SaidExact, Exact
<1>2. ASSUME UNCHANGED <<cancel, events>> PROVE SaidExact'
  BY <1>2 DEF SaidExact, Exact
<1>3. ASSUME NEW o \in Orders, NEW now, NEW left, NEW S, left = Qty[o] - Volume(S),
             MayTell(o, now, left, S) \/ Tell(o, now, left, S), UNCHANGED cancel
      PROVE  SaidExact'
  <2>1. Exact(Said(o, now, left, S))
    BY <1>3 DEF Exact, Said
  <2>2. events' = Append(events, Said(o, now, left, S)) \/ UNCHANGED events
    BY <1>3 DEF MayTell, Tell
  <2> QED BY <1>1, <1>2, <1>3, <2>1, <2>2, OneMoreSaid
<1>4. ASSUME NEW o \in Orders, Accept(o) PROVE SaidExact'
  <2>1. PICK S \in SUBSET (Of(Trades, o) \ Matched), left \in 0 .. Qty[o] :
          LET now == ArrivedAs(o, S, left)
          IN  /\ left = Qty[o] - Volume(S)
              /\ IF S = {} THEN UNCHANGED events ELSE MayTell(o, now, left, S)
    BY <1>4, Zenon DEF Accept
  <2>2. UNCHANGED cancel
    BY <1>4 DEF Accept
  <2> DEFINE now == ArrivedAs(o, S, left)
  <2>3. left = Qty[o] - Volume(S) /\ MayTell(o, now, left, S)
    BY <2>1 DEF MayTell
  <2> HIDE DEF now
  <2> QED BY <1>3, <2>2, <2>3
<1>5. ASSUME NEW t \in Trades, Match(t) PROVE SaidExact'
  <2> DEFINE o == OrderOf[t]
             left == book[o].left - Fill[t]
             now == IF left = 0 THEN "Filled" ELSE "FilledPartially"
             S == Of(Matched, o) \cup {t}
  <2>1. o \in Orders /\ book[o] # None /\ t \in Trades \ Matched /\ UNCHANGED cancel
    BY <1>5, LifecycleAssumption DEF Match, calls
  <2>2. MayTell(o, now, left, S)
    BY <1>5 DEF Match
  <2>3. left = Qty[o] - Volume(S)
    <3>1. Matched \in SUBSET Trades /\ Matched \in SUBSET Matched
      BY DEF Typed, TypeOK
    <3>2. S = Of(Matched \cup {t}, o)
      BY DEF Of
    <3>3. Volume(S) = Volume(Of(Matched, o)) + Fill[t]
      BY <2>1, <3>1, <3>2, VolumeOfOneMore
    <3>4. book[o].left = Qty[o] - Volume(Of(Matched, o))
      BY <2>1, Zenon DEF BookExact, Unfilled
    <3>5. Volume(Of(Matched, o)) \in Nat
      <4> HIDE DEF o
      <4> QED BY <2>1, <3>1, VolumeGrows, Zenon
    <3>6. Qty[o] \in Int /\ Fill[t] \in Int
      BY <2>1, LifecycleAssumption
    <3> HIDE DEF S
    <3> QED BY <3>3, <3>4, <3>5, <3>6
  <2> HIDE DEF o, left, now, S
  <2> QED BY <1>3, <2>1, <2>2, <2>3
<1>6. ASSUME NEW o \in Orders, NEW why, NEW partially, Close(o, why, partially)
      PROVE  /\ book[o].left = Qty[o] - Volume(Of(Matched, o))
             /\ \E now : Tell(o, now, book[o].left, Of(Matched, o))
  <2>1. book[o] # None /\ \E now : Tell(o, now, book[o].left, Of(Matched, o))
    BY <1>6 DEF Close
  <2> QED BY <2>1 DEF BookExact, Unfilled
<1>7. ASSUME NEW o \in Orders, Expire(o) PROVE SaidExact'
  <2>1. UNCHANGED cancel /\ Close(o, "Expired", "ExpiredPartially")
    BY <1>7 DEF Expire, calls
  <2> QED BY <1>3, <1>6, <2>1
<1>8. ASSUME NEW o \in Orders, RequestCancel(o) PROVE SaidExact'
  <2>1. /\ Close(o, "Cancelled", "CancelledPartially")
        /\ cancel' = [cancel EXCEPT ![o] = Said(o, book'[o].status, book[o].left, Of(Matched, o))]
    BY <1>8 DEF RequestCancel
  <2>2. PICK now : Tell(o, now, book[o].left, Of(Matched, o))
    BY <1>6, <2>1
  <2>3. book[o].left = Qty[o] - Volume(Of(Matched, o))
    BY <1>6, <2>1
  <2>4. Exact(Said(o, now, book[o].left, Of(Matched, o)))
    BY <2>3 DEF Exact, Said
  <2>5. \A i \in DOMAIN events' : Exact(events'[i])
    BY <2>2, <2>4, OneMoreSaid DEF Tell
  <2>6. Exact(Said(o, book'[o].status, book[o].left, Of(Matched, o)))
    BY <2>3 DEF Exact, Said
  <2>7. \A u \in Orders : cancel'[u] # None => Exact(cancel'[u])
    BY <2>1, <2>6 DEF SaidExact, Typed, TypeOK
  <2> QED BY <2>5, <2>7 DEF SaidExact, Exact
<1>9. ASSUME NEW o \in Orders, FinishCancel(o) \/ CancelAnswerLost(o) PROVE SaidExact'
  <2>1. UNCHANGED events /\ \A u \in Orders : cancel'[u] # None => cancel'[u] = cancel[u]
    BY <1>9 DEF FinishCancel, CancelAnswerLost, Typed, TypeOK
  <2> QED BY <2>1 DEF SaidExact, Exact
<1>10. ASSUME NEW o \in Orders, ReflectCancel(o) \/ ReflectCancelLost(o) PROVE SaidExact'
  BY <1>9, <1>10 DEF ReflectCancel, ReflectCancelLost
<1>11. ASSUME NEW o \in Orders,
             \/ Reject(o) \/ AnswerDuplicate(o) \/ InsertOrder(o) \/ Send(o)
             \/ AttemptFails(o) \/ Reflect(o) \/ ReflectLost(o)
      PROVE  UNCHANGED <<cancel, events>>
  BY <1>11 DEF Reject, AnswerDuplicate, InsertOrder, Send, AttemptFails, Reflect, ReflectLost
<1>12. ASSUME NEW t \in Trades, RecordTrade(t) PROVE UNCHANGED <<cancel, events>>
  BY <1>12 DEF RecordTrade, calls
<1>13. CASE ApplyEvent \/ LoseEvent
  <2>1. UNCHANGED cancel /\ events # <<>> /\ events' = Tail(events)
    BY <1>13 DEF ApplyEvent, LoseEvent, calls
  <2> QED BY <1>1, <2>1, OneSaidLess
<1>14. CASE Crash
  BY <1>14 DEF Crash, SaidExact
<1>15. CASE UNCHANGED vars
  BY <1>2, <1>15 DEF vars, calls
<1> QED BY <1>2, <1>4, <1>5, <1>7, <1>8, <1>9, <1>10, <1>11, <1>12, <1>13, <1>14, <1>15, NextCases

\* A row takes over what a message says.
LEMMA TakenOverExact ==
    ASSUME Typed, RowExact, NEW m \in Message, Exact(m), TakeOver(m), UNCHANGED stored
    PROVE  RowExact'
<1>1. /\ m.ref \in Orders
      /\ remaining' = [remaining EXCEPT ![m.ref] = m.left]
      /\ outOfStep' = IF m.after = Of(stored, m.ref) THEN outOfStep ELSE outOfStep \cup {m.ref}
  BY DEF TakeOver, Message
<1>2. ASSUME NEW o \in Orders, o \notin outOfStep'
      PROVE  remaining'[o] = Qty[o] - Volume(Of(stored, o))
  <2>1. CASE o = m.ref
    BY <1>1, <1>2, <2>1 DEF Exact, Typed, TypeOK
  <2>2. CASE o # m.ref
    BY <1>1, <1>2, <2>2 DEF RowExact, Typed, TypeOK
  <2> QED BY <2>1, <2>2
<1> QED BY <1>2 DEF RowExact, Of

LEMMA RowStep == Typed /\ BookExact /\ SaidExact /\ RowExact /\ [Next]_vars => RowExact'
<1> SUFFICES ASSUME Typed, BookExact, SaidExact, RowExact, [Next]_vars PROVE RowExact'
  OBVIOUS
<1>1. ASSUME UNCHANGED <<remaining, stored, outOfStep>> PROVE RowExact'
  BY <1>1 DEF RowExact, Of
<1>2. ASSUME NEW o \in Orders, ReflectCancel(o) PROVE RowExact'
  <2>1. cancel[o] \in Message /\ Exact(cancel[o])
    BY <1>2 DEF ReflectCancel, FinishCancel, SaidExact, Typed, TypeOK
  <2>2. TakeOver(cancel[o]) /\ UNCHANGED stored
    BY <1>2 DEF ReflectCancel, FinishCancel
  <2> QED BY <2>1, <2>2, TakenOverExact
<1>3. CASE ApplyEvent
  <2>1. events # <<>> /\ events' = Tail(events) /\ TakeOver(Head(events)) /\ UNCHANGED stored
    BY <1>3 DEF ApplyEvent
  <2>2. Head(events) \in Message /\ Exact(Head(events))
    BY <2>1, FirstEvent, OneSaidLess DEF Typed, TypeOK
  <2> QED BY <2>1, <2>2, TakenOverExact
<1>4. ASSUME NEW t \in Trades, RecordTrade(t) PROVE RowExact'
  <2> DEFINE o == OrderOf[t]
             after == remaining[o] - Fill[t]
  <2>1. /\ t \in Matched /\ t \in Trades \ stored /\ stored' = stored \cup {t}
        /\ remaining' = [remaining EXCEPT ![o] = IF after > 0 THEN after ELSE 0]
        /\ UNCHANGED outOfStep
    BY <1>4 DEF RecordTrade, FirstDelivery
  <2>2. o \in Orders /\ Qty[o] \in Nat /\ Fill[t] \in Nat
    BY LifecycleAssumption
  <2>3. /\ stored \in SUBSET Trades /\ stored \cup {t} \in SUBSET Matched
        /\ Matched \in SUBSET Trades /\ Matched \in SUBSET Matched
    BY <2>1 DEF Typed, TypeOK
  <2>4. /\ Volume(Of(stored \cup {t}, o)) = Volume(Of(stored, o)) + Fill[t]
        /\ \A u \in Orders : u # o => Of(stored \cup {t}, u) = Of(stored, u)
    BY <2>1, <2>3, VolumeOfOneMore
  <2>5. /\ Volume(Of(stored \cup {t}, o)) \in Nat /\ Volume(Of(Matched, o)) \in Nat
        /\ Volume(Of(stored \cup {t}, o)) <= Volume(Of(Matched, o))
    <3> HIDE DEF o
    <3> QED BY <2>2, <2>3, VolumeGrows, Zenon
  <2>6. Volume(Of(stored, o)) \in Nat
    <3>1. stored \in SUBSET stored
      OBVIOUS
    <3> HIDE DEF o
    <3> QED BY <2>2, <2>3, <3>1, VolumeGrows, Zenon
  <2>7. book[o].left = Qty[o] - Volume(Of(Matched, o)) /\ book[o].left \in Nat
    <3>1. Of(Matched, o) # {}
      BY <2>1 DEF Of
    <3>2. book[o] # None
      BY <2>2, <3>1 DEF BookExact
    <3>3. book[o].left \in Nat
      BY <2>2, <3>2 DEF Typed, TypeOK
    <3> QED BY <2>2, <3>2, <3>3 DEF BookExact, Unfilled
  <2>8. ASSUME o \notin outOfStep PROVE remaining'[o] = Qty[o] - Volume(Of(stored \cup {t}, o))
    <3>1. remaining[o] = Qty[o] - Volume(Of(stored, o))
      BY <2>2, <2>8 DEF RowExact
    <3>2. after = Qty[o] - Volume(Of(stored \cup {t}, o))
      BY <2>2, <2>4, <2>6, <3>1
    <3>3. after >= 0
      BY <2>2, <2>5, <2>7, <3>2
    <3>4. remaining'[o] = IF after > 0 THEN after ELSE 0
      <4> HIDE DEF after
      <4> QED BY <2>1, <2>2 DEF Typed, TypeOK
    <3>5. after \in Int
      BY <2>2, <2>5, <3>2
    <3> HIDE DEF after
    <3> QED BY <3>2, <3>3, <3>4, <3>5
  <2>9. ASSUME NEW u \in Orders, u \notin outOfStep, u # o
        PROVE  remaining'[u] = Qty[u] - Volume(Of(stored \cup {t}, u))
    <3>1. remaining'[u] = remaining[u]
      BY <2>1, <2>9 DEF Typed, TypeOK
    <3> QED BY <2>4, <2>9, <3>1 DEF RowExact
  <2> QED BY <2>1, <2>8, <2>9 DEF RowExact, Of
<1>5. ASSUME NEW o \in Orders,
             \/ Accept(o) \/ Reject(o) \/ AnswerDuplicate(o) \/ Expire(o)
             \/ InsertOrder(o) \/ Send(o) \/ AttemptFails(o)
             \/ Reflect(o) \/ ReflectLost(o)
             \/ RequestCancel(o) \/ ReflectCancelLost(o) \/ CancelAnswerLost(o)
      PROVE  UNCHANGED <<remaining, stored, outOfStep>>
  BY <1>5 DEF Accept, Reject, AnswerDuplicate, Expire, InsertOrder, Send, AttemptFails, Reflect,
              ReflectLost, RequestCancel, ReflectCancelLost, CancelAnswerLost, FinishCancel,
              row, history
<1>6. ASSUME NEW t \in Trades, Match(t) PROVE UNCHANGED <<remaining, stored, outOfStep>>
  BY <1>6 DEF Match, row, history
<1>7. CASE LoseEvent \/ Crash \/ UNCHANGED vars
  <2>1. UNCHANGED <<remaining, stored, outOfStep>>
    BY <1>7 DEF LoseEvent, Crash, vars, row, history
  <2> QED BY <1>1, <2>1
<1> QED BY <1>1, <1>2, <1>3, <1>4, <1>5, <1>6, <1>7, NextCases

\* The row of an order is never out by a fill: it has left exactly what its
\* stored trades leave of the order, whatever comes late, twice or not at all,
\* unless an event or a cancel wrote what other trades leave of it.
THEOREM RowFollowsItsTrades == Spec => []RowExact
<1>1. Init => BookExact /\ SaidExact /\ RowExact
  BY ExactInit
<1> QED
  BY <1>1, TypedInit, TypedStep, BookStep, SaidStep, RowStep, PTL DEF Spec

\* So no filled volume is counted twice in it (order.go:171-175) ...
THEOREM VolumeIsCountedOnce == Spec => []CountedTwiceOnlyOutOfStep
<1>1. Typed /\ RowExact => CountedTwiceOnlyOutOfStep
  <2> SUFFICES ASSUME Typed, RowExact, NEW o \in Orders, o \notin outOfStep
               PROVE  remaining[o] >= Unfilled(o)
    BY DEF CountedTwiceOnlyOutOfStep
  <2>1. stored \in SUBSET Matched /\ Matched \in SUBSET Trades
    BY DEF Typed, TypeOK
  <2>2. /\ Volume(Of(stored, o)) \in Nat /\ Volume(Of(Matched, o)) \in Nat
        /\ Volume(Of(stored, o)) <= Volume(Of(Matched, o))
    BY <2>1, VolumeGrows, Zenon
  <2>3. remaining[o] = Qty[o] - Volume(Of(stored, o)) /\ Qty[o] \in Nat
    BY LifecycleAssumption DEF RowExact
  <2> QED BY <2>2, <2>3 DEF Unfilled
<1> QED
  BY <1>1, TypedInit, TypedStep, RowFollowsItsTrades, PTL DEF Spec

\* ... and once all its trades are stored it has left what the Core has
\* (order.go:407-410, trade.go:307-314).
THEOREM StoredRowsAgree == Spec => []StoredRowAgrees
<1>1. Typed /\ BookExact /\ RowExact => StoredRowAgrees
  <2> SUFFICES ASSUME Typed, BookExact, RowExact, NEW o \in Orders, o \notin outOfStep,
                      Of(Matched, o) \subseteq stored, book[o] # None
               PROVE  remaining[o] = book[o].left
    BY DEF StoredRowAgrees
  <2>1. Of(stored, o) = Of(Matched, o)
    BY DEF Of, Typed, TypeOK
  <2> QED BY <2>1 DEF BookExact, RowExact, Unfilled
<1>2. Init => BookExact
  BY ExactInit
<1> QED
  BY <1>1, <1>2, TypedInit, TypedStep, BookStep, RowFollowsItsTrades, PTL DEF Spec
=============================================================================
