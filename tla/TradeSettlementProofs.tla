----------------------- MODULE TradeSettlementProofs -----------------------
(***************************************************************************)
(* Proofs about TradeSettlement for any number of trades, orders, streams, *)
(* recoveries and retries, and any number of faults.                       *)
(***************************************************************************)
EXTENDS TradeSettlement, InductionFacts

\* The part of IInv that only says where the state lives.
Typed == TypeOK /\ HoldsTrade /\ OwnLabels

\* The rest of IInv: what the state of the workers, the rows, the ack flow and
\* the partner's books say of one another.
Sound == InsertsAlone /\ HandlesKnown /\ FlagsAgree /\ AckedIsStored /\ MovedAsCalculated

USE DEF Workers, Persisters

\* What a step can be, action by action.
LEMMA NextCases ==
    ASSUME [Next]_vars
    PROVE  \/ \E t \in Trades : Execute(t)
           \/ \E w \in Streams : \E t \in Trades : ReceiveAck(w, t) \/ Recv(w, t)
           \/ \E w \in Persisters :
                \/ NotComputed(w) \/ InsertTrade(w) \/ DecrementOrder(w)
                \/ CommitFirst(w) \/ ReadSettled(w) \/ PersistFails(w) \/ CommitUnsure(w)
           \/ \E w \in Workers :
                \/ HandlerPays(w) \/ RecordFailure(w)
                \/ AttemptsOverflow(w) \/ MarkSettled(w) \/ HandlerFails(w)
                \/ SettleUpdateLost(w)
           \/ \E w \in Streams :
                \/ OpenStream(w) \/ SendAck(w) \/ MarkAck(w)
                \/ StreamBreaks(w)
           \/ \E w \in Pullers :
                \/ PullDay(w) \/ NextPulled(w) \/ DayDone(w) \/ RecoverDone(w)
                \/ PullFails(w) \/ StartRecover(w)
           \/ \E w \in Retriers :
                \/ StartRetry(w) \/ NextUnsettled(w) \/ RetryDone(w)
                \/ SkipUnsettled(w)
           \/ Crash
           \/ UNCHANGED vars
<1>1. CASE CoreStep
  BY <1>1 DEF CoreStep
<1>2. ASSUME NEW w \in Workers, Step(w)
      PROVE  \/ \E v \in Persisters : Persist(v)
             \/ Settle(w)
             \/ \E v \in Streams : StreamStep(v)
             \/ \E v \in Pullers : PullStep(v)
             \/ \E v \in Retriers : RetryStep(v)
  BY <1>2 DEF Step
<1>3. CASE \E w \in Workers : Step(w)
  BY <1>2, <1>3 DEF Persist, Settle, StreamStep, PullStep, RetryStep
<1>4. CASE \E w \in Workers : Trouble(w)
  BY <1>4 DEF Trouble
<1> QED
  BY <1>1, <1>3, <1>4 DEF Next

\* Rounding gives a whole number of steps, which a column holds as it is.
LEMMA MicroType == Micro \in Nat \ {0}
<1>1. Unit * Unit \in Nat \ {0}
  BY AmountsAssumption
<1> QED BY <1>1, AmountsAssumption DEF Micro

LEMMA RoundBankType ==
    ASSUME NEW v \in Int
    PROVE  \E k \in Int : RoundBank(v) = Micro * k
<1>1. v \div Micro \in Int /\ (v \div Micro) + 1 \in Int
  BY MicroType
<1> QED BY <1>1 DEF RoundBank

LEMMA CalType ==
    ASSUME NEW q \in Nat, NEW p \in Nat, NEW s \in Sides, NEW f \in Fees, Computable(f)
    PROVE  /\ Cal(q, p, s, f) \in Movement
           /\ \E k \in Int : Cal(q, p, s, f).settlement = Micro * k
           /\ \E k \in Int : Cal(q, p, s, f).fee = Micro * k
<1> DEFINE m == q * p
           fee == Percentage(m, Fixed(f))
           gross == 100 * Unit * m
           due == IF s = "buy" THEN gross + fee ELSE gross - fee
<1>1. m \in Nat /\ Fixed(f) \in Nat
  BY AmountsAssumption DEF Fixed, Fees, Computable
<1>2. m * Fixed(f) \in Int /\ gross \in Int
  BY <1>1, AmountsAssumption
<1>3. PICK k \in Int : fee = Micro * k
  BY <1>2, RoundBankType DEF Percentage
<1>4. fee \in Int
  BY <1>3, MicroType
<1>5. due \in Int
  BY <1>2, <1>4
<1>6. PICK j \in Int : RoundBank(due) = Micro * j
  BY <1>5, RoundBankType
<1>7. RoundBank(due) \in Int
  BY <1>6, MicroType
<1>8. Cal(q, p, s, f) = [settlement |-> RoundBank(due), fee |-> fee]
  BY DEF Cal
<1> HIDE DEF fee, due
<1> QED BY <1>3, <1>4, <1>6, <1>7, <1>8 DEF Movement

\* What the handler is given, on any path, is a movement.
LEMMA AmountType ==
    ASSUME NEW t \in Storable
    PROVE  /\ Amount(t) \in Movement
           /\ \E k \in Int : Amount(t).settlement = Micro * k
           /\ \E k \in Int : Amount(t).fee = Micro * k
           /\ Recomputed(t) = Amount(t)
<1> DEFINE o == OrderOf[t]
<1>1. /\ Fill[t] \in Nat /\ Rate[t] \in Nat
      /\ SideOf[o] \in Sides /\ FeeOf[o] \in Fees /\ Computable(FeeOf[o])
  BY TradeDataAssumption, SettlementAssumption DEF Storable
<1>2. Amount(t) = Cal(Fill[t], Rate[t], SideOf[o], FeeOf[o])
  BY DEF Amount
<1>3. Recomputed(t) = Amount(t)
  BY DEF Recomputed, Amount
<1> HIDE DEF o
<1> QED BY <1>1, <1>2, <1>3, CalType

LEMMA TypedInit == Init => Typed
<1> SUFFICES ASSUME Init PROVE Typed
  OBVIOUS
<1> USE TradeDataAssumption, SettlementAssumption
<1>1. TypeOK
  BY DEF Init, TypeOK, FreshOrders, OrderRow, Start, Labels, StreamLabels, PullLabels
<1>2. HoldsTrade
  BY DEF Init, HoldsTrade, Busy, Start, PersistLabels, SettleLabels
<1>3. OwnLabels
  BY DEF Init, OwnLabels, Start, StreamLabels, PullLabels, RetryLabels
<1> QED BY <1>1, <1>2, <1>3 DEF Typed

\* Every step keeps the types, a trade in the hand of every busy worker and
\* each path on its own labels.
LEMMA TypedStep == Typed /\ Sound /\ [Next]_vars => Typed'
<1> SUFFICES ASSUME Typed, Sound, [Next]_vars PROVE Typed'
  OBVIOUS
<1> USE TradeDataAssumption, SettlementAssumption
<1> USE DEF Typed, TypeOK, HoldsTrade, OwnLabels, Busy, Labels, StreamLabels,
        PullLabels, RetryLabels, PersistLabels, SettleLabels, core, flags, db,
        loop, At, Goto, Hold
<1>1. ASSUME NEW t \in Trades, Execute(t) PROVE Typed'
  BY <1>1 DEF Execute
<1>2. ASSUME NEW w \in Streams, NEW t \in Trades, ReceiveAck(w, t) PROVE Typed'
  BY <1>2 DEF ReceiveAck
<1>3. ASSUME NEW w \in Streams, NEW t \in Trades, Recv(w, t) PROVE Typed'
  BY <1>3 DEF Recv
<1>32. ASSUME NEW w \in Persisters, NotComputed(w) PROVE Typed'
  BY <1>32 DEF NotComputed, Continue
<1>4. ASSUME NEW w \in Persisters, InsertTrade(w) PROVE Typed'
  BY <1>4 DEF InsertTrade
<1>5. ASSUME NEW w \in Persisters, DecrementOrder(w) PROVE Typed'
  BY <1>5 DEF DecrementOrder
<1>6. ASSUME NEW w \in Persisters, CommitFirst(w) PROVE Typed'
  BY <1>6 DEF CommitFirst, Publish, Filled, Deduct, OrderRow
<1>7. ASSUME NEW w \in Persisters, ReadSettled(w) PROVE Typed'
  <2>1. CASE /\ w \in Streams
             /\ Goto(w, "send")
             /\ seen' = [seen EXCEPT ![w] = cur[w] \in settled]
             /\ UNCHANGED cur
    <3>1. (cur[w] \in settled) \in BOOLEAN
      OBVIOUS
    <3>2. seen' \in [Workers -> BOOLEAN]
      BY <2>1, <3>1, Zenon
    <3> QED BY <1>7, <2>1, <3>2 DEF ReadSettled
  <2>2. CASE w \in Pullers /\ Goto(w, "settle") /\ UNCHANGED <<seen, cur>>
    BY <1>7, <2>2 DEF ReadSettled
  <2>3. CASE w \in Pullers /\ Continue(w)
    BY <1>7, <2>3 DEF ReadSettled, Continue
  <2> QED BY <1>7, <2>1, <2>2, <2>3 DEF ReadSettled
<1>8. ASSUME NEW w \in Persisters, PersistFails(w) PROVE Typed'
  BY <1>8 DEF PersistFails, Continue, Fault
<1>9. ASSUME NEW w \in Persisters, CommitUnsure(w) PROVE Typed'
  BY <1>9 DEF CommitUnsure, Publish, Continue, Filled, Deduct, OrderRow, Fault
<1>33. ASSUME NEW w \in Workers, At(w, "settle")
       PROVE  Moved(w) \in [Trades -> SUBSET Movement]
  <2>1. cur[w] \in Storable
    BY <1>33 DEF Sound, HandlesKnown, FlagsAgree
  <2>2. Amount(cur[w]) \in Movement /\ Recomputed(cur[w]) \in Movement
    BY <2>1, AmountType
  <2> QED BY <2>2 DEF Moved
<1>10. ASSUME NEW w \in Workers, HandlerPays(w) PROVE Typed'
  <2>1. moves' \in [Trades -> SUBSET Movement]
    BY <1>10, <1>33 DEF HandlerPays
  <2> QED BY <1>10, <2>1 DEF HandlerPays
<1>11. ASSUME NEW w \in Workers, RecordFailure(w) PROVE Typed'
  BY <1>11 DEF RecordFailure, AttemptsLeft, Continue
<1>12. ASSUME NEW w \in Workers, AttemptsOverflow(w) PROVE Typed'
  BY <1>12 DEF AttemptsOverflow, Continue
<1>13. ASSUME NEW w \in Workers, MarkSettled(w) PROVE Typed'
  BY <1>13 DEF MarkSettled, Continue
<1>14. ASSUME NEW w \in Workers, HandlerFails(w) PROVE Typed'
  <2>1. moves' \in [Trades -> SUBSET Movement]
    BY <1>14, <1>33 DEF HandlerFails
  <2> QED BY <1>14, <2>1 DEF HandlerFails, Fault
<1>15. ASSUME NEW w \in Workers, SettleUpdateLost(w) PROVE Typed'
  BY <1>15 DEF SettleUpdateLost, Continue, Fault
<1>16. ASSUME NEW w \in Streams, OpenStream(w) PROVE Typed'
  BY <1>16 DEF OpenStream
<1>17. ASSUME NEW w \in Streams, SendAck(w) PROVE Typed'
  BY <1>17 DEF SendAck
<1>18. ASSUME NEW w \in Streams, MarkAck(w) PROVE Typed'
  <2>1. CASE Continue(w)
    BY <1>18, <2>1 DEF MarkAck, Continue
  <2>2. CASE Goto(w, "settle") /\ UNCHANGED <<cur, seen>>
    BY <1>18, <2>2 DEF MarkAck
  <2> QED BY <1>18, <2>1, <2>2 DEF MarkAck
<1>19. ASSUME NEW w \in Streams, StreamBreaks(w) PROVE Typed'
  BY <1>19 DEF StreamBreaks, Fault
<1>20. ASSUME NEW w \in Pullers, PullDay(w) PROVE Typed'
  BY <1>20 DEF PullDay
<1>21. ASSUME NEW w \in Pullers, NextPulled(w) PROVE Typed'
  BY <1>21 DEF NextPulled
<1>22. ASSUME NEW w \in Pullers, DayDone(w) PROVE Typed'
  BY <1>22 DEF DayDone
<1>23. ASSUME NEW w \in Pullers, RecoverDone(w) PROVE Typed'
  BY <1>23 DEF RecoverDone
<1>24. ASSUME NEW w \in Pullers, PullFails(w) PROVE Typed'
  BY <1>24 DEF PullFails, Fault
<1>25. ASSUME NEW w \in Pullers, StartRecover(w) PROVE Typed'
  <2>1. PICK from \in Days, to \in Days :
            daysLeft' = [daysLeft EXCEPT ![w] = from .. to]
    BY <1>25 DEF StartRecover
  <2>2. from .. to \subseteq Days
    BY DEF Days
  <2> QED BY <1>25, <2>1, <2>2 DEF StartRecover
<1>26. ASSUME NEW w \in Retriers, StartRetry(w) PROVE Typed'
  BY <1>26 DEF StartRetry
<1>27. ASSUME NEW w \in Retriers, NextUnsettled(w) PROVE Typed'
  BY <1>27 DEF NextUnsettled, Oldest
<1>28. ASSUME NEW w \in Retriers, RetryDone(w) PROVE Typed'
  BY <1>28 DEF RetryDone
<1>29. ASSUME NEW w \in Retriers, SkipUnsettled(w) PROVE Typed'
  BY <1>29 DEF SkipUnsettled, Fault, Oldest
<1>30. CASE Crash
  BY <1>30 DEF Crash, Fault, Start
<1>31. CASE UNCHANGED vars
  BY <1>31 DEF vars
<1> HIDE TradeDataAssumption, SettlementAssumption
<1> HIDE DEF Typed, TypeOK, HoldsTrade, OwnLabels, Busy, Labels, StreamLabels,
         PullLabels, RetryLabels, PersistLabels, SettleLabels, core, flags, db,
         loop, At, Goto, Hold, Workers, Persisters
<1> QED
  BY <1>1, <1>2, <1>3, <1>4, <1>5, <1>6, <1>7, <1>8, <1>9, <1>10,
     <1>11, <1>12, <1>13, <1>14, <1>15, <1>16, <1>17, <1>18, <1>19, <1>20,
     <1>21, <1>22, <1>23, <1>24, <1>25, <1>26, <1>27, <1>28, <1>29, <1>30,
     <1>31, <1>32, NextCases

LEMMA SoundInit == Init => Sound
BY SettlementAssumption
   DEF Init, Sound, InsertsAlone, HandlesKnown, FlagsAgree, AckedIsStored,
       MovedAsCalculated, SettledIsPaid, paid, Start, PersistLabels, SettleLabels

LEMMA SoundStep == Typed /\ Sound /\ [Next]_vars => Sound'
<1> SUFFICES ASSUME Typed, Sound, [Next]_vars PROVE Sound'
  OBVIOUS
<1> USE SettlementAssumption
<1> USE DEF Typed, TypeOK, HoldsTrade, OwnLabels, Busy, StreamLabels, PullLabels,
        RetryLabels, PersistLabels, SettleLabels, core, flags, db, loop, At, Goto,
        Hold, Sound, InsertsAlone, HandlesKnown, FlagsAgree, AckedIsStored,
        MovedAsCalculated, SettledIsPaid, paid
<1>1. ASSUME NEW t \in Trades, Execute(t) PROVE Sound'
  BY <1>1 DEF Execute
<1>2. ASSUME NEW w \in Streams, NEW t \in Trades, ReceiveAck(w, t) PROVE Sound'
  BY <1>2 DEF ReceiveAck
<1>3. ASSUME NEW w \in Streams, NEW t \in Trades, Recv(w, t) PROVE Sound'
  BY <1>3 DEF Recv
<1>32. ASSUME NEW w \in Persisters, NotComputed(w) PROVE Sound'
  BY <1>32 DEF NotComputed, Continue
<1>4. ASSUME NEW w \in Persisters, InsertTrade(w) PROVE Sound'
  BY <1>4 DEF InsertTrade, KeyHeld
<1>5. ASSUME NEW w \in Persisters, DecrementOrder(w) PROVE Sound'
  BY <1>5 DEF DecrementOrder
<1>6. ASSUME NEW w \in Persisters, CommitFirst(w) PROVE Sound'
  BY <1>6 DEF CommitFirst, Publish
<1>7. ASSUME NEW w \in Persisters, ReadSettled(w) PROVE Sound'
  BY <1>7 DEF ReadSettled, Continue
<1>8. ASSUME NEW w \in Persisters, PersistFails(w) PROVE Sound'
  BY <1>8 DEF PersistFails, Continue
<1>9. ASSUME NEW w \in Persisters, CommitUnsure(w) PROVE Sound'
  BY <1>9 DEF CommitUnsure, Publish, Continue
<1>33. ASSUME NEW w \in Workers, At(w, "settle")
       PROVE  Moved(w) = [moves EXCEPT ![cur[w]] = @ \cup {Amount(cur[w])}]
  BY <1>33, AmountType DEF Moved
<1>34. ASSUME NEW w \in Workers, At(w, "settle"), moves' = moves \/ moves' = Moved(w)
       PROVE  /\ paid' = paid \/ paid' = paid \cup {cur[w]}
              /\ MovedAsCalculated'
              /\ cur[w] \in stored
              /\ HasHandler /\ moves' = Moved(w) => cur[w] \in paid'
  <2>1. cur[w] \in Trades /\ cur[w] \in stored
    BY <1>34 DEF HandlesKnown
  <2>2. ASSUME moves' = Moved(w)
        PROVE  paid' = paid \cup {cur[w]} /\ MovedAsCalculated'
    <3>1. moves' = [moves EXCEPT ![cur[w]] = @ \cup {Amount(cur[w])}]
      BY <1>33, <1>34, <2>2
    <3>2. /\ moves'[cur[w]] = moves[cur[w]] \cup {Amount(cur[w])}
          /\ \A t \in Trades \ {cur[w]} : moves'[t] = moves[t]
      BY <3>1, <2>1
    <3>3. \A t \in Trades : t \in paid' <=> t \in paid \/ t = cur[w]
      BY <3>2, <2>1
    <3>4. paid' \subseteq Trades /\ paid \subseteq Trades
      OBVIOUS
    <3>5. MovedAsCalculated'
      BY <3>2, <2>1
    <3> HIDE DEF paid
    <3>6. paid' = paid \cup {cur[w]}
      BY <3>3, <3>4, <2>1
    <3> QED BY <3>5, <3>6
  <2>3. ASSUME moves' = moves
        PROVE  paid' = paid /\ MovedAsCalculated'
    BY <2>3
  <2> HIDE DEF paid, MovedAsCalculated
  <2> QED BY <1>34, <2>1, <2>2, <2>3
<1>10. ASSUME NEW w \in Workers, HandlerPays(w) PROVE Sound'
  <2>1. UNCHANGED <<executed, acked, ackNet, stored, order, settled, attempts, cur, seen, batch>>
    BY <1>10 DEF HandlerPays
  <2>2. /\ paid' = paid \/ paid' = paid \cup {cur[w]}
        /\ MovedAsCalculated'
        /\ cur[w] \in stored
        /\ HasHandler => cur[w] \in paid'
    BY <1>10, <1>34 DEF HandlerPays
  <2>3. pc' = [pc EXCEPT ![w] = "markSettled"]
    BY <1>10 DEF HandlerPays
  <2> HIDE DEF paid, MovedAsCalculated
  <2> QED BY <2>1, <2>2, <2>3
<1>11. ASSUME NEW w \in Workers, RecordFailure(w) PROVE Sound'
  BY <1>11 DEF RecordFailure, Continue
<1>12. ASSUME NEW w \in Workers, AttemptsOverflow(w) PROVE Sound'
  BY <1>12 DEF AttemptsOverflow, Continue
<1>13. ASSUME NEW w \in Workers, MarkSettled(w) PROVE Sound'
  BY <1>13 DEF MarkSettled, Continue
<1>14. ASSUME NEW w \in Workers, HandlerFails(w) PROVE Sound'
  <2>1. UNCHANGED <<executed, acked, ackNet, stored, order, settled, attempts, cur, seen, batch>>
    BY <1>14 DEF HandlerFails
  <2>2. /\ paid' = paid \/ paid' = paid \cup {cur[w]}
        /\ MovedAsCalculated'
        /\ cur[w] \in stored
    BY <1>14, <1>34 DEF HandlerFails
  <2>3. pc' = [pc EXCEPT ![w] = "recordFail"]
    BY <1>14 DEF HandlerFails
  <2> HIDE DEF paid, MovedAsCalculated
  <2> QED BY <2>1, <2>2, <2>3
<1>15. ASSUME NEW w \in Workers, SettleUpdateLost(w) PROVE Sound'
  BY <1>15 DEF SettleUpdateLost, Continue
<1>16. ASSUME NEW w \in Streams, OpenStream(w) PROVE Sound'
  BY <1>16 DEF OpenStream
<1>17. ASSUME NEW w \in Streams, SendAck(w) PROVE Sound'
  BY <1>17 DEF SendAck
<1>18. ASSUME NEW w \in Streams, MarkAck(w) PROVE Sound'
  BY <1>18 DEF MarkAck, Continue
<1>19. ASSUME NEW w \in Streams, StreamBreaks(w) PROVE Sound'
  BY <1>19 DEF StreamBreaks
<1>20. ASSUME NEW w \in Pullers, PullDay(w) PROVE Sound'
  BY <1>20 DEF PullDay
<1>21. ASSUME NEW w \in Pullers, NextPulled(w) PROVE Sound'
  BY <1>21 DEF NextPulled
<1>22. ASSUME NEW w \in Pullers, DayDone(w) PROVE Sound'
  BY <1>22 DEF DayDone
<1>23. ASSUME NEW w \in Pullers, RecoverDone(w) PROVE Sound'
  BY <1>23 DEF RecoverDone
<1>24. ASSUME NEW w \in Pullers, PullFails(w) PROVE Sound'
  BY <1>24 DEF PullFails
<1>25. ASSUME NEW w \in Pullers, StartRecover(w) PROVE Sound'
  BY <1>25 DEF StartRecover
<1>26. ASSUME NEW w \in Retriers, StartRetry(w) PROVE Sound'
  BY <1>26 DEF StartRetry
<1>27. ASSUME NEW w \in Retriers, NextUnsettled(w) PROVE Sound'
  BY <1>27 DEF NextUnsettled, Oldest
<1>28. ASSUME NEW w \in Retriers, RetryDone(w) PROVE Sound'
  BY <1>28 DEF RetryDone
<1>29. ASSUME NEW w \in Retriers, SkipUnsettled(w) PROVE Sound'
  BY <1>29 DEF SkipUnsettled
<1>30. CASE Crash
  BY <1>30 DEF Crash, Start
<1>31. CASE UNCHANGED vars
  BY <1>31 DEF vars
<1> HIDE SettlementAssumption
<1> HIDE DEF Typed, TypeOK, HoldsTrade, OwnLabels, Busy, StreamLabels, PullLabels,
         RetryLabels, PersistLabels, SettleLabels, core, flags, db, loop, At, Goto,
         Hold, Sound, InsertsAlone, HandlesKnown, FlagsAgree, AckedIsStored,
         MovedAsCalculated, SettledIsPaid, paid, Workers, Persisters
<1> QED
  BY <1>1, <1>2, <1>3, <1>4, <1>5, <1>6, <1>7, <1>8, <1>9, <1>10,
     <1>11, <1>12, <1>13, <1>14, <1>15, <1>16, <1>17, <1>18, <1>19, <1>20,
     <1>21, <1>22, <1>23, <1>24, <1>25, <1>26, <1>27, <1>28, <1>29, <1>30,
     <1>31, <1>32, NextCases

\* IInv holds of every reachable state, and is inductive: whoever is past
\* persistTrade holds a stored trade, no two open transactions insert the same
\* key, no ack is under way for a trade without a row and no flag claims a
\* payment that was not made (trade.go:50-65, 280-324).
THEOREM Inductive == SafeSpec => []IInv
<1>1. Typed /\ Sound <=> IInv
  BY DEF Typed, Sound, IInv
<1>2. Init => IInv
  BY <1>1, TypedInit, SoundInit
<1>3. IInv /\ [Next]_vars => IInv'
  BY <1>1, TypedStep, SoundStep DEF Typed, Sound, IInv
<1> QED BY <1>2, <1>3, PTL DEF SafeSpec

\* Type correctness (TypeOK) for every value of the constants.
THEOREM TypeCorrect == SafeSpec => []TypeOK
<1>1. IInv => TypeOK
  BY DEF IInv
<1> QED BY Inductive, <1>1, PTL

\* Whatever the Core holds an ack for, or is about to, is stored (trade.go:57-59).
THEOREM AcksAreSafe == SafeSpec => []AckedIsStored
<1>1. IInv => AckedIsStored
  BY DEF IInv
<1> QED BY Inductive, <1>1, PTL

\* A row that says settled is of a trade whose account movement was made
\* (trade.go:117-122).
THEOREM SettledTradesArePaid == SafeSpec => []SettledIsPaid
<1>1. IInv => SettledIsPaid
  BY DEF IInv, FlagsAgree
<1> QED BY Inductive, <1>1, PTL

\* Only a COMMIT of persistTrade, answered or not, changes what is stored and
\* what the orders have left.
LEMMA OnlyPublished ==
    ASSUME [Next]_vars
    PROVE  (\E w \in Persisters : Publish(w)) \/ UNCHANGED <<stored, order>>
<1> USE DEF db, flags
<1>1. ASSUME NEW w \in Persisters, CommitFirst(w) \/ CommitUnsure(w) PROVE Publish(w)
  BY <1>1 DEF CommitFirst, CommitUnsure
<1>2. ASSUME NEW t \in Trades, Execute(t) PROVE UNCHANGED <<stored, order>>
  BY <1>2 DEF Execute
<1>3. ASSUME NEW w \in Streams, NEW t \in Trades, ReceiveAck(w, t) \/ Recv(w, t)
      PROVE  UNCHANGED <<stored, order>>
  BY <1>3 DEF ReceiveAck, Recv
<1>4. ASSUME NEW w \in Persisters,
             \/ NotComputed(w) \/ InsertTrade(w) \/ DecrementOrder(w)
             \/ ReadSettled(w) \/ PersistFails(w)
      PROVE  UNCHANGED <<stored, order>>
  BY <1>4 DEF NotComputed, InsertTrade, DecrementOrder, ReadSettled, PersistFails
<1>5. ASSUME NEW w \in Workers,
             \/ HandlerPays(w) \/ RecordFailure(w) \/ AttemptsOverflow(w)
             \/ MarkSettled(w) \/ HandlerFails(w) \/ SettleUpdateLost(w)
      PROVE  UNCHANGED <<stored, order>>
  BY <1>5 DEF HandlerPays, RecordFailure, AttemptsOverflow, MarkSettled, HandlerFails,
              SettleUpdateLost
<1>6. ASSUME NEW w \in Streams,
             OpenStream(w) \/ SendAck(w) \/ MarkAck(w) \/ StreamBreaks(w)
      PROVE  UNCHANGED <<stored, order>>
  BY <1>6 DEF OpenStream, SendAck, MarkAck, StreamBreaks
<1>7. ASSUME NEW w \in Pullers,
             \/ PullDay(w) \/ NextPulled(w) \/ DayDone(w) \/ RecoverDone(w)
             \/ PullFails(w) \/ StartRecover(w)
      PROVE  UNCHANGED <<stored, order>>
  BY <1>7 DEF PullDay, NextPulled, DayDone, RecoverDone, PullFails, StartRecover
<1>8. ASSUME NEW w \in Retriers,
             StartRetry(w) \/ NextUnsettled(w) \/ RetryDone(w) \/ SkipUnsettled(w)
      PROVE  UNCHANGED <<stored, order>>
  BY <1>8 DEF StartRetry, NextUnsettled, RetryDone, SkipUnsettled
<1>9. CASE Crash \/ UNCHANGED vars
  BY <1>9 DEF Crash, vars
<1> QED
  BY <1>1, <1>2, <1>3, <1>4, <1>5, <1>6, <1>7, <1>8, <1>9, NextCases

\* What is stored is finite at any time, and every order is down by it.
Accounted == IsFiniteSet(stored) /\ RemainingMatchesTrades

LEMMA VolumeIsTotal ==
    ASSUME NEW S, NEW o
    PROVE  Volume(S, o) = Total(Fill, {t \in S : OrderOf[t] = o})
BY DEF Volume, Total

\* Two deductions are one of their sum.
LEMMA DeductTwice ==
    ASSUME NEW q \in Nat, NEW a \in Nat, NEW b \in Nat
    PROVE  Deduct(Deduct(q, a), b) = Deduct(q, a + b)
BY DEF Deduct

LEMMA AccountedInit == Init => Accounted
<1> SUFFICES ASSUME Init PROVE Accounted
  OBVIOUS
<1>1. stored = {} /\ \A o \in Orders : order[o].remaining = Qty[o]
  BY DEF Init, FreshOrders
<1>2. ASSUME NEW o \in Orders PROVE Deduct(Qty[o], Volume(stored, o)) = Qty[o]
  <2>1. Volume(stored, o) = 0
    <3>1. {t \in stored : OrderOf[t] = o} = {}
      BY <1>1
    <3> QED BY <3>1, VolumeIsTotal, TotalEmpty
  <2> QED BY <2>1, TradeDataAssumption DEF Deduct
<1> QED BY <1>1, <1>2, FS_EmptySet DEF Accounted, RemainingMatchesTrades

LEMMA AccountedStep == IInv /\ Accounted /\ [Next]_vars => Accounted'
<1> SUFFICES ASSUME IInv, Accounted, [Next]_vars PROVE Accounted'
  OBVIOUS
<1>1. ASSUME NEW w \in Persisters, Publish(w) PROVE Accounted'
  <2> DEFINE t == cur[w]
             o == OrderOf[t]
  <2>1. t \in Trades \ stored
    BY <1>1 DEF Publish, At, IInv, HoldsTrade, Busy, PersistLabels, InsertsAlone
  <2>2. o \in Orders /\ Fill[t] \in Nat /\ \A u \in Trades : Fill[u] \in Nat
    BY <2>1, TradeDataAssumption
  <2>3. stored' = stored \cup {t} /\ order' = Filled(order, t)
    BY <1>1 DEF Publish
  <2> HIDE DEF t, o
  <2>4. IsFiniteSet(stored')
    BY <2>3, FS_AddElement DEF Accounted
  <2>5. order[o] \in OrderRow /\ order \in [Orders -> OrderRow] /\ stored \subseteq Trades
    BY <2>2 DEF IInv, TypeOK
  <2>6. ASSUME NEW u \in Orders PROVE order'[u].remaining = Deduct(Qty[u], Volume(stored', u))
    <3>1. IsFiniteSet({v \in stored : OrderOf[v] = u})
      <4>1. {v \in stored : OrderOf[v] = u} \in SUBSET stored
        OBVIOUS
      <4> QED BY <4>1, FS_Subset DEF Accounted
    <3>2. \A v \in {v \in stored : OrderOf[v] = u} : Fill[v] \in Nat
      BY <2>2, <2>5
    <3>3. Volume(stored, u) \in Nat
      BY <3>1, <3>2, VolumeIsTotal, TotalGrows
    <3>4. order[u].remaining = Deduct(Qty[u], Volume(stored, u))
      BY DEF Accounted, RemainingMatchesTrades
    <3>5. CASE u = o
      <4>1. order'[o].remaining = Deduct(order[o].remaining, Fill[t])
        BY <2>2, <2>3, <2>5 DEF Filled, o
      <4>2. Volume(stored', o) = Volume(stored, o) + Fill[t]
        <5> DEFINE R == {v \in stored : OrderOf[v] = o}
        <5>1. {v \in stored' : OrderOf[v] = o} = R \cup {t} /\ t \notin R
          BY <2>1, <2>3 DEF o
        <5>2. Fill[t] \in Int /\ \A v \in R : Fill[v] \in Int
          BY <2>2, <3>2, <3>5
        <5>3. IsFiniteSet(R)
          BY <3>1, <3>5
        <5>4. Volume(stored, o) = Total(Fill, R) /\ Volume(stored', o) = Total(Fill, R \cup {t})
          BY <5>1, VolumeIsTotal
        <5> HIDE DEF R
        <5> QED BY <5>1, <5>2, <5>3, <5>4, TotalOneMore
      <4>3. Qty[o] \in Nat
        BY <2>2, TradeDataAssumption
      <4>4. Volume(stored, o) \in Nat /\ order[o].remaining = Deduct(Qty[o], Volume(stored, o))
        BY <3>3, <3>4, <3>5
      <4>5. Deduct(Deduct(Qty[o], Volume(stored, o)), Fill[t]) = Deduct(Qty[o], Volume(stored, o) + Fill[t])
        BY <2>2, <4>3, <4>4, DeductTwice
      <4> QED BY <3>5, <4>1, <4>2, <4>4, <4>5
    <3>6. CASE u # o
      <4>1. order'[u] = order[u]
        BY <2>3, <2>5, <3>6 DEF Filled, o
      <4>2. {v \in stored' : OrderOf[v] = u} = {v \in stored : OrderOf[v] = u}
        BY <2>3, <3>6 DEF o
      <4>3. Volume(stored', u) = Volume(stored, u)
        BY <4>2, VolumeIsTotal
      <4> QED BY <3>4, <4>1, <4>3
    <3> QED BY <3>5, <3>6
  <2> QED BY <2>4, <2>6 DEF Accounted, RemainingMatchesTrades
<1>2. CASE UNCHANGED <<stored, order>>
  BY <1>2 DEF Accounted, RemainingMatchesTrades
<1> QED BY <1>1, <1>2, OnlyPublished

\* Every stored trade is taken from its order once, whoever stored it, however
\* often it was delivered and whatever failed (trade.go:280-323).
THEOREM TradesAreCountedOnce == SafeSpec => []RemainingMatchesTrades
<1>1. Accounted => RemainingMatchesTrades
  BY DEF Accounted
<1> QED BY Inductive, AccountedInit, AccountedStep, <1>1, PTL DEF SafeSpec

\* What RecoverTrades counted as recovered has a row, and was counted once.
CountedOnce == RecoveredOnce /\ \A t \in Trades : t \notin stored => counted[t] = 0

\* Only a first delivery is counted; nothing is ever deleted.
LEMMA OnlyFirstCounted ==
    ASSUME [Next]_vars
    PROVE  \/ \E w \in Persisters : CommitFirst(w)
           \/ stored \subseteq stored' /\ UNCHANGED counted
<1> USE DEF db, flags
<1>1. ASSUME NEW w \in Persisters,
             \/ NotComputed(w) \/ InsertTrade(w) \/ DecrementOrder(w)
             \/ ReadSettled(w) \/ PersistFails(w) \/ CommitUnsure(w)
      PROVE  stored \subseteq stored' /\ UNCHANGED counted
  BY <1>1 DEF NotComputed, InsertTrade, DecrementOrder, ReadSettled, PersistFails,
              CommitUnsure, Publish
<1>2. ASSUME NEW w \in Workers,
             \/ HandlerPays(w) \/ RecordFailure(w)
             \/ AttemptsOverflow(w) \/ MarkSettled(w) \/ HandlerFails(w)
             \/ SettleUpdateLost(w)
      PROVE  stored \subseteq stored' /\ UNCHANGED counted
  BY <1>2 DEF HandlerPays, RecordFailure, AttemptsOverflow, MarkSettled,
              HandlerFails, SettleUpdateLost
<1>3. ASSUME NEW w \in Streams,
             \/ \E t \in Trades : ReceiveAck(w, t) \/ Recv(w, t)
             \/ OpenStream(w) \/ SendAck(w) \/ MarkAck(w)
             \/ StreamBreaks(w)
      PROVE  stored \subseteq stored' /\ UNCHANGED counted
  BY <1>3 DEF ReceiveAck, Recv, OpenStream, SendAck, MarkAck, StreamBreaks
<1>4. ASSUME NEW w \in Pullers,
             \/ PullDay(w) \/ NextPulled(w) \/ DayDone(w) \/ RecoverDone(w)
             \/ PullFails(w) \/ StartRecover(w)
      PROVE  stored \subseteq stored' /\ UNCHANGED counted
  BY <1>4 DEF PullDay, NextPulled, DayDone, RecoverDone, PullFails, StartRecover
<1>5. ASSUME NEW w \in Retriers,
             StartRetry(w) \/ NextUnsettled(w) \/ RetryDone(w) \/ SkipUnsettled(w)
      PROVE  stored \subseteq stored' /\ UNCHANGED counted
  BY <1>5 DEF StartRetry, NextUnsettled, RetryDone, SkipUnsettled
<1>6. ASSUME NEW t \in Trades, Execute(t)
      PROVE  stored \subseteq stored' /\ UNCHANGED counted
  BY <1>6 DEF Execute
<1>7. CASE Crash
  BY <1>7 DEF Crash
<1>8. CASE UNCHANGED vars
  BY <1>8 DEF vars
<1> HIDE DEF db, flags, Workers, Persisters
<1> QED BY <1>1, <1>2, <1>3, <1>4, <1>5, <1>6, <1>7, <1>8, NextCases

LEMMA CountedStep == IInv /\ CountedOnce /\ [Next]_vars => CountedOnce'
<1> SUFFICES ASSUME IInv, CountedOnce, [Next]_vars PROVE CountedOnce'
  OBVIOUS
<1>1. ASSUME NEW w \in Persisters, CommitFirst(w) PROVE CountedOnce'
  <2>1. cur[w] \notin stored
    BY <1>1 DEF IInv, InsertsAlone, CommitFirst, Publish, At
  <2>2. stored' = stored \cup {cur[w]}
    BY <1>1 DEF CommitFirst, Publish
  <2>3. cur[w] \in Trades /\ counted[cur[w]] = 0
    BY <1>1, <2>1 DEF IInv, HoldsTrade, Busy, PersistLabels, CountedOnce, CommitFirst,
                      Publish, At
  <2>4. \A t \in Trades : counted'[t] \in {counted[t], IF t = cur[w] THEN 1 ELSE counted[t]}
    BY <1>1, <2>3 DEF CommitFirst, IInv, TypeOK
  <2> QED BY <2>2, <2>3, <2>4 DEF CountedOnce, RecoveredOnce
<1>2. CASE stored \subseteq stored' /\ UNCHANGED counted
  BY <1>2 DEF CountedOnce, RecoveredOnce
<1> QED BY <1>1, <1>2, OnlyFirstCounted

\* What a column holds of a whole number of steps is that number.
LEMMA WholeStays ==
    ASSUME NEW k \in Int
    PROVE  Numeric(Micro * k) = Micro * k
<1>1. Micro * k \in Int
  BY MicroType
<1>2. (Micro * k) % Micro = 0 /\ (Micro * k) \div Micro = k
  BY MicroType
<1> QED BY <1>1, <1>2, MicroType DEF Numeric

\* The handler moves what the row of the trade says, on whichever path it was
\* called (trade.go:213, types.go:288-320).
THEOREM MovesAreWritten == SafeSpec => []MovedAsWritten
<1>1. \A t \in Storable : Written(Amount(t)) = Amount(t)
  <2> SUFFICES ASSUME NEW t \in Storable PROVE Written(Amount(t)) = Amount(t)
    OBVIOUS
  <2> QED BY AmountType, WholeStays DEF Written, Movement
<1>2. IInv => MovedAsWritten
  <2> SUFFICES ASSUME IInv, NEW t \in Trades PROVE moves[t] \subseteq {Written(Amount(t))}
    BY DEF MovedAsWritten
  <2>1. moves[t] # {} => t \in Storable
    BY DEF IInv, FlagsAgree, paid
  <2> QED BY <1>1, <2>1 DEF IInv, MovedAsCalculated
<1> QED BY Inductive, <1>2, PTL

\* No trade is counted as recovered twice, by one RecoverTrades or by two
\* (recover.go:80-82).
THEOREM RecoveriesDisjoint == SafeSpec => []RecoveredOnce
<1>1. Init => CountedOnce
  BY DEF Init, CountedOnce, RecoveredOnce
<1>2. CountedOnce => RecoveredOnce
  BY DEF CountedOnce
<1> QED BY Inductive, CountedStep, <1>1, <1>2, PTL DEF SafeSpec

-----------------------------------------------------------------------------
(* TradeSettlement implements the safety part of TradeLedger *)

LEMMA LedgerInit == Init => Ledger!Init
BY DEF Init, Ledger!Init, FreshOrders, Ledger!FreshOrders, paid

\* A step records, acknowledges, pays or closes one trade, or leaves the
\* ledger alone.
LEMMA LedgerStep == IInv /\ [Next]_vars => [Ledger!Next]_(Ledger!vars)
<1> SUFFICES ASSUME IInv, [Next]_vars PROVE [Ledger!Next]_(Ledger!vars)
  OBVIOUS
<1> USE DEF core, flags, db
<1>0. /\ \A w \in Workers : Busy(w) => cur[w] \in Trades
      /\ \A w \in Persisters : pc[w] = "commit" => cur[w] \notin stored
      /\ \A w \in Workers : pc[w] \in PersistLabels => cur[w] \in executed
      /\ \A w \in Workers : pc[w] = "commit" => cur[w] \in Storable
      /\ \A w \in Workers :
            pc[w] \in SettleLabels \cup {"send", "mark"} => cur[w] \in stored
      /\ \A w \in Workers :
            pc[w] = "markSettled" /\ HasHandler => cur[w] \in paid
      /\ \A w \in Streams : ackNet[w] \subseteq stored
      /\ moves \in [Trades -> SUBSET Movement]
  BY DEF IInv, TypeOK, HoldsTrade, InsertsAlone, HandlesKnown, AckedIsStored
<1>1. ASSUME NEW t \in Trades, Execute(t) PROVE Ledger!Execute(t)
  BY <1>1 DEF Execute, Ledger!Execute, paid
<1>2. ASSUME NEW w \in Streams, NEW t \in Trades, ReceiveAck(w, t)
      PROVE  Ledger!Acknowledge(t)
  BY <1>0, <1>2 DEF ReceiveAck, Ledger!Acknowledge, paid
<1>3. ASSUME NEW w \in Persisters, Publish(w), At(w, "commit"),
             UNCHANGED <<executed, acked, moves, settled>>
      PROVE  cur[w] \in Trades /\ Ledger!Record(cur[w])
  BY <1>0, <1>3 DEF Publish, Ledger!Record, At, Busy, PersistLabels,
                    Filled, Ledger!Filled, Deduct, Ledger!Deduct, paid
<1>4. ASSUME NEW w \in Workers, HandlerPays(w) \/ HandlerFails(w)
      PROVE  \/ cur[w] \in Trades /\ Ledger!Pay(cur[w])
             \/ UNCHANGED Ledger!vars
  <2>1. cur[w] \in Trades /\ cur[w] \in stored
    BY <1>0, <1>4 DEF HandlerPays, HandlerFails, At, Busy, SettleLabels
  <2>2. CASE UNCHANGED moves
    BY <1>4, <2>2 DEF HandlerPays, HandlerFails, Ledger!vars, paid
  <2>3. CASE HasHandler /\ moves' = Moved(w)
    <3>1. paid' = paid \cup {cur[w]}
      BY <1>0, <2>1, <2>3 DEF Moved, paid
    <3> QED BY <1>4, <2>1, <2>3, <3>1 DEF HandlerPays, HandlerFails, Ledger!Pay
  <2> QED BY <1>4, <2>2, <2>3 DEF HandlerPays, HandlerFails
<1>5. ASSUME NEW w \in Workers, MarkSettled(w)
      PROVE  cur[w] \in Trades /\ Ledger!Close(cur[w])
  BY <1>0, <1>5 DEF MarkSettled, Ledger!Close, At, Busy, SettleLabels, paid
<1>6. ASSUME NEW w \in Persisters, CommitFirst(w) \/ CommitUnsure(w)
      PROVE  cur[w] \in Trades /\ Ledger!Record(cur[w])
  BY <1>3, <1>6 DEF CommitFirst, CommitUnsure, Publish
<1>7. ASSUME NEW w \in Workers,
             \/ \E t \in Trades : Recv(w, t)
             \/ NotComputed(w) \/ InsertTrade(w) \/ DecrementOrder(w)
             \/ ReadSettled(w) \/ PersistFails(w)
             \/ RecordFailure(w) \/ AttemptsOverflow(w)
             \/ SettleUpdateLost(w)
             \/ OpenStream(w) \/ SendAck(w) \/ MarkAck(w)
             \/ StreamBreaks(w)
             \/ PullDay(w) \/ NextPulled(w) \/ DayDone(w) \/ RecoverDone(w)
             \/ PullFails(w) \/ StartRecover(w)
             \/ StartRetry(w) \/ NextUnsettled(w) \/ RetryDone(w) \/ SkipUnsettled(w)
      PROVE  UNCHANGED Ledger!vars
  BY <1>7 DEF Recv, NotComputed, InsertTrade, DecrementOrder, ReadSettled, PersistFails,
              RecordFailure, AttemptsOverflow, SettleUpdateLost, OpenStream, SendAck,
              MarkAck, StreamBreaks, PullDay, NextPulled, DayDone,
              RecoverDone, PullFails, StartRecover, StartRetry, NextUnsettled,
              RetryDone, SkipUnsettled, Ledger!vars, paid
<1>8. CASE Crash
  BY <1>8 DEF Crash, Ledger!vars, paid
<1>9. CASE UNCHANGED vars
  BY <1>9 DEF vars, Ledger!vars, paid
<1> HIDE DEF core, flags, db
<1> QED
  BY <1>1, <1>2, <1>4, <1>5, <1>6, <1>7, <1>8, <1>9, NextCases DEF Ledger!Next

\* Each trade is recorded and taken from its order in one step and once only,
\* acked and paid only when recorded, closed only when paid
\* (trade.go:50-65, 223-231).
THEOREM ImplementsLedgerSafety == SafeSpec => Ledger!SafeSpec
BY Inductive, LedgerInit, LedgerStep, PTL DEF SafeSpec, Ledger!SafeSpec
=============================================================================
