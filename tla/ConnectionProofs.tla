-------------------------- MODULE ConnectionProofs --------------------------
(***************************************************************************)
(* Proofs about Connection and the Subscription in it: types, how long a   *)
(* subscription waits, why it ends, and what a unary call may tell its     *)
(* caller.                                                                 *)
(***************************************************************************)
EXTENDS Connection, InductionFacts

\* A subscription notices nothing of the calls on its connection.
LEMMA ClientIsSubscription ==
    (ClientInit => Init) /\ ([ClientNext]_clientVars => [Next]_vars)
BY DEF ClientInit, ClientNext, clientVars, Unary, Call, Serve, Invoked, Refused,
       Decide, Again, PauseCancelled, Round, Ends

\* How a subscription comes to its end: the error of a stream is known before
\* the call returns, and a cancelled error comes of a cancelled context.
EndsKnown ==
    /\ ctx \in BOOLEAN
    /\ pc \in {"failed", "wait", "returned"} => err \in {"unavailable", "eof", "fatal", "cancelled"}
    /\ err = "cancelled" => ctx
    /\ OnlyEndsWhenTold

LEMMA EndsKnownInit == Init => EndsKnown
BY DEF Init, EndsKnown, OnlyEndsWhenTold

LEMMA EndsKnownStep == EndsKnown /\ [Next]_vars => EndsKnown'
<1> SUFFICES ASSUME EndsKnown, [Next]_vars PROVE EndsKnown'
  OBVIOUS
<1> USE DEF EndsKnown, OnlyEndsWhenTold, outside
<1>1. CASE Opened \/ Accepted
  BY <1>1 DEF Opened, Accepted
<1>2. CASE OpenFails
  BY <1>2 DEF OpenFails, Fails, Break
<1>3. CASE Recv
  BY <1>3 DEF Recv
<1>4. CASE NotAccepted \/ RecvFails
  BY <1>4 DEF NotAccepted, RecvFails, StreamEnds, ServerSays, Fails, Break
<1>5. CASE Return
  BY <1>5 DEF Return, ReturnsNow, Verdict, StreamRetryable
<1>6. CASE Wait
  BY <1>6 DEF Wait
<1>7. CASE Wake
  BY <1>7 DEF Wake
<1>8. CASE WaitCancelled
  BY <1>8 DEF WaitCancelled
<1>9. CASE Cancel
  BY <1>9 DEF Cancel
<1>10. CASE NetDown \/ NetUp \/ Keepalive \/ Publish
  BY <1>10 DEF NetDown, NetUp, Keepalive, Publish, Break
<1>11. CASE UNCHANGED vars
  BY <1>11 DEF vars
<1> QED
  BY <1>1, <1>2, <1>3, <1>4, <1>5, <1>6, <1>7, <1>8, <1>9, <1>10, <1>11
     DEF Next, Loop, World

\* A subscription ends only with a cancelled context or an error not worth a
\* retry (trade.go:23-26), alone and on a connection it shares with calls.
THEOREM SubscriptionEndsWhenTold ==
    (Spec => []OnlyEndsWhenTold) /\ (ClientSpec => []OnlyEndsWhenTold)
<1>1. EndsKnown => OnlyEndsWhenTold
  BY DEF EndsKnown
<1> QED
  BY <1>1, ClientIsSubscription, EndsKnownInit, EndsKnownStep, PTL DEF Spec, ClientSpec

-----------------------------------------------------------------------------

\* Where a call is says how many rounds it had, how often the Core ran it and
\* what it has been told.
CallKnown ==
    /\ ctx \in BOOLEAN
    /\ retries \in Int /\ tries \in Nat /\ ran \in Nat
    /\ call \in {"idle", "invoke", "served", "failed", "pause", "returned"}
    /\ answer = "cancelled" => ctx
    /\ ran <= tries + 1
    /\ call \in {"idle", "invoke", "pause"} => answer \in {"none", "unavailable"}
    /\ call \in {"invoke", "served", "failed"} => tries <= Limit
    /\ call = "idle" => ran = 0 /\ answer = "none"
    /\ call = "invoke" => ran <= tries
    /\ call = "served" => ran > 0
    /\ call = "failed" => answer \in {"unavailable", "fatal", "cancelled"}
    /\ call = "pause" => tries < Limit /\ answer = "unavailable"
    /\ AnswerIsTrue

LEMMA CallKnownInit == ClientInit => CallKnown
<1> SUFFICES ASSUME ClientInit PROVE CallKnown
  OBVIOUS
<1>1. ctx = FALSE /\ call = "idle" /\ answer = "none" /\ tries = 0 /\ ran = 0
  BY DEF ClientInit, Init
<1>2. retries \in Int
  BY ConnectionAssumption DEF ClientInit
<1>3. AnswerIsTrue
  BY <1>1 DEF AnswerIsTrue
<1>4. ctx \in BOOLEAN
  BY <1>1, Zenon
<1>5. tries \in Nat /\ ran \in Nat /\ ran <= tries + 1
  BY <1>1
<1>6. answer \notin {"ok", "unavailable", "fatal", "cancelled"}
  BY <1>1
<1>7. call \notin {"invoke", "served", "failed", "pause", "returned"}
  BY <1>1
<1> QED
  BY <1>1, <1>2, <1>3, <1>4, <1>5, <1>6, <1>7, Zenon DEF CallKnown

LEMMA CallKnownStep == CallKnown /\ [ClientNext]_clientVars => CallKnown'
<1> SUFFICES ASSUME CallKnown, [ClientNext]_clientVars PROVE CallKnown'
  OBVIOUS
<1> USE DEF CallKnown, AnswerIsTrue, Limit
<1>1. CASE Next /\ UNCHANGED callVars
  <2>1. ctx => ctx'
    BY <1>1 DEF Next, Loop, World, Opened, OpenFails, Accepted, NotAccepted, Recv,
                RecvFails, StreamEnds, Fails, Return, Wait, Wake, WaitCancelled, Cancel,
                NetDown, NetUp, Keepalive, Publish, outside
  <2>2. ctx' \in BOOLEAN
    BY <1>1 DEF Next, Loop, World, Opened, OpenFails, Accepted, NotAccepted, Recv,
                RecvFails, StreamEnds, Fails, Return, Wait, Wake, WaitCancelled, Cancel,
                NetDown, NetUp, Keepalive, Publish, outside
  <2> QED
    BY <1>1, <2>1, <2>2 DEF callVars
<1>2. CASE Call
  BY <1>2 DEF Call, Round, vars, outside
<1>3. CASE Serve
  BY <1>3 DEF Serve, vars, outside
<1>4. CASE Invoked
  BY <1>4 DEF Invoked, Ends, vars, outside
<1>5. CASE Refused
  BY <1>5 DEF Refused, Ends, vars, outside
<1>6. CASE Decide
  BY <1>6 DEF Decide, GivesUp, Retryable, vars, outside
<1>7. CASE Again
  BY <1>7 DEF Again, Round, vars, outside
<1>8. CASE PauseCancelled
  BY <1>8 DEF PauseCancelled, vars, outside
<1>9. CASE UNCHANGED clientVars
  BY <1>9 DEF clientVars, callVars, vars, outside
<1> QED
  BY <1>1, <1>2, <1>3, <1>4, <1>5, <1>6, <1>7, <1>8, <1>9 DEF ClientNext, Unary

\* What a unary call returns is true (retry.go:24-43): nil only when the Core
\* ran it, though maxRetries may be negative, and an outage only once every
\* attempt is spent.
THEOREM CallsTellTheTruth == ClientSpec => []AnswerIsTrue
<1>1. CallKnown => AnswerIsTrue
  BY DEF CallKnown
<1> QED
  BY <1>1, CallKnownInit, CallKnownStep, PTL DEF ClientSpec

-----------------------------------------------------------------------------
(* How long the waits are *)

\* The loop of backoff computes what its recursion says.
LEMMA DoubledDef ==
    /\ Doubled \in [Nat -> Nat]
    /\ Doubled[0] = Base
    /\ \A n \in Nat : Doubled[n + 1] = IF Doubled[n] < MaxDelay THEN 2 * Doubled[n] ELSE Doubled[n]
<1> DEFINE st == [d \in Nat |-> IF d < MaxDelay THEN 2 * d ELSE d]
           Once(f) == [i \in Nat |-> IF i = 0 THEN Base
                                     ELSE IF f[i - 1] < MaxDelay THEN 2 * f[i - 1]
                                     ELSE f[i - 1]]
<1>1. st \in [Nat -> Nat] /\ Base \in Nat
  BY SubscriptionAssumption
<1>2. PICK f \in [Nat -> Nat] : f[0] = Base /\ \A n \in Nat : n # 0 => f[n] = st[f[n - 1]]
  <2> HIDE DEF st, Once
  <2>1. PICK S : S = Nat
    OBVIOUS
  <2>2. Base \in S /\ st \in [S -> S]
    BY <1>1, <2>1
  <2>3. \E f \in [Nat -> S] : f[0] = Base /\ \A n \in Nat : n # 0 => f[n] = st[f[n - 1]]
    BY <2>2, NatRecursion
  <2> QED BY <2>1, <2>3
<1>3. f = Once(f)
  <2>1. ASSUME NEW i \in Nat
        PROVE  f[i] = IF i = 0 THEN Base
                      ELSE IF f[i - 1] < MaxDelay THEN 2 * f[i - 1] ELSE f[i - 1]
    <3>1. i # 0 => f[i - 1] \in Nat
      OBVIOUS
    <3>2. f[i] = IF i = 0 THEN Base ELSE st[f[i - 1]]
      <4> HIDE DEF st
      <4> QED BY <1>2
    <3> QED BY <3>1, <3>2
  <2> QED BY <2>1
<1>4. Doubled = Once(Doubled)
  <2> DEFINE D == CHOOSE g : g = Once(g)
  <2>1. D = Once(D)
    <3> HIDE DEF Once
    <3> QED BY <1>3
  <2>2. Doubled = D
    BY Zenon DEF Doubled
  <2> HIDE DEF D
  <2> QED BY <2>1, <2>2
<1>5. /\ Doubled[0] = Base
      /\ \A n \in Nat : Doubled[n + 1] = IF Doubled[n] < MaxDelay THEN 2 * Doubled[n] ELSE Doubled[n]
  <2>1. \A i \in Nat : Doubled[i] = IF i = 0 THEN Base
                         ELSE IF Doubled[i - 1] < MaxDelay THEN 2 * Doubled[i - 1] ELSE Doubled[i - 1]
    BY <1>4
  <2>2. \A n \in Nat : n + 1 \in Nat /\ n + 1 # 0 /\ (n + 1) - 1 = n
    OBVIOUS
  <2>3. ASSUME NEW n \in Nat
        PROVE  Doubled[n + 1] = IF Doubled[n] < MaxDelay THEN 2 * Doubled[n] ELSE Doubled[n]
    <3>1. Doubled[n + 1] = IF Doubled[(n + 1) - 1] < MaxDelay THEN 2 * Doubled[(n + 1) - 1]
                           ELSE Doubled[(n + 1) - 1]
      BY <2>1, <2>2
    <3> QED BY <2>2, <3>1
  <2> QED BY <2>1, <2>3
<1>6. Doubled \in [Nat -> Nat]
  <2> DEFINE P == {n \in Nat : Doubled[n] \in Nat}
  <2>1. 0 \in P
    BY <1>1, <1>5
  <2>2. ASSUME NEW n \in P PROVE n + 1 \in P
    BY <1>5
  <2>3. P = Nat
    <3> HIDE DEF P
    <3>1. P \in SUBSET Nat
      BY DEF P
    <3> QED BY <2>1, <2>2, <3>1, NatSetInduction
  <2>4. \A n \in Nat : Doubled[n] \in Nat
    BY <2>3
  <2> HIDE DEF P
  <2> QED BY <1>4, <2>4
<1> QED BY <1>5, <1>6
\* No wait is longer than maxDelay, and each is at least half of the longest
\* there may be.  The longest doubles until it reaches maxDelay.
LEMMA Waits ==
    /\ \A a \in Nat : Longest(a) \in 0 .. MaxDelay
    /\ Base > 1 /\ MaxDelay > 1 =>
          \A a \in Nat : /\ Longest(a) > 1
                         /\ Longest(a + 1) = MaxDelay \/ Longest(a + 1) = 2 * Longest(a)
    /\ \A a \in Nat : \A d \in Backoff(a) :
          /\ d \in 0 .. MaxDelay
          /\ Longest(a) > 1 => d < Longest(a)
          /\ d >= Longest(a) \div 2
<1>1. MaxDelay \in Nat /\ Base \in Nat
  BY SubscriptionAssumption
<1>2. Base > 1 => \A a \in Nat : Doubled[a] > 1
  <2> SUFFICES ASSUME Base > 1 PROVE \A a \in Nat : Doubled[a] > 1
    OBVIOUS
  <2> DEFINE P == {n \in Nat : Doubled[n] > 1}
  <2>1. 0 \in P
    BY <1>1, DoubledDef
  <2>2. ASSUME NEW n \in P PROVE n + 1 \in P
    <3>1. Doubled[n] \in Nat /\ n \in Nat
      BY DoubledDef
    <3>2. Doubled[n + 1] = IF Doubled[n] < MaxDelay THEN 2 * Doubled[n] ELSE Doubled[n]
      BY <3>1, DoubledDef
    <3> QED BY <3>1, <3>2
  <2>3. P = Nat
    <3> HIDE DEF P
    <3>1. P \in SUBSET Nat
      BY DEF P
    <3> QED BY <2>1, <2>2, <3>1, NatSetInduction
  <2> QED BY <2>3
<1>3. ASSUME NEW a \in Nat
      PROVE  /\ Longest(a) \in 0 .. MaxDelay
             /\ Doubled[a] < MaxDelay => Longest(a) = Doubled[a]
             /\ ~ Doubled[a] < MaxDelay => Longest(a) = MaxDelay
  <2>1. Doubled[a] \in Nat
    BY DoubledDef
  <2> QED BY <1>1, <2>1 DEF Longest
<1>4. ASSUME NEW a \in Nat, Base > 1, MaxDelay > 1
      PROVE  /\ Longest(a) > 1
             /\ Longest(a + 1) = MaxDelay \/ Longest(a + 1) = 2 * Longest(a)
  <2>1. Longest(a) > 1
    BY <1>2, <1>3, <1>4
  <2>2. Doubled[a + 1] = IF Doubled[a] < MaxDelay THEN 2 * Doubled[a] ELSE Doubled[a]
    BY DoubledDef
  <2>3. (Longest(a + 1) = MaxDelay) \/ (Longest(a + 1) = Doubled[a + 1])
    BY <1>3
  <2>4. CASE Doubled[a] < MaxDelay
    BY <1>3, <2>1, <2>2, <2>3, <2>4
  <2>5. CASE ~ Doubled[a] < MaxDelay
    <3>1. Doubled[a + 1] = Doubled[a]
      BY <2>2, <2>5
    <3>2. Longest(a + 1) = Longest(a)
      BY <3>1 DEF Longest
    <3> QED BY <1>3, <2>1, <2>5, <3>2
  <2> QED BY <2>1, <2>4, <2>5
<1>5. ASSUME NEW a \in Nat, NEW d \in Backoff(a)
      PROVE  /\ d \in 0 .. MaxDelay
             /\ Longest(a) > 1 => d < Longest(a)
             /\ d >= Longest(a) \div 2
  <2> DEFINE L == Longest(a)
  <2>1. L \in Nat /\ L <= MaxDelay
    BY <1>1, <1>3
  <2>2. d \in IF L \div 2 <= 0 THEN {L} ELSE L \div 2 .. 2 * (L \div 2) - 1
    BY DEF Backoff
  <2> HIDE DEF L
  <2>3. L = 2 * (L \div 2) \/ L = 2 * (L \div 2) + 1
    BY <2>1
  <2>4. L \div 2 \in Nat
    BY <2>1
  <2>5. d \in 0 .. MaxDelay /\ (L > 1 => d < L) /\ d >= L \div 2
    BY <1>1, <2>1, <2>2, <2>3, <2>4
  <2> QED BY <2>5 DEF L
<1> QED BY <1>3, <1>4, <1>5
-----------------------------------------------------------------------------

\* The last wait was shorter than the longest that was possible then; no more
\* messages wait than there have been.
Paced ==
    /\ TypeOK
    /\ queue <= sent
    /\ attempt # 0 /\ Longest(attempt - 1) > 1 => delay < Longest(attempt - 1)

LEMMA PacedInit == Init => Paced
<1> SUFFICES ASSUME Init PROVE Paced
  OBVIOUS
<1>1. attempt = 0 /\ queue = 0 /\ sent = 0
  BY DEF Init
<1>2. 0 \in 0 .. Ceiling /\ 0 \in 0 .. MaxDelay /\ 0 \in 0 .. MaxMessages /\ 0 \in 0 .. MaxBreaks
  BY SubscriptionAssumption
<1>3. TypeOK
  BY <1>2, Zenon DEF Init, TypeOK
<1> QED BY <1>1, <1>3 DEF Paced

LEMMA PacedStep == Paced /\ [Next]_vars => Paced'
<1> SUFFICES ASSUME Paced, [Next]_vars PROVE Paced'
  OBVIOUS
<1>1. ASSUME TypeOK', queue' <= sent', attempt' = attempt, delay' = delay
      PROVE  Paced'
  BY <1>1 DEF Paced
<1>2. MaxDelay \in Nat /\ Ceiling \in Nat \ {0} /\ MaxMessages \in Nat /\ MaxBreaks \in Nat
  BY SubscriptionAssumption
<1> USE DEF TypeOK, outside
<1>3. CASE Accepted
  BY <1>2, <1>3 DEF Accepted, Paced
<1>4. CASE Opened \/ OpenFails
  BY <1>1, <1>2, <1>4 DEF Opened, OpenFails, Fails, Break, Paced
<1>5. CASE Recv
  BY <1>1, <1>2, <1>5 DEF Recv, Paced
<1>6. CASE NotAccepted \/ RecvFails
  <2>1. TypeOK' /\ queue' <= sent' /\ (attempt' = attempt \/ attempt' = 0) /\ delay' = delay
    BY <1>2, <1>6 DEF NotAccepted, RecvFails, StreamEnds, ServerSays, Fails, Break, Paced
  <2> QED BY <1>1, <2>1 DEF Paced
<1>7. CASE Return
  BY <1>1, <1>7 DEF Return, Paced
<1>8. CASE Wait
  <2>1. attempt \in Nat /\ delay' \in 0 .. MaxDelay /\ (Longest(attempt) > 1 => delay' < Longest(attempt))
    BY <1>2, <1>8, Waits DEF Wait, Paced
  <2>2. attempt' \in 1 .. Ceiling
    BY <1>2, <1>8 DEF Wait, Paced
  <2>3. Longest(attempt' - 1) = Longest(attempt)
    <3>1. CASE attempt < Ceiling
      <4>1. attempt' - 1 = attempt
        BY <1>8, <2>1, <3>1 DEF Wait
      <4> QED BY <4>1
    <3>2. CASE ~ attempt < Ceiling
      <4>1. attempt = Ceiling /\ attempt' = Ceiling
        BY <1>2, <1>8, <3>2 DEF Wait, Paced
      <4> QED BY <4>1, SubscriptionAssumption
    <3> QED BY <3>1, <3>2
  <2>4. TypeOK' /\ queue' <= sent'
    BY <1>8, <2>1, <2>2 DEF Wait, Paced
  <2>5. Longest(attempt' - 1) > 1 => delay' < Longest(attempt' - 1)
    BY <2>1, <2>3
  <2> QED BY <2>2, <2>4, <2>5 DEF Paced
<1>9. CASE Wake \/ WaitCancelled
  BY <1>1, <1>9 DEF Wake, WaitCancelled, Paced
<1>10. CASE Cancel \/ NetUp \/ Keepalive
  BY <1>1, <1>10 DEF Cancel, NetUp, Keepalive, Paced
<1>11. CASE NetDown
  BY <1>1, <1>2, <1>11 DEF NetDown, Break, Paced
<1>12. CASE Publish
  BY <1>1, <1>2, <1>12 DEF Publish, Paced
<1>13. CASE UNCHANGED vars
  BY <1>1, <1>13 DEF vars, Paced
<1> QED
  BY <1>3, <1>4, <1>5, <1>6, <1>7, <1>8, <1>9, <1>10, <1>11, <1>12, <1>13
     DEF Next, Loop, World

\* A subscription's state has its types, alone and on a connection it shares
\* with calls; a wait is never longer than maxDelay (retry.go:70-87).
THEOREM SubscriptionTypeCorrect == (Spec => []TypeOK) /\ (ClientSpec => []TypeOK)
<1>1. Paced => TypeOK
  BY DEF Paced
<1> QED
  BY <1>1, ClientIsSubscription, PacedInit, PacedStep, PTL DEF Spec, ClientSpec

\* While no stream can be opened each wait is longer than the last, until it is
\* half of maxDelay (order.go:362-363, retry.go:71-73).  Nothing is said of the
\* waits between streams that were opened and not accepted: the code does not
\* let them grow.
THEOREM WaitsOnlyGrow == (Spec => WaitsGrow) /\ (ClientSpec => WaitsGrow)
<1>1. ASSUME Paced, [Next]_vars, Base > 1, attempt # 0,
             pc' = "wait", pc = "failed", delay < MaxDelay \div 2
      PROVE  delay' > delay
  <2>1. Wait
    BY <1>1 DEF Next, Loop, World, Opened, OpenFails, Accepted, NotAccepted, StreamEnds, Fails,
                Recv, RecvFails, Return, Wake, WaitCancelled, Cancel, NetDown, NetUp,
                Keepalive, Publish, vars, outside
  <2>2. /\ attempt \in Nat /\ delay \in Nat /\ delay' \in Backoff(attempt)
        /\ MaxDelay \in Nat /\ MaxDelay > 1
    BY <1>1, <2>1, SubscriptionAssumption DEF Wait, Paced, TypeOK
  <2>3. PICK a \in Nat : attempt = a + 1 /\ a = attempt - 1
    BY <1>1, <2>2
  <2>4. /\ Longest(a) \in Nat /\ Longest(attempt) \in Nat /\ Longest(a) > 1
        /\ Longest(attempt) = MaxDelay \/ Longest(attempt) = 2 * Longest(a)
    BY <1>1, <2>2, <2>3, Waits
  <2>5. delay < Longest(a)
    BY <1>1, <2>3, <2>4 DEF Paced
  <2>6. delay' \in Nat /\ delay' >= Longest(attempt) \div 2
    BY <2>2, Waits
  <2> QED BY <1>1, <2>2, <2>4, <2>5, <2>6
<1>2. Paced /\ [Next]_vars => [Base > 1 /\ attempt # 0 => Grows]_vars
  BY <1>1 DEF Grows
<1> QED
  BY <1>2, ClientIsSubscription, PacedInit, PacedStep, PTL DEF Spec, ClientSpec, WaitsGrow
=============================================================================
