---------------------------- MODULE Subscription ----------------------------
(***************************************************************************)
(* The life of a subscription: the reconnect loop that SubscribeTrades     *)
(* (trade.go) and SubscribeOrderEvents (order.go) share, with the backoff  *)
(* of retry.go.  What is done with a message is left to TradeSettlement    *)
(* and OrderLifecycle; here a message is taken or still waiting.           *)
(*                                                                         *)
(* The network, the server and the caller's context are external.          *)
(* maxRetries plays no part in this loop.                                  *)
(*                                                                         *)
(* A definition marked "Slip" is no part of the specification: it is a     *)
(* plausible wrong form of the definition after it, which the properties   *)
(* must reject.                                                            *)
(***************************************************************************)
EXTENDS Integers

CONSTANTS
    Base,         \* Client.baseDelay
    MaxDelay,     \* Client.maxDelay
    Ceiling,      \* bound of the attempt counter, past which no delay grows
    MaxMessages,  \* how many messages the Core has for the subscriber
    MaxBreaks,    \* how many times a connection may break or the server end a
                  \* stream
    Fatal         \* whether the server may answer with an error not worth a retry

VARIABLES
    pc,       \* "open", "header", "recv", "failed", "wait" or "returned"
    attempt,  \* failures in a row, as the loop counts them
    delay,    \* the last wait since a stream was last accepted, 0 when none
    err,      \* what the last stream ended with
    ctx,      \* whether the caller has cancelled
    net,      \* the connection: "up", "down", or "silent" when packets are
              \* dropped on the way and neither side has noticed
    queue,    \* messages waiting at the Core
    sent,     \* messages there have been
    breaks    \* breaks so far

outside == <<ctx, net, breaks, sent>>
vars == <<pc, attempt, delay, err, queue, outside>>

-----------------------------------------------------------------------------
(* retry.go *)

\* delay <<= 1 while delay < max, attempt times.
Doubled[i \in Nat] ==
    IF i = 0 THEN Base
    ELSE IF Doubled[i - 1] < MaxDelay THEN 2 * Doubled[i - 1]
    ELSE Doubled[i - 1]

\* Slip: the wait doubles only from the second failure on.
LongestLate(a) ==
    LET d == Doubled[IF a = 0 THEN 0 ELSE a - 1] IN IF d < MaxDelay THEN d ELSE MaxDelay

\* Slip: the last doubling may go past max.
LongestUncapped(a) == Doubled[a]

\* min(delay, max)
Longest(a) == IF Doubled[a] < MaxDelay THEN Doubled[a] ELSE MaxDelay

\* What backoff may return: half of the longest wait and a random share of the
\* other half.
Backoff(a) ==
    LET half == Longest(a) \div 2
    IN  IF half <= 0 THEN {Longest(a)} ELSE half .. 2 * half - 1

ASSUME SubscriptionAssumption ==
    /\ Base \in Nat
    /\ MaxDelay \in Nat
    /\ Ceiling \in Nat \ {0}
    /\ Longest(Ceiling - 1) = Longest(Ceiling)
    /\ MaxMessages \in Nat
    /\ MaxBreaks \in Nat
    /\ Fatal \in BOOLEAN

\* Slip: a stream the server ends cleanly is not reopened.
RetryableCall(e) == e = "unavailable"

\* Unavailable, ResourceExhausted, and a clean end of the stream.
StreamRetryable(e) == e \in {"unavailable", "eof"}

-----------------------------------------------------------------------------

TypeOK ==
    /\ pc \in {"open", "header", "recv", "failed", "wait", "returned"}
    /\ attempt \in 0 .. Ceiling
    /\ delay \in 0 .. MaxDelay
    /\ err \in {"none", "unavailable", "eof", "fatal", "cancelled"}
    /\ ctx \in BOOLEAN
    /\ net \in {"up", "silent", "down"}
    /\ queue \in 0 .. MaxMessages
    /\ sent \in 0 .. MaxMessages
    /\ breaks \in 0 .. MaxBreaks

Init ==
    /\ pc = "open"
    /\ attempt = 0
    /\ delay = 0
    /\ err = "none"
    /\ ctx = FALSE
    /\ net \in {"up", "down"}
    /\ queue = 0
    /\ sent = 0
    /\ breaks = 0

Break == breaks < MaxBreaks /\ breaks' = breaks + 1

\* What the server may end a stream with: it is overloaded or on its way down,
\* it is done, or it will not have this client.
ServerSays == {"unavailable", "eof"} \cup (IF Fatal THEN {"fatal"} ELSE {})

Fails(e) == pc' = "failed" /\ err' = e /\ UNCHANGED <<delay, queue, ctx, net, sent>>

\* The stream ends: cancelled, with its connection, or at the server's word.
StreamEnds ==
    \/ ctx /\ Fails("cancelled") /\ UNCHANGED breaks
    \/ net = "down" /\ Fails("unavailable") /\ UNCHANGED breaks
    \/ net = "up" /\ Break /\ \E e \in ServerSays : Fails(e)

-----------------------------------------------------------------------------
(* runTradeStream and runOrderEventStream *)

\* The stub has a stream as soon as it has a connection to put it on.
Opened ==
    /\ pc = "open"
    /\ net # "down" /\ ~ ctx
    /\ pc' = "header"
    /\ UNCHANGED <<attempt, delay, err, queue, outside>>

\* The stub fails: without a connection, cancelled, or with a request it
\* cannot make.
OpenFails ==
    /\ pc = "open"
    /\ \/ ctx /\ Fails("cancelled") /\ UNCHANGED breaks
       \/ net = "down" /\ ~ ctx /\ Fails("unavailable") /\ UNCHANGED breaks
       \/ Fatal /\ Break /\ Fails("fatal")
    /\ UNCHANGED attempt

\* The server sends its headers.
Accepted ==
    /\ pc = "header"
    /\ net = "up" /\ ~ ctx
    /\ pc' = "recv"
    /\ attempt' = 0
    /\ delay' = 0
    /\ UNCHANGED <<err, queue, outside>>

\* The stream ends before any headers.  Header then returns no error, the
\* attempt counter is reset, and the error comes from the Recv that follows.
NotAccepted == pc = "header" /\ StreamEnds /\ attempt' = 0

\* Recv returns a message.
Recv ==
    /\ pc = "recv"
    /\ net = "up" /\ ~ ctx
    /\ queue > 0
    /\ queue' = queue - 1
    /\ UNCHANGED <<pc, attempt, delay, err, outside>>

\* Recv, or the Send of an ack, returns an error.
RecvFails == pc = "recv" /\ StreamEnds /\ UNCHANGED attempt

------------------------------------------------------------------------
(* SubscribeTrades and SubscribeOrderEvents *)

\* Slip: neither the context nor what the stream ended with is looked at.
NeverReturns(reason) == FALSE

\* The call returns: cancelled, or with an error not worth a retry.
ReturnsNow(reason) == reason = "cancelled" \/ ~ StreamRetryable(reason)

\* ctx.Err() comes before the error of the stream.
Verdict == IF ctx THEN "cancelled" ELSE err

Return ==
    /\ pc = "failed"
    /\ ReturnsNow(Verdict)
    /\ pc' = "returned"
    /\ UNCHANGED <<attempt, delay, err, queue, outside>>

Wait ==
    /\ pc = "failed"
    /\ ~ ReturnsNow(Verdict)
    /\ pc' = "wait"
    /\ delay' \in Backoff(attempt)
    /\ attempt' = IF attempt < Ceiling THEN attempt + 1 ELSE attempt
    /\ UNCHANGED <<err, queue, outside>>

\* The timer fires; with the context done as well, either may be taken.
Wake ==
    /\ pc = "wait"
    /\ pc' = "open"
    /\ UNCHANGED <<attempt, delay, err, queue, outside>>

WaitCancelled ==
    /\ pc = "wait"
    /\ ctx
    /\ pc' = "returned"
    /\ UNCHANGED <<attempt, delay, err, queue, outside>>

-----------------------------------------------------------------------------
(* The world *)

Cancel ==
    /\ ~ ctx /\ ctx' = TRUE
    /\ UNCHANGED <<pc, attempt, delay, err, net, queue, sent, breaks>>

\* An idle connection may be dropped by a proxy on the way, unnoticed.
NetDown ==
    /\ net = "up"
    /\ net' \in {"down", "silent"}
    /\ Break
    /\ UNCHANGED <<pc, attempt, delay, err, ctx, queue, sent>>

NetUp ==
    /\ net = "down" /\ net' = "up"
    /\ UNCHANGED <<pc, attempt, delay, err, ctx, queue, sent, breaks>>

\* Slip: no pings on an idle connection.
NoKeepalive == FALSE

\* A ping goes unanswered, and the transport is closed.
Keepalive ==
    /\ net = "silent" /\ net' = "down"
    /\ UNCHANGED <<pc, attempt, delay, err, ctx, queue, sent, breaks>>

Publish ==
    /\ sent < MaxMessages
    /\ sent' = sent + 1 /\ queue' = queue + 1
    /\ UNCHANGED <<pc, attempt, delay, err, ctx, net, breaks>>

Loop ==
    \/ Opened \/ OpenFails \/ Accepted \/ NotAccepted
    \/ Recv \/ RecvFails \/ Return \/ Wait \/ Wake \/ WaitCancelled

World == Cancel \/ NetDown \/ NetUp \/ Keepalive \/ Publish

Next == Loop \/ World

\* The loop goes on when it can, a timer fires, a silent connection is found
\* out, and an outage ends.
Fairness ==
    /\ WF_vars(Opened \/ Accepted \/ Recv \/ Return \/ Wait \/ Wake)
    /\ WF_vars(OpenFails /\ (ctx \/ net = "down"))
    /\ WF_vars(NotAccepted /\ (ctx \/ net = "down"))
    /\ WF_vars(RecvFails /\ (ctx \/ net = "down"))
    /\ WF_vars(Keepalive)
    /\ WF_vars(NetUp)

Spec == Init /\ [][Next]_vars /\ Fairness
-----------------------------------------------------------------------------

\* Nothing but a cancelled context or an error not worth a retry ends a
\* subscription, however long the server is away (trade.go:23-26).
OnlyEndsWhenTold == pc = "returned" => ctx \/ err = "fatal"

Grows == pc = "failed" /\ pc' = "wait" /\ delay < MaxDelay \div 2 => delay' > delay

\* While no stream can be opened each wait is longer than the one before, until
\* it is half of the longest there may be (order.go:362-363, retry.go:71-73).
\* A base delay of at most one tick has no room for a random share.
WaitsGrow == [][Base > 1 /\ attempt # 0 => Grows]_vars

\* So they do while the server accepts no stream, be it reachable or not: "Reset
\* the reconnect counter only once the connection is established, so backoff
\* keeps growing if the open fails" (order.go:384-385, trade.go:72-73).
RefusedWaitsGrow == [][Base > 1 => Grows]_vars

\* A cancelled context ends the call, whatever the stream is at.
CancelReturns == ctx ~> pc = "returned"

\* What waits at the Core is received in the end, after however many outages
\* and clean ends of the stream.
Delivered == queue > 0 ~> queue = 0 \/ ctx \/ err = "fatal"
=============================================================================
