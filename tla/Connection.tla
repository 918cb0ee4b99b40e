----------------------------- MODULE Connection -----------------------------
(***************************************************************************)
(* A Client at work (client.go): a subscription, as module Subscription    *)
(* has it, and a unary call that goes through the interceptors New chains, *)
(* on one connection and under one context.  Every unary method of the     *)
(* three services is such a call; what it asks of the Core is left to the  *)
(* other modules.                                                          *)
(*                                                                         *)
(* A definition marked "Slip" is no part of the specification: it is a     *)
(* plausible wrong form of the definition after it, which the properties   *)
(* must reject.                                                            *)
(***************************************************************************)
EXTENDS Subscription

CONSTANTS
    DefaultRetries,  \* maxRetries when no option is given
    RetryOptions     \* what WithMaxRetries may be given, negative values too

ASSUME ConnectionAssumption ==
    /\ DefaultRetries \in Nat
    /\ RetryOptions \subseteq Int
    /\ \A n \in RetryOptions \cup {DefaultRetries} : n <= Ceiling

VARIABLES
    retries,  \* Client.maxRetries
    call,     \* "idle", "invoke", "served", "failed", "pause" or "returned"
    tries,    \* the number of the attempt, from 0
    ran,      \* how often the Core ran what was asked of it
    answer    \* what the last attempt, and in the end the call, returned

callVars == <<retries, call, tries, ran, answer>>
clientVars == <<vars, callVars>>

CallTypeOK ==
    /\ retries \in RetryOptions \cup {DefaultRetries}
    /\ call \in {"idle", "invoke", "served", "failed", "pause", "returned"}
    /\ tries \in 0 .. Ceiling
    /\ ran \in 0 .. Ceiling + 1
    /\ answer \in {"none", "ok", "unavailable", "fatal", "cancelled"}

\* New: the options are applied over the defaults.
ClientInit ==
    /\ Init
    /\ retries \in RetryOptions \cup {DefaultRetries}
    /\ call = "idle"
    /\ tries = 0
    /\ ran = 0
    /\ answer = "none"

-----------------------------------------------------------------------------
(* retryUnaryInterceptor and the stub it invokes *)

\* Slip: the option is taken as it is.
Unclamped == retries

\* max(maxRetries, 0)
Limit == IF retries > 0 THEN retries ELSE 0

\* The round n of the loop, or what the loop ends with: the error of its last
\* round, nil when there was none.
Round(n) ==
    /\ tries' = n
    /\ IF n <= Limit
       THEN call' = "invoke" /\ UNCHANGED answer
       ELSE call' = "returned" /\ answer' = IF answer = "none" THEN "ok" ELSE answer
    /\ UNCHANGED <<retries, ran, vars>>

\* A method of the Client calls its stub; GetCurrencyPairs, say, does nothing
\* more than that and copy the answer.
Call == call = "idle" /\ Round(0)

\* The request reaches the Core, which does what it asks.
Serve ==
    /\ call = "invoke"
    /\ net = "up" /\ ~ ctx
    /\ call' = "served"
    /\ ran' = ran + 1
    /\ UNCHANGED <<retries, tries, answer, vars>>

Ends(e) ==
    /\ call' = IF e = "ok" THEN "returned" ELSE "failed"
    /\ answer' = e
    /\ UNCHANGED <<retries, tries, ran, vars>>

\* The stub returns: with an answer, with an error of the Core, with the
\* connection lost before or after the Core ran the call, or cancelled.
Invoked ==
    \/ call = "served" /\ net = "up" /\ ~ ctx /\ Ends("ok")
    \/ call \in {"invoke", "served"} /\ net = "down" /\ Ends("unavailable")
    \/ call \in {"invoke", "served"} /\ ctx /\ Ends("cancelled")

\* The Core refuses the request: it is overloaded, or the request is wrong.
Refused ==
    /\ call = "invoke"
    /\ net = "up" /\ ~ ctx
    /\ Ends("unavailable") \/ Ends("fatal")

\* Unavailable and ResourceExhausted
Retryable(e) == e = "unavailable"

GivesUp == ~ Retryable(answer) \/ tries = Limit

\* The error is returned, or the wait before the next attempt begins.
Decide ==
    /\ call = "failed"
    /\ call' = IF GivesUp THEN "returned" ELSE "pause"
    /\ UNCHANGED <<retries, tries, ran, answer, vars>>

\* The timer fires; with the context done as well, either may be taken.
Again == call = "pause" /\ Round(tries + 1)

PauseCancelled ==
    /\ call = "pause"
    /\ ctx
    /\ call' = "returned"
    /\ answer' = "cancelled"
    /\ UNCHANGED <<retries, tries, ran, vars>>

Unary == Call \/ Serve \/ Invoked \/ Refused \/ Decide \/ Again \/ PauseCancelled

ClientNext ==
    \/ Next /\ UNCHANGED callVars
    \/ Unary

\* An attempt under way ends, one way or another; the loop goes on.
ClientSpec ==
    /\ ClientInit /\ [][ClientNext]_clientVars
    /\ Fairness
    /\ WF_clientVars(Serve)
    /\ WF_clientVars(Invoked)
    /\ WF_clientVars(Decide \/ Again)
-----------------------------------------------------------------------------

\* What a call returns is true: nil only when the Core ran it, whatever
\* maxRetries is; an outage only once every attempt is spent; a cancelled
\* context only when it is; and the Core ran it no oftener than there were
\* attempts (retry.go:24-43).
AnswerIsTrue ==
    /\ call = "returned" =>
        /\ answer = "ok" => ran > 0
        /\ answer = "unavailable" => \A n \in 1 .. retries : n <= tries
        /\ answer = "cancelled" => ctx
    /\ ran <= tries + 1

\* A call that was made returns, through outages, cancellation and a
\* connection that died without a word, although no call has a deadline of its
\* own (retry.go:26-41, client.go:98-106).
CallReturns == call = "invoke" ~> call = "returned"
=============================================================================
