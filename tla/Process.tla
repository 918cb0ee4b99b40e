------------------------------ MODULE Process ------------------------------
(***************************************************************************)
(* The life of a partner's process, as example/main.go has it: four        *)
(* goroutines of one error group under one context, the orders the         *)
(* foreground submits meanwhile, a signal that ends them, and fatal errors *)
(* that end the process over their heads.  The goroutine that reconciles   *)
(* is module ReconcileSchedule; the two subscriptions and the ticker of    *)
(* RetryUnsettled run or have returned, what they do is left to their own  *)
(* modules.                                                                *)
(*                                                                         *)
(* A definition marked "Slip" is no part of the specification: it is a     *)
(* plausible wrong form of the definition after it, which the properties   *)
(* must reject.                                                            *)
(***************************************************************************)
EXTENDS ReconcileSchedule

Subscriptions == {"events", "trades"}
Goroutines == Subscriptions \cup {"retry", "hours"}

VARIABLES
    main,  \* the foreground: "down", in its "calls" to the Core, or at "wait"
    gone,  \* goroutines that have returned, each with an error
    done,  \* whether the context of the group is cancelled
    told   \* whether the process was interrupted

procVars == <<main, gone, done, told>>

ProcTypeOK ==
    /\ main \in {"down", "calls", "wait"}
    /\ gone \subseteq Goroutines
    /\ done \in BOOLEAN
    /\ told \in BOOLEAN

ProcInit == Init /\ main = "down" /\ gone = {} /\ done = FALSE /\ told = FALSE

Up == main # "down"

-----------------------------------------------------------------------------
(* Starting *)

\* What the command line may give; "ids" are the flags main and New insist on.
Flags == {"ids", "insecure", "mTLS", "cert", "key"}

\* A certificate and its key come together, or not at all.
TLSLoads(flags) == "cert" \in flags <=> "key" \in flags

Configured(flags) ==
    /\ "ids" \in flags
    /\ "insecure" \in flags \/ "mTLS" \notin flags \/ TLSLoads(flags)

\* The client is there, and the goroutines are started.
Launch ==
    /\ \E flags \in SUBSET Flags : Configured(flags)
    /\ Boot
    /\ main' = "calls"
    /\ UNCHANGED <<gone, done, told>>

-----------------------------------------------------------------------------
(* The goroutines *)

\* A goroutine returns its error, and the group cancels the context.
Returns(g) ==
    /\ g \notin gone
    /\ gone' = gone \cup {g}
    /\ done' = TRUE
    /\ UNCHANGED <<main, told, vars>>

\* Cancelled, or ended by an error not worth a retry (Subscription.Return).
SubscriptionEnds(g) == Up /\ Returns(g)

\* Slip: an error of RetryUnsettled ends the goroutine.
RetryGivesUp == Up /\ Returns("retry")

\* The ticker ends with the context only; an error of RetryUnsettled is logged.
RetryEnds == Up /\ done /\ Returns("retry")

\* Slip: the loop of the timer does not look at the context.
HoursEndEarly == Up /\ done /\ pc = "work" /\ Len(todo) > 1 /\ Returns("hours")

\* The context is looked at while waiting for the timer, and before each hour
\* of the catch-up but the last.
HoursEnd ==
    /\ Up /\ done
    /\ pc = "sleep" \/ (pc = "work" /\ Len(todo) > 1)
    /\ Returns("hours")

\* A repair under a cancelled context fails, and the hour is passed over.
HourCancelled ==
    /\ done /\ pc = "work"
    /\ asked' = Head(todo)
    /\ todo' = Tail(todo)
    /\ pc' = IF todo' = <<>> THEN "done" ELSE "work"
    /\ late' = TRUE
    /\ UNCHANGED <<now, slot, due, recorded, fails, boots>>

Hours ==
    /\ Up /\ "hours" \notin gone
    /\ Plan \/ ReconcileHour \/ HourCancelled \/ SetTimer \/ Fire
    /\ UNCHANGED procVars

-----------------------------------------------------------------------------
(* The foreground *)

\* The process ends: deferred calls are skipped, nobody is waited for.
Exit ==
    /\ Stop
    /\ main' = "down"
    /\ gone' = {} /\ done' = FALSE /\ told' = FALSE

\* The foreground lists the currency pairs, submits its orders, lists the
\* client's orders and the book, and cancels one.  Every call returns; the next
\* follows, or g.Wait after the last.
Called ==
    /\ main = "calls"
    /\ main' = "wait"
    /\ UNCHANGED <<gone, done, told, vars>>

\* The error of a limit order other than the duplicate of one of the last
\* minute, of a filter or of a cancel is fatal, a cancelled context among them,
\* and so is finding no open order to cancel.
CallFatal == main = "calls" /\ Exit

\* g.Wait returns the first error once every goroutine is back.
AllBack == main = "wait" /\ gone = Goroutines /\ Exit

Foreground == Called \/ CallFatal \/ AllBack

Interrupt ==
    /\ Up /\ ~ told
    /\ told' = TRUE /\ done' = TRUE
    /\ UNCHANGED <<main, gone, vars>>

Kill == Up /\ Exit

ProcNext ==
    \/ Tick /\ UNCHANGED procVars
    \/ Launch
    \/ \E g \in Subscriptions : SubscriptionEnds(g)
    \/ RetryEnds \/ HoursEnd \/ Hours
    \/ Foreground \/ Interrupt \/ Kill

\* Under a cancelled context every goroutine gets to the place where it looks
\* at it, and the calls of the foreground return.
ProcSpec ==
    /\ ProcInit /\ [][ProcNext]_<<vars, procVars>>
    /\ \A g \in Subscriptions : WF_<<vars, procVars>>(done /\ SubscriptionEnds(g))
    /\ WF_<<vars, procVars>>(RetryEnds)
    /\ WF_<<vars, procVars>>(HoursEnd)
    /\ WF_<<vars, procVars>>(Hours)
    /\ WF_<<vars, procVars>>(Foreground)
-----------------------------------------------------------------------------

\* The context is cancelled only by a signal or by the end of a subscription:
\* a repair, a diff or a retry that fails, however often, stops nothing
\* (main.go:143-159, 173-193).
CancelledForCause == done => told \/ gone \cap Subscriptions # {}

\* The process does not live on with some of its goroutines: a subscription
\* that ended, or a signal, ends it, whatever the catch-up of hours and the
\* calls of the foreground are at (main.go:72-74, 208-217, 385-387).
EndsTogether == done ~> ~ Up
=============================================================================
