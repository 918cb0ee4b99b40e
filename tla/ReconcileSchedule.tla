------------------------- MODULE ReconcileSchedule -------------------------
(***************************************************************************)
(* When hours are reconciled: the goroutine of example/main.go that runs   *)
(* ReconcileRepair for every closed hour of the day at start-up and then   *)
(* at five past each hour, with the process stopping and starting again.   *)
(* The clock goes on between any two statements.  What a repair does is    *)
(* left to Reconciliation; here it takes time and records the hour, or     *)
(* fails and leaves it as it was.                                          *)
(*                                                                         *)
(* A definition marked "Slip" is no part of the specification: it is a     *)
(* plausible wrong form of the definition after it, which the properties   *)
(* must reject.                                                            *)
(***************************************************************************)
EXTENDS Calendar, Sequences, SequencesExt

CONSTANTS
    Past,      \* ticks past the hour: the five minutes
    Horizon,   \* how many ticks a behaviour lasts
    MaxFails,  \* how many repairs may fail
    MaxBoots   \* how many times the process starts

ASSUME ScheduleAssumption ==
    /\ Past \in 0 .. HourLen - 1
    /\ Horizon \in Nat
    /\ MaxFails \in Nat
    /\ MaxBoots \in Nat

VARIABLES
    now,       \* the clock, in UTC
    pc,        \* "down", "read", "work", "done" or "sleep"
    slot,      \* what PreviousHour returned at start-up
    todo,      \* slots to reconcile
    due,       \* the wall clock the timer is set for
    recorded,  \* slots with a row in reconciliations
    asked,     \* the last slot handed to ReconcileRepair
    late,      \* history: a timer of this start fired late, or a run of
               \* repairs lasted past the end of an hour or was cut short
    fails,     \* repairs that failed so far
    boots      \* starts so far

vars == <<now, pc, slot, todo, due, recorded, asked, late, fails, boots>>

NoSlot == [day |-> -1, hour |-> -1]
Slots == [day : Int, hour : 0 .. DayHours - 1]

TypeOK ==
    /\ now \in 0 .. Horizon
    /\ pc \in {"down", "read", "work", "done", "sleep"}
    /\ slot \in Slots \cup {NoSlot}
    /\ todo \in Seq(Slots)
    /\ due \in Int
    /\ recorded \subseteq Slots
    /\ asked \in Slots \cup {NoSlot}
    /\ late \in BOOLEAN
    /\ fails \in 0 .. MaxFails
    /\ boots \in 0 .. MaxBoots

Init ==
    /\ now = 0
    /\ pc = "down"
    /\ slot = NoSlot
    /\ todo = <<>>
    /\ due = 0
    /\ recorded = {}
    /\ asked = NoSlot
    /\ late = FALSE
    /\ fails = 0
    /\ boots = 0

Working == pc \in {"read", "work", "done"}

Tick ==
    /\ now < Horizon
    /\ now' = now + 1
    /\ late' = \/ late
               \/ Working /\ now' % HourLen = 0
               \/ pc = "sleep" /\ Wall(now') > due
    /\ UNCHANGED <<pc, slot, todo, due, recorded, asked, fails, boots>>

-----------------------------------------------------------------------------

\* The process starts and reads PreviousHour.
Boot ==
    /\ pc = "down"
    /\ boots < MaxBoots
    /\ boots' = boots + 1
    /\ slot' = PreviousHour(now)
    /\ pc' = "read"
    /\ UNCHANGED <<now, todo, due, recorded, asked, late, fails>>

\* Slip: only the last closed hour is done at start-up.
JustLast(last, today) == <<last>>

\* The closed hours of the day up to the last, or the last alone when it is
\* another day's.
CatchUp(last, today) ==
    IF last.day = today
    THEN [i \in 1 .. last.hour |-> [day |-> today, hour |-> i - 1]] \o <<last>>
    ELSE <<last>>

Plan ==
    /\ pc = "read"
    /\ todo' = CatchUp(slot, Today(now))
    /\ pc' = "work"
    /\ UNCHANGED <<now, slot, due, recorded, asked, late, fails, boots>>

\* reconcileHour for the next slot: the row of the hour is written, or an
\* error is logged and the hour is passed over.
ReconcileHour ==
    /\ pc = "work"
    /\ asked' = Head(todo)
    /\ todo' = Tail(todo)
    /\ \/ recorded' = recorded \cup {asked'} /\ UNCHANGED fails
       \/ fails < MaxFails /\ fails' = fails + 1 /\ UNCHANGED recorded
    /\ pc' = IF todo' = <<>> THEN "done" ELSE "work"
    /\ UNCHANGED <<now, slot, due, late, boots>>

\* Past minutes past the next full hour, by the clock as it is now.
SetTimer ==
    /\ pc = "done"
    /\ due' = (Wall(now) \div HourLen + 1) * HourLen + Past
    /\ pc' = "sleep"
    /\ UNCHANGED <<now, slot, todo, recorded, asked, late, fails, boots>>

Fire ==
    /\ pc = "sleep"
    /\ Wall(now) >= due
    /\ todo' = <<PreviousHour(now)>>
    /\ pc' = "work"
    /\ UNCHANGED <<now, slot, due, recorded, asked, late, fails, boots>>

Stop ==
    /\ pc # "down"
    /\ pc' = "down"
    /\ todo' = <<>>
    /\ slot' = NoSlot
    /\ late' = FALSE
    /\ UNCHANGED <<now, due, recorded, asked, fails, boots>>

Next == Tick \/ Boot \/ Plan \/ ReconcileHour \/ SetTimer \/ Fire \/ Stop

Spec == Init /\ [][Next]_vars
-----------------------------------------------------------------------------

\* Only a closed hour is handed to ReconcileRepair: at no time is the end of
\* its window ahead of the clock, across midnight too (reconcile.go:78-80,
\* timezone.go:64-76).
OnlyClosedHours == asked # NoSlot => WindowTo(asked) <= Wall(now)

\* The closed hours of the day that are not the timer's next.
OwedToday ==
    {s \in [day : {Today(now)}, hour : 0 .. DayHours - 1] : WindowTo(s) + HourLen < due}

\* While the process waits for its timer no closed hour of the day is left
\* out, whenever the process was started and however often, unless a repair
\* failed or the process fell behind the clock (main.go:160-162).
TodayIsCovered ==
    pc = "sleep" /\ fails = 0 /\ ~ late => OwedToday \subseteq recorded
=============================================================================
