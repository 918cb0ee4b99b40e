------------------------------ MODULE Calendar ------------------------------
(***************************************************************************)
(* Days and hours as the SDK counts them (timezone.go and the window of    *)
(* reconcile.go).  An instant is a number of ticks since an epoch in UTC,  *)
(* a wall clock a number of ticks since the same epoch on the spot, a day  *)
(* a number of days since it.  Formatting a day or a bound and parsing it  *)
(* again gives it back, so that dates stay numbers here.                   *)
(*                                                                         *)
(* A definition marked "Slip" is no part of the specification: it is a     *)
(* plausible wrong form of the definition after it, which the properties   *)
(* must reject.                                                            *)
(***************************************************************************)
EXTENDS Integers

CONSTANTS
    HourLen,    \* ticks in an hour
    DayHours,   \* hours in a day
    Offset      \* tzOffsetHours: hours the SDK's zone is east of UTC

ASSUME CalendarAssumption ==
    /\ HourLen \in Nat \ {0}
    /\ DayHours \in Nat \ {0}
    /\ Offset \in Int

DayLen == DayHours * HourLen

\* now.In(TimeZone)
Wall(now) == now + Offset * HourLen

\* The day and the hour of the day a wall clock shows.
SlotAt(wall) == [day |-> wall \div DayLen, hour |-> (wall \div HourLen) % DayHours]

Today(now) == SlotAt(Wall(now)).day

\* Slip: the hour in progress.
ThisHour(now) == SlotAt(Wall(now))

\* Slip: one hour less, with no thought of midnight.
HourBefore(now) == [ThisHour(now) EXCEPT !.hour = @ - 1]

\* The last completed hour, with its own day.
PreviousHour(now) == SlotAt(Wall(now) - HourLen)

\* The bounds of the window of a slot, from the first to before the second.
WindowFrom(slot) == slot.day * DayLen + slot.hour * HourLen
WindowTo(slot) == WindowFrom(slot) + HourLen
=============================================================================
