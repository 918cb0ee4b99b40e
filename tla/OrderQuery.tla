------------------------------ MODULE OrderQuery ------------------------------
(***************************************************************************)
(* FilterClientOrders (order.go:266-339) beside SubmitOrder: a goroutine   *)
(* asks the Core for the orders of a client between two days, and where it *)
(* names none the SDK takes today and tomorrow from the clock of its host. *)
(* The days they are compared with are of UTC+05:00.                       *)
(*                                                                         *)
(* The Core is external.  It is taken to hold every row, and to include    *)
(* both days, as the month asked for in README.md:581-582 has them.  The   *)
(* filters that narrow the answer further are left out.                    *)
(***************************************************************************)
EXTENDS DuplicateProbe

CONSTANTS
    Readers,    \* goroutines that call FilterClientOrders
    Whos,       \* the clients they may ask for
    AnyDay,     \* a day parameter left empty
    NoRequest,  \* what request holds while a reader has none out
    HostBehind  \* by how many ticks the host's clock is behind UTC+05:00

ASSUME QueryAssumption == HostBehind \in 0 .. DayLength

VARIABLE request  \* the request a reader has out, and the day it called on

queryVars == <<vars, request>>

\* The date on the host's clock.
HostDay == (now - HostBehind) \div DayLength

From(day) == IF day = AnyDay THEN HostDay ELSE day

\* Slip: today only.
ToToday(day) == IF day = AnyDay THEN HostDay ELSE day

To(day) == IF day = AnyDay THEN HostDay + 1 ELSE day

QueryInit == Init /\ request = [r \in Readers |-> NoRequest]

\* The request leaves with the days the caller named, or the host's.
FilterClientOrders(r) ==
    /\ request[r] = NoRequest
    /\ \E who \in Whos, from, to \in {AnyDay, Day(now)} :
           request' = [request EXCEPT ![r] = [who |-> who, from |-> From(from),
                                              to |-> To(to), calledOn |-> Day(now)]]
    /\ UNCHANGED vars

\* What the Core finds.
Found(q) == {i \in DOMAIN rows : /\ rows[i].key.who = q.who
                                 /\ rows[i].day \in q.from .. q.to}

\* It answers, perhaps on a later day.
Answered(r) ==
    /\ request[r] # NoRequest
    /\ request' = [request EXCEPT ![r] = NoRequest]
    /\ UNCHANGED vars

QueryNext ==
    \/ Next /\ UNCHANGED request
    \/ \E r \in Readers : FilterClientOrders(r) \/ Answered(r)

QuerySpec == QueryInit /\ [][QueryNext]_queryVars

-----------------------------------------------------------------------------

\* A caller that names no day, or today, finds the orders of the day it called
\* on, whatever day the clock of a host west of UTC+05:00 shows and whenever
\* the Core answers (order.go:275-285, types.go:170-181).
TodaysOrdersAreFound ==
    \A r \in Readers : request[r] # NoRequest =>
        {i \in DOMAIN rows : /\ rows[i].key.who = request[r].who
                             /\ rows[i].day = request[r].calledOn}
            \subseteq Found(request[r])
===============================================================================
