-------------------------- MODULE MCOrderLifecycle --------------------------
(* Small instances of OrderLifecycle for TLC. *)
EXTENDS OrderLifecycle, TLC

CONSTANTS o1, o2, t1, t2, t3

\* Two fills of the first order, which may leave a part of it; one that fills
\* the second.
MCQty == o1 :> 4 @@ o2 :> 1
MCOrderOf == t1 :> o1 @@ t2 :> o1 @@ t3 :> o2
MCFill == t1 :> 1 @@ t2 :> 2 @@ t3 :> 1

\* One order, whose two fills take all of it.
OneQty == o1 :> 3
OneOrderOf == t1 :> o1 @@ t2 :> o1
OneFill == t1 :> 1 @@ t2 :> 2
=============================================================================
