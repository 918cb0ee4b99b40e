------------------------------ MODULE Amounts ------------------------------
(***************************************************************************)
(* Settlement and fee of a trade (TradeEvent.Cal, pkg.Percentage), and the *)
(* rounding of the NUMERIC(28,6) columns they are stored in.               *)
(*                                                                         *)
(* A quantity, a rate or a percentage is a whole number of steps of the    *)
(* sixth decimal.  An amount is a whole number of grains, so fine that a   *)
(* product of a quantity, a rate and a percentage is exact in them, as it  *)
(* is in the SDK's decimals before it rounds.                              *)
(*                                                                         *)
(* A definition marked "Slip" is no part of the specification: it is a     *)
(* plausible wrong form of the definition after it, which the properties   *)
(* must reject.                                                            *)
(***************************************************************************)
EXTENDS Integers

CONSTANTS
    Unit,       \* steps in 1: a million, fewer for TLC
    NoFee,      \* an order whose fee configuration has no "fixed"
    BadFee      \* one whose "fixed" is not a number

ASSUME AmountsAssumption ==
    /\ Unit \in Nat \ {0}
    /\ NoFee \notin Int
    /\ BadFee \notin Int
    /\ NoFee # BadFee

Fees == Nat \cup {NoFee, BadFee}
Sides == {"buy", "sell"}
Movement == [settlement : Int, fee : Int]

\* Grains in a step; a percentage is over a hundred.
Micro == 100 * Unit * Unit

\* RoundBank(6): to a whole step, half to the even one.
RoundBank(v) ==
    LET q == v \div Micro
        r == v % Micro
    IN  Micro * (IF 2 * r > Micro \/ (2 * r = Micro /\ q % 2 = 1) THEN q + 1 ELSE q)

\* What a NUMERIC(28,6) column makes of a value: half away from zero.
Numeric(v) ==
    LET q == v \div Micro
        r == v % Micro
    IN  Micro * (IF 2 * r > Micro \/ (2 * r = Micro /\ v >= 0) THEN q + 1 ELSE q)

\* Slip: left to the column to round.
PercentageRaw(m, p) == m * p

\* pkg.Percentage of an amount of m / (100 Unit) grains.
Percentage(m, p) == RoundBank(m * p)

\* "fixed" of the configuration, "0" when it is not there.
Fixed(f) == IF f = NoFee THEN 0 ELSE f

\* Cal comes to a result.
Computable(f) == f # BadFee

Cal(qty, rate, side, f) ==
    LET m == qty * rate
        fee == Percentage(m, Fixed(f))
        gross == 100 * Unit * m
    IN  [settlement |-> RoundBank(IF side = "buy" THEN gross + fee ELSE gross - fee),
         fee |-> fee]

\* What the row of a trade holds of it.
Written(mv) == [settlement |-> Numeric(mv.settlement), fee |-> Numeric(mv.fee)]
=============================================================================
