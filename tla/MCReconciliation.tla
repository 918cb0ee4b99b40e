-------------------------- MODULE MCReconciliation --------------------------
(* Small instances of Reconciliation for TLC. *)
EXTENDS Reconciliation

K(t, o) == [tid |-> t, oid |-> o]

\* A blind spot of the id-only checksum: a pair of trades that mirror each
\* other.
MirrorKeys == {K(1, 2), K(2, 1)}
PairKeys == {K(1, 2), K(2, 3)}

Row(terms, type, timed) == [terms |-> terms, ref |-> 1, type |-> type, timed |-> timed]
PlainRows == {Row("a", 1, TRUE)}

\* Rows that differ in nothing but their trade type, and one with other terms
\* that reports no type and has no execution time.
MixedRows == {Row("a", 1, TRUE), Row("a", 2, TRUE), Row("b", 0, FALSE)}
=============================================================================
