---------------------------- MODULE MCConnection ----------------------------
(* A small instance of Connection for TLC. *)
EXTENDS Connection

\* WithMaxRetries takes any int.
MCRetryOptions == {-1, 0}
=============================================================================
