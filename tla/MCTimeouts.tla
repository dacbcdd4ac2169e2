----------------------------- MODULE MCTimeouts -----------------------------
(***************************************************************************)
(* Instances of Timeouts for TLC.                                          *)
(***************************************************************************)
EXTENDS Timeouts

\* A size and a timestamp, of two bytes each.
TwoNumbers == <<[width |-> 2, signed |-> FALSE], [width |-> 2, signed |-> TRUE]>>
=============================================================================
