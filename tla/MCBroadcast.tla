---------------------------- MODULE MCBroadcast ----------------------------
(***************************************************************************)
(* Instances of Broadcast for TLC.                                         *)
(***************************************************************************)
EXTENDS Broadcast, TLC

CONSTANTS p1, p2

\* The transactions of two artifacts of two, and of one of two.
TxTwoByTwo == (1 .. 2) \X (0 .. 1)
TxOneByTwo == {1} \X (0 .. 1)

Symmetry == Permutations(Stream)

\* p2 is a witness of every artifact: all it does is take room in the store.  p1 is
\* a witness of none, or perhaps of some.
OnlyOutsider == {{p2}}
Outsider == {{p2}, {p1, p2}}

\* The direction of a closed context and the last frame of an ended one are read
\* by no action and no property before they are set anew.
WithoutRemains ==
  <<lock, peers, owner, open, table, workVars, txVars, senderVars, collecting, received,
    [s \in Stream |-> open[s] /\ outbound[s]],
    [s \in Stream |-> IF owner[s] = None THEN None ELSE last[s]]>>
=============================================================================
