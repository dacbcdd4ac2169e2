--------------------------- MODULE MCRoutingTable ---------------------------
(***************************************************************************)
(* Instances of RoutingTable for TLC.                                      *)
(***************************************************************************)
EXTENDS RoutingTable, TLC

\* Peers and callers are interchangeable.
Symmetry == Permutations(Peer) \union Permutations(Caller)
=============================================================================
