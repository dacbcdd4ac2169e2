----------------------------- MODULE MCProcess -----------------------------
(***************************************************************************)
(* Instances of Process for TLC.                                           *)
(***************************************************************************)
EXTENDS Process, TLC

CONSTANTS p1, p2, s1, s2

\* A stream of each peer, and two streams of one peer (the second replaces the
\* first while the goroutine of the first still runs).
TwoPeers == s1 :> p1 @@ s2 :> p2
OnePeer == s1 :> p1 @@ s2 :> p1

Symmetry == Permutations(Checksum)

\* seen is read by ExcludedHaveSeen only, and whether a stream is forgotten only
\* while its artifact is on its way.
WithoutSeen ==
  <<pc, checksum, witnesses, caches, queues, closer, unread, closed, admitted,
    {s \in forgotten : pc[s] \in {"queueing", "waiting"}}>>
=============================================================================
