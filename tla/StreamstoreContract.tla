------------------------ MODULE StreamstoreContract ------------------------
(***************************************************************************)
(* What the Streamstore interface of streamstore/streamstore.go promises   *)
(* its callers, without streams, queues, goroutines or the lock: at most   *)
(* one stream per peer and no more than the capacity in each direction,    *)
(* and exactly one answer for every peer a transaction was accepted for,   *)
(* whatever happens to that peer's stream in the meantime.                 *)
(***************************************************************************)
EXTENDS Integers, FiniteSets

CONSTANTS
  Peer,              \* peer identifiers
  Tx,                \* transactions in flight
  InboundCapacity,   \* most inbound streams held at once
  OutboundCapacity   \* most outbound streams held at once

VARIABLES
  held,    \* held[p]: "none", or the direction of the stream held for p
  answer   \* answer[t][p]: what transaction t knows of peer p

vars == <<held, answer>>

Answers == {"none", "pending", "ok", "error", "full"}

TypeOK ==
  /\ held \in [Peer -> {"none", "in", "out"}]
  /\ answer \in [Tx -> [Peer -> Answers]]

Init ==
  /\ held = [p \in Peer |-> "none"]
  /\ answer = [t \in Tx |-> [p \in Peer |-> "none"]]

WithinCapacity(h) ==
  /\ Cardinality({p \in Peer : h[p] = "in"}) <= InboundCapacity
  /\ Cardinality({p \in Peer : h[p] = "out"}) <= OutboundCapacity

\* A stream is accepted for p in direction d; it replaces the one held before.
Accept(p, d) ==
  /\ held' = [held EXCEPT ![p] = d]
  /\ WithinCapacity(held')
  /\ UNCHANGED answer

\* The streams of the peers in P are given up.
Lose(P) ==
  /\ held' = [p \in Peer |-> IF p \in P THEN "none" ELSE held[p]]
  /\ UNCHANGED answer

\* A transaction is accepted for a peer only while a stream is held for it;
\* it may be refused at any time because the queue is full.
Ask(t, p) ==
  /\ answer[t][p] = "none"
  /\ \E a \in {"pending", "full"} :
       /\ a = "pending" => held[p] # "none"
       /\ answer' = [answer EXCEPT ![t][p] = a]
  /\ UNCHANGED held

Answer(t, p) ==
  /\ answer[t][p] = "pending"
  /\ \E a \in {"ok", "error"} : answer' = [answer EXCEPT ![t][p] = a]
  /\ UNCHANGED held

\* The caller has what it wanted and drops the map of answers.
Forget(t) ==
  /\ \A p \in Peer : answer[t][p] # "pending"
  /\ answer' = [answer EXCEPT ![t] = [p \in Peer |-> "none"]]
  /\ UNCHANGED held

Next ==
  \/ \E p \in Peer, d \in {"in", "out"} : Accept(p, d)
  \/ \E P \in SUBSET Peer : Lose(P)
  \/ \E t \in Tx, p \in Peer : Ask(t, p) \/ Answer(t, p)
  \/ \E t \in Tx : Forget(t)

\* Without liveness: this is the part the proofs establish.
SafeSpec == Init /\ [][Next]_vars

\* With it: an accepted transaction is answered.
Spec == SafeSpec /\ \A t \in Tx, p \in Peer : WF_vars(Answer(t, p))
=============================================================================
