------------------------------ MODULE Pairing ------------------------------
(***************************************************************************)
(* Pairing: how two clients come to hold the two ends of one stream in     *)
(* their stream stores, and how they lose them.  pair and pairHandler of   *)
(* p2p/pair.go, replenishStreamstore of p2p/connect.go, which calls pair,  *)
(* and the end of process in p2p/process.go.                               *)
(*                                                                         *)
(* Of a stream store only the registered stream of every peer is kept and  *)
(* Add and Remove are one step; module Streamstore has the rest.  A stream *)
(* that was closed at one end is read to its end at the other.             *)
(***************************************************************************)
EXTENDS Integers, FiniteSets

CONSTANTS
  Node,              \* clients, each the peer of the others
  Discovering,       \* those whose config does not disable stream discovery
  Stream,            \* stream handles; reused when both ends are done with one
  InboundCapacity,   \* config.StreamstoreInboundCapacity
  OutboundCapacity,  \* config.StreamstoreOutboundCapacity
  None               \* no stream, no client

ASSUME PairingAssumption ==
  /\ IsFiniteSet(Node) /\ Discovering \subseteq Node
  /\ InboundCapacity \in Nat \ {0}
  /\ OutboundCapacity \in Nat \ {0}
  /\ None \notin Node \union Stream

VARIABLES
  from,    \* from[s]: the client that opened s
  to,      \* to[s]: the client that accepted it
  stage,   \* stage[s][n]: what client n is doing with its end of s
  closed,  \* closed[s]: the clients that closed their end
  reply,   \* reply[s]: what pairHandler sent that pair has not read
  reg,     \* reg[n][m]: the stream registered for peer m in the store of n
  round    \* round[n]: where n is in replenishStreamstore

streamVars == <<from, to, stage, closed, reply>>
vars == <<streamVars, reg, round>>

Stages == {"none", "asking", "arriving", "acking", "rejecting", "processing", "done"}
Rounds == [at : {"waiting", "counted", "listing", "pairing", "stopped"},
           need : 0 .. OutboundCapacity, left : SUBSET Node]

TypeOK ==
  /\ from \in [Stream -> Node \union {None}]
  /\ to \in [Stream -> Node \union {None}]
  /\ stage \in [Stream -> [Node -> Stages]]
  /\ closed \in [Stream -> SUBSET Node]
  /\ reply \in [Stream -> {"none", "ack", "nak"}]
  /\ reg \in [Node -> [Node -> Stream \union {None}]]
  /\ round \in [Node -> Rounds]

Waiting == [at |-> "waiting", need |-> 0, left |-> {}]
Stopped == [Waiting EXCEPT !.at = "stopped"]

Init ==
  /\ from = [s \in Stream |-> None]
  /\ to = [s \in Stream |-> None]
  /\ stage = [s \in Stream |-> [n \in Node |-> "none"]]
  /\ closed = [s \in Stream |-> {}]
  /\ reply = [s \in Stream |-> "none"]
  /\ reg = [n \in Node |-> [m \in Node |-> None]]
  /\ round = [n \in Node |-> IF n \in Discovering THEN Waiting ELSE Stopped]

-----------------------------------------------------------------------------
(* The stream stores *)

Inbound(n) == {m \in Node : reg[n][m] # None /\ from[reg[n][m]] # n}
Outbound(n) == {m \in Node : reg[n][m] # None /\ from[reg[n][m]] = n}

\* Client n closes what it has registered for m.
ClosedFor(n, m) == [s \in Stream |-> IF reg[n][m] = s THEN closed[s] \union {n} ELSE closed[s]]

\* Room for m in the direction of s once the stream registered for m is gone.
HasRoom(n, m, s) ==
  IF from[s] = n THEN Cardinality(Outbound(n) \ {m}) < OutboundCapacity
                 ELSE Cardinality(Inbound(n) \ {m}) < InboundCapacity

\* streamstore.Add and what follows when it returns true, or false.
Added(n, m, s) ==
  /\ HasRoom(n, m, s)
  /\ reg' = [reg EXCEPT ![n][m] = s]
  /\ closed' = ClosedFor(n, m)
NotAdded(n, m, s) ==
  /\ ~HasRoom(n, m, s)
  /\ reg' = [reg EXCEPT ![n][m] = None]

\* streamstore.Remove(m): whatever stream is registered for m by now.
Remove(n, m) ==
  /\ reg' = [reg EXCEPT ![n][m] = None]
  /\ closed' = ClosedFor(n, m)

-----------------------------------------------------------------------------
(* pair and pairHandler *)

IsFree(s) == \A n \in Node : stage[s][n] \in {"none", "done"} /\
                             (n \in {from[s], to[s]} => n \in closed[s])

\* NewStream: n waits for the answer, the handler of m starts.
Open(n, m, s) ==
  /\ n # m
  /\ IsFree(s)
  /\ from' = [from EXCEPT ![s] = n]
  /\ to' = [to EXCEPT ![s] = m]
  /\ stage' = [stage EXCEPT ![s] = [k \in Node |-> CASE k = n -> "asking"
                                                    [] k = m -> "arriving"
                                                    [] OTHER -> "none"]]
  /\ closed' = [closed EXCEPT ![s] = {}]
  /\ reply' = [reply EXCEPT ![s] = "none"]

Arrive(s) ==
  LET n == to[s]
      m == from[s] IN
  /\ n # None
  /\ stage[s][n] = "arriving"
  /\ \/ /\ Added(n, m, s)
        /\ stage' = [stage EXCEPT ![s][n] = "acking"]
     \/ /\ NotAdded(n, m, s)
        /\ closed' = ClosedFor(n, m)
        /\ stage' = [stage EXCEPT ![s][n] = "rejecting"]
  /\ UNCHANGED <<from, to, reply, round>>

\* The acknowledgement is written, unless the stream was replaced or removed
\* meanwhile, and process starts.
Acknowledge(s) ==
  LET n == to[s] IN
  /\ n # None
  /\ stage[s][n] = "acking"
  /\ n \notin closed[s]
  /\ reply' = [reply EXCEPT ![s] = "ack"]
  /\ stage' = [stage EXCEPT ![s][n] = "processing"]
  /\ UNCHANGED <<from, to, closed, reg, round>>

\* Writing it fails; after a timeout it may still go out.
AcknowledgeRetries(s) ==  \* mutated form: a write to a closed stream is tried again
  LET n == to[s] IN
  /\ n # None
  /\ stage[s][n] = "acking"
  /\ n \notin closed[s]
  /\ Remove(n, from[s])
  /\ stage' = [stage EXCEPT ![s][n] = "done"]
  /\ UNCHANGED <<from, to, reply, round>>
AcknowledgeFails(s) ==
  LET n == to[s] IN
  /\ n # None
  /\ stage[s][n] = "acking"
  /\ \/ UNCHANGED reply
     \/ n \notin closed[s] /\ reply' = [reply EXCEPT ![s] = "ack"]
  /\ Remove(n, from[s])
  /\ stage' = [stage EXCEPT ![s][n] = "done"]
  /\ UNCHANGED <<from, to, round>>

RejectKeeps(s) ==  \* mutated form: the stream is not closed
  LET n == to[s] IN
  /\ n # None
  /\ stage[s][n] = "rejecting"
  /\ reply' \in {reply, [reply EXCEPT ![s] = "nak"]}
  /\ stage' = [stage EXCEPT ![s][n] = "done"]
  /\ UNCHANGED <<from, to, closed, reg, round>>
Reject(s) ==
  LET n == to[s] IN
  /\ n # None
  /\ stage[s][n] = "rejecting"
  /\ reply' \in {reply, [reply EXCEPT ![s] = "nak"]}
  /\ closed' = [closed EXCEPT ![s] = @ \union {n}]
  /\ stage' = [stage EXCEPT ![s][n] = "done"]
  /\ UNCHANGED <<from, to, reg, round>>

\* pair reads the answer: with an acknowledgement the stream is added, if there
\* is room, and process starts.
ReadReply(s) ==
  LET n == from[s] IN
  /\ n # None
  /\ stage[s][n] = "asking"
  /\ reply[s] # "none"
  /\ reply' = [reply EXCEPT ![s] = "none"]
  /\ \/ /\ reply[s] = "ack"
        /\ Added(n, to[s], s)
        /\ stage' = [stage EXCEPT ![s][n] = "processing"]
     \/ /\ reply[s] = "ack"
        /\ NotAdded(n, to[s], s)
        /\ closed' = [ClosedFor(n, to[s]) EXCEPT ![s] = @ \union {n}]
        /\ stage' = [stage EXCEPT ![s][n] = "done"]
     \/ /\ reply[s] = "nak"
        /\ closed' = [closed EXCEPT ![s] = @ \union {n}]
        /\ stage' = [stage EXCEPT ![s][n] = "done"]
        /\ UNCHANGED reg
  /\ UNCHANGED <<from, to, round>>

\* No answer in time, or the stream ended without one.
ReadReplyFails(s) ==
  LET n == from[s] IN
  /\ n # None
  /\ stage[s][n] = "asking"
  /\ closed' = [closed EXCEPT ![s] = @ \union {n}]
  /\ stage' = [stage EXCEPT ![s][n] = "done"]
  /\ UNCHANGED <<from, to, reply, reg, round>>

-----------------------------------------------------------------------------
(* Losing a stream *)

\* process ends, on an error, an invalid artifact or the end of the stream, and
\* removes the peer, whichever stream is registered for it by then.
ProcessForgets(s, n) ==  \* mutated form: the peer is not removed
  /\ stage[s][n] = "processing"
  /\ stage' = [stage EXCEPT ![s][n] = "done"]
  /\ UNCHANGED <<from, to, closed, reply, reg, round>>
ProcessEnds(s, n) ==
  /\ stage[s][n] = "processing"
  /\ stage' = [stage EXCEPT ![s][n] = "done"]
  /\ Remove(n, IF from[s] = n THEN to[s] ELSE from[s])
  /\ UNCHANGED <<from, to, reply, round>>

\* It finds that the other side closed the stream.
SeesEnd(s, n) == closed[s] \ {n} # {} /\ ProcessEnds(s, n)

\* broadcast removes a peer that failed to receive an artifact.
BroadcastFails(n, m) ==
  /\ reg[n][m] # None
  /\ Remove(n, m)
  /\ UNCHANGED <<from, to, stage, reply, round>>

-----------------------------------------------------------------------------
(* replenishStreamstore, once a second *)

\* The number of streams needed is counted first.
Replenish(n) ==
  LET need == OutboundCapacity - Cardinality(Outbound(n)) IN
  /\ round[n].at = "waiting"
  /\ need > 0
  /\ round' = [round EXCEPT ![n] = [at |-> "counted", need |-> need, left |-> {}]]
  /\ UNCHANGED <<streamVars, reg>>

\* Then the inbound peers are listed, and then, under the lock anew, the outbound
\* ones; left are the clients, n itself among them, that n finds in neither list.
ListInbound(n) ==
  /\ round[n].at = "counted"
  /\ round' = [round EXCEPT ![n].at = "listing", ![n].left = Node \ Inbound(n)]
  /\ UNCHANGED <<streamVars, reg>>
ListOutbound(n) ==
  /\ round[n].at = "listing"
  /\ round' = [round EXCEPT ![n].at = "pairing", ![n].left = @ \ Outbound(n)]
  /\ UNCHANGED <<streamVars, reg>>

Busy(n) == \E s \in Stream : stage[s][n] = "asking"

\* Those left that are in the routing table are paired with, one after the other
\* and in any order, until enough were tried.  Which are in the table is decided
\* here, as late as possible.  The client cannot open a stream to itself.
PairUncounted(n, m) ==  \* mutated form: an attempt is not counted
  LET r == round[n] IN
  /\ r.at = "pairing" /\ ~Busy(n)
  /\ r.need > 0
  /\ m \in r.left
  /\ round' = [round EXCEPT ![n].left = @ \ {m}]
  /\ \/ \E s \in Stream : Open(n, m, s)
     \/ UNCHANGED streamVars
  /\ UNCHANGED reg
Pair(n, m) ==
  LET r == round[n] IN
  /\ r.at = "pairing" /\ ~Busy(n)
  /\ r.need > 0
  /\ m \in r.left
  /\ round' = [round EXCEPT ![n] = [at |-> "pairing", need |-> r.need - 1,
                                    left |-> IF r.need = 1 THEN {} ELSE r.left \ {m}]]
  /\ \/ \E s \in Stream : Open(n, m, s)
     \/ UNCHANGED streamVars   \* NewStream fails
  /\ UNCHANGED reg

\* Enough were tried, or no other peer left is in the routing table.
RoundEnds(n) ==
  /\ round[n].at = "pairing" /\ ~Busy(n)
  /\ round' = [round EXCEPT ![n] = Waiting]
  /\ UNCHANGED <<streamVars, reg>>

\* The shutdown function of discoverStreams takes effect between rounds.
StopDiscovery(n) ==
  /\ round[n].at = "waiting"
  /\ round' = [round EXCEPT ![n] = Stopped]
  /\ UNCHANGED <<streamVars, reg>>

-----------------------------------------------------------------------------
(* Specification *)

Next ==
  \/ \E s \in Stream :
       \/ Arrive(s) \/ Acknowledge(s) \/ AcknowledgeFails(s) \/ Reject(s)
       \/ ReadReply(s) \/ ReadReplyFails(s)
       \/ \E n \in Node : ProcessEnds(s, n)
  \/ \E n \in Node :
       \/ Replenish(n) \/ ListInbound(n) \/ ListOutbound(n)
       \/ RoundEnds(n) \/ StopDiscovery(n)
  \/ \E n, m \in Node : Pair(n, m) \/ BroadcastFails(n, m)

SafeSpec == Init /\ [][Next]_vars

\* Handlers and pair run, and their reads and writes end or time out.  Of process
\* nothing is assumed: nothing bounds how long it waits for an artifact to be read.
Fairness ==
  \A s \in Stream :
    /\ WF_vars(Arrive(s)) /\ WF_vars(Acknowledge(s) \/ AcknowledgeFails(s))
    /\ WF_vars(Reject(s)) /\ WF_vars(ReadReply(s) \/ ReadReplyFails(s))

Spec == SafeSpec /\ Fairness

-----------------------------------------------------------------------------
(* Properties *)

Ends(s) == {from[s], to[s]} \ {None}
PeerAt(s, n) == IF from[s] = n THEN to[s] ELSE from[s]

\* No stream is leaked: an end that is still open is registered with its owner,
\* or its handshake is under way, however often streams replace each other and
\* whichever way a handshake ends.
OpenIsOwned ==
  \A s \in Stream : \A n \in Ends(s) \ closed[s] :
    \/ reg[n][PeerAt(s, n)] = s
    \/ stage[s][n] \in {"asking", "arriving", "rejecting"}

\* Every registered stream is open and served by process, or about to be, so that
\* its end may be noticed.
RegisteredIsRead ==
  \A n, m \in Node, s \in Stream :
    reg[n][m] = s => /\ n \in Ends(s) /\ PeerAt(s, n) = m /\ n \notin closed[s]
                     /\ stage[s][n] \in {"acking", "processing"}

\* pair never opens a stream it has no room for: the count of replenishStreamstore
\* is taken long before Add tests the capacity, while streams come and go.
PairFindsRoom ==
  \A s \in Stream : LET n == from[s] IN
    n # None /\ stage[s][n] = "asking" => HasRoom(n, to[s], s)

\* A stream that one side gave up does not stay registered at the other, even
\* if both sides paired with each other at once and each kept another stream,
\* provided that process comes back to read it.  It need not: a payload awaited
\* from a third client holds it up for ever, see ProcessEnds in module Process.
HalfOpen(s) == \E n, m \in Node : reg[n][m] = s /\ m \in closed[s]
ProcessReads(s) == WF_vars(\E n \in Node : SeesEnd(s, n))
HalfOpenHeals == \A s \in Stream : ProcessReads(s) => (HalfOpen(s) ~> ~HalfOpen(s))

\* Every pairing comes to an end on both sides.
Handshake(s) == \E n \in Node : stage[s][n] \in {"asking", "arriving", "acking", "rejecting"}
PairingEnds == \A s \in Stream : Handshake(s) ~> ~Handshake(s)
=============================================================================
