--------------------------- MODULE PairingProofs ---------------------------
(***************************************************************************)
(* Proofs about Pairing for any number of clients and streams and any      *)
(* capacities: no stream is leaked, every registered stream is read, and   *)
(* pair never opens a stream it has no room for.                           *)
(***************************************************************************)
EXTENDS Pairing, FiniteSetTheorems, TLAPS

LEMMA NoneDistinct == None \notin Node /\ None \notin Stream
BY PairingAssumption DEF PairingAssumption

-----------------------------------------------------------------------------
(* Types *)

LEMMA InitType == Init => TypeOK
BY PairingAssumption
DEF Init, TypeOK, Stages, Rounds, Waiting, Stopped, PairingAssumption

LEMMA ClosedForType ==
  ASSUME TypeOK, NEW n \in Node, NEW m \in Node PROVE ClosedFor(n, m) \in [Stream -> SUBSET Node]
BY DEF TypeOK, ClosedFor

LEMMA OutboundCount ==
  ASSUME NEW n \in Node
  PROVE  IsFiniteSet(Outbound(n)) /\ Cardinality(Outbound(n)) \in Nat
<1>1. Outbound(n) \subseteq Node /\ IsFiniteSet(Node)
  BY PairingAssumption DEF Outbound, PairingAssumption
<1> QED
  BY <1>1, FS_Subset, FS_CardinalityType

\* The number of streams needed is never more than there may be.
LEMMA NeedType ==
  ASSUME TypeOK, NEW n \in Node, Replenish(n) PROVE round' \in [Node -> Rounds]
<1> DEFINE need == OutboundCapacity - Cardinality(Outbound(n))
<1>1. need \in 0 .. OutboundCapacity
  BY OutboundCount, PairingAssumption DEF Replenish, PairingAssumption
<1>2. [at |-> "counted", need |-> need, left |-> {}] \in Rounds
  BY <1>1 DEF Rounds
<1>3. round' = [round EXCEPT ![n] = [at |-> "counted", need |-> need, left |-> {}]]
  BY DEF Replenish
<1> QED
  BY <1>2, <1>3 DEF TypeOK

\* The actions on one stream s, by what client n does to its end.
LEMMA StreamType ==
  ASSUME TypeOK, NEW s \in Stream, NEW n \in Node, NEW m \in Node, round' = round,
         from' = from, to' = to,
         reg' = reg \/ reg' = [reg EXCEPT ![n][m] = None] \/ reg' = [reg EXCEPT ![n][m] = s],
         \/ closed' = closed \/ closed' = ClosedFor(n, m)
         \/ closed' = [closed EXCEPT ![s] = @ \union {n}]
         \/ closed' = [ClosedFor(n, m) EXCEPT ![s] = @ \union {n}],
         \E k \in Stages : stage' = stage \/ stage' = [stage EXCEPT ![s][n] = k],
         \E k \in {"none", "ack", "nak"} : reply' = reply \/ reply' = [reply EXCEPT ![s] = k]
  PROVE  TypeOK'
<1>1. ClosedFor(n, m) \in [Stream -> SUBSET Node] /\ closed \in [Stream -> SUBSET Node]
  BY ClosedForType DEF TypeOK
<1>2. ASSUME NEW x \in Stream \union {None}
      PROVE  [reg EXCEPT ![n][m] = x] \in [Node -> [Node -> Stream \union {None}]]
  <2>1. [reg[n] EXCEPT ![m] = x] \in [Node -> Stream \union {None}]
    BY DEF TypeOK
  <2> QED
    BY <2>1 DEF TypeOK
<1>3. reg' \in [Node -> [Node -> Stream \union {None}]]
  <2>1. reg \in [Node -> [Node -> Stream \union {None}]]
    BY DEF TypeOK
  <2>2. CASE reg' = [reg EXCEPT ![n][m] = None]
    BY <1>2, <2>2
  <2>3. CASE reg' = [reg EXCEPT ![n][m] = s]
    BY <1>2, <2>3
  <2> QED
    BY <2>1, <2>2, <2>3
<1>4. closed' \in [Stream -> SUBSET Node]
  <2>1. [closed EXCEPT ![s] = @ \union {n}] \in [Stream -> SUBSET Node]
    BY <1>1
  <2>2. [ClosedFor(n, m) EXCEPT ![s] = @ \union {n}] \in [Stream -> SUBSET Node]
    BY <1>1
  <2> QED
    BY <1>1, <2>1, <2>2
<1>5. ASSUME NEW k \in Stages
      PROVE  [stage EXCEPT ![s][n] = k] \in [Stream -> [Node -> Stages]]
  <2>1. [stage[s] EXCEPT ![n] = k] \in [Node -> Stages]
    BY DEF TypeOK
  <2> QED
    BY <2>1 DEF TypeOK
<1>6. stage' \in [Stream -> [Node -> Stages]]
  <2>1. stage \in [Stream -> [Node -> Stages]]
    BY DEF TypeOK
  <2>2. PICK k \in Stages : stage' = stage \/ stage' = [stage EXCEPT ![s][n] = k]
    OBVIOUS
  <2> QED
    BY <1>5, <2>1, <2>2
<1> QED
  BY <1>3, <1>4, <1>6 DEF TypeOK

LEMMA OpenType ==
  ASSUME TypeOK, NEW n \in Node, NEW m \in Node, NEW s \in Stream, Open(n, m, s)
  PROVE  /\ from' \in [Stream -> Node \union {None}] /\ to' \in [Stream -> Node \union {None}]
         /\ stage' \in [Stream -> [Node -> Stages]] /\ closed' \in [Stream -> SUBSET Node]
         /\ reply' \in [Stream -> {"none", "ack", "nak"}]
<1>1. [k \in Node |-> CASE k = n -> "asking" [] k = m -> "arriving" [] OTHER -> "none"]
        \in [Node -> Stages]
  BY DEF Stages
<1> QED
  BY <1>1 DEF Open, TypeOK

LEMMA RoundType ==
  ASSUME TypeOK, NEW n \in Node,
         \/ ListInbound(n) \/ ListOutbound(n) \/ RoundEnds(n) \/ StopDiscovery(n)
         \/ \E m \in Node : Pair(n, m)
  PROVE  round' \in [Node -> Rounds]
<1>1. round[n] \in Rounds /\ OutboundCapacity \in Nat
  BY PairingAssumption DEF TypeOK, PairingAssumption
<1>2. CASE ListInbound(n)
  <2>1. [round[n] EXCEPT !.at = "listing", !.left = Node \ Inbound(n)] \in Rounds
    BY <1>1 DEF Rounds
  <2> QED
    BY <1>2, <2>1 DEF TypeOK, ListInbound
<1>3. CASE ListOutbound(n)
  <2>1. [round[n] EXCEPT !.at = "pairing", !.left = @ \ Outbound(n)] \in Rounds
    BY <1>1 DEF Rounds
  <2> QED
    BY <1>3, <2>1 DEF TypeOK, ListOutbound
<1>4. CASE RoundEnds(n) \/ StopDiscovery(n)
  <2>1. Waiting \in Rounds /\ Stopped \in Rounds
    BY <1>1 DEF Rounds, Waiting, Stopped
  <2> QED
    BY <1>4, <2>1 DEF TypeOK, RoundEnds, StopDiscovery
<1>5. CASE \E m \in Node : Pair(n, m)
  <2>1. PICK m \in Node : Pair(n, m)
    BY <1>5
  <2> DEFINE next == [at |-> "pairing", need |-> round[n].need - 1,
                      left |-> IF round[n].need = 1 THEN {} ELSE round[n].left \ {m}]
  <2>2. round' = [round EXCEPT ![n] = next] /\ round[n].need > 0
    BY <2>1 DEF Pair
  <2>3. next \in Rounds
    BY <1>1, <2>2 DEF Rounds
  <2> QED
    BY <2>2, <2>3 DEF TypeOK
<1> QED
  BY <1>2, <1>3, <1>4, <1>5

-----------------------------------------------------------------------------
(* Who is at which end *)

\* A stream has two ends or none, each client has the part in a handshake that
\* its end gives it, and has not closed an end whose handshake is under way.
Shape ==
  \A s \in Stream :
    /\ from[s] = None <=> to[s] = None
    /\ from[s] # None => from[s] # to[s]
    /\ \A n \in Node :
         /\ stage[s][n] # "none" => n \in {from[s], to[s]}
         /\ stage[s][n] = "asking" => n = from[s]
         /\ stage[s][n] \in {"arriving", "acking", "rejecting"} => n = to[s]
         /\ stage[s][n] \in {"asking", "arriving", "rejecting"} => n \notin closed[s]

LEMMA TypeStep == TypeOK /\ Shape /\ [Next]_vars => TypeOK'
<1> SUFFICES ASSUME TypeOK, Shape, [Next]_vars PROVE TypeOK'
  OBVIOUS
<1>1. ASSUME NEW s \in Stream, Arrive(s) \/ Acknowledge(s) \/ AcknowledgeFails(s) \/ Reject(s)
      PROVE  TypeOK'
  <2>1. to[s] \in Node /\ from[s] \in Node /\ round' = round /\ from' = from /\ to' = to
    BY <1>1, NoneDistinct DEF TypeOK, Shape, Arrive, Acknowledge, AcknowledgeFails, Reject
  <2>2. CASE Arrive(s)
    BY <2>1, <2>2, StreamType DEF Arrive, Added, NotAdded, Stages
  <2>3. CASE Acknowledge(s)
    BY <2>1, <2>3, StreamType DEF Acknowledge, Stages
  <2>4. CASE AcknowledgeFails(s)
    BY <2>1, <2>4, StreamType DEF AcknowledgeFails, Remove, Stages
  <2>5. CASE Reject(s)
    BY <2>1, <2>5, StreamType DEF Reject, Stages
  <2> QED
    BY <1>1, <2>2, <2>3, <2>4, <2>5
<1>2. ASSUME NEW s \in Stream, ReadReply(s) \/ ReadReplyFails(s) PROVE TypeOK'
  <2>1. to[s] \in Node /\ from[s] \in Node /\ round' = round /\ from' = from /\ to' = to
    BY <1>2, NoneDistinct DEF TypeOK, Shape, ReadReply, ReadReplyFails
  <2>2. CASE ReadReply(s)
    BY <2>1, <2>2, StreamType DEF ReadReply, Added, NotAdded, Stages
  <2>3. CASE ReadReplyFails(s)
    BY <2>1, <2>3, StreamType DEF ReadReplyFails, Stages
  <2> QED
    BY <1>2, <2>2, <2>3
<1>3. ASSUME NEW s \in Stream, NEW n \in Node, ProcessEnds(s, n) PROVE TypeOK'
  <2>1. PeerAt(s, n) \in Node
    BY <1>3, NoneDistinct DEF ProcessEnds, TypeOK, Shape, PeerAt
  <2> QED
    BY <1>3, <2>1, StreamType DEF ProcessEnds, Remove, PeerAt, Stages
<1>4. ASSUME NEW n \in Node, NEW m \in Node, BroadcastFails(n, m) PROVE TypeOK'
  BY <1>4, ClosedForType DEF BroadcastFails, Remove, TypeOK
<1>5. ASSUME NEW n \in Node,
             \/ Replenish(n) \/ ListInbound(n) \/ ListOutbound(n) \/ RoundEnds(n) \/ StopDiscovery(n)
      PROVE  TypeOK'
  <2>1. round' \in [Node -> Rounds] /\ UNCHANGED <<streamVars, reg>>
    BY <1>5, NeedType, RoundType
    DEF Replenish, ListInbound, ListOutbound, RoundEnds, StopDiscovery
  <2> QED
    BY <2>1 DEF TypeOK, streamVars
<1>6. ASSUME NEW n \in Node, NEW m \in Node, Pair(n, m) PROVE TypeOK'
  <2>1. round' \in [Node -> Rounds] /\ reg' = reg
    BY <1>6, RoundType DEF Pair
  <2>2. CASE \E s \in Stream : Open(n, m, s)
    BY <2>1, <2>2, OpenType DEF TypeOK
  <2>3. CASE UNCHANGED streamVars
    BY <2>1, <2>3 DEF TypeOK, streamVars
  <2> QED
    BY <1>6, <2>2, <2>3 DEF Pair
<1>7. ASSUME UNCHANGED vars PROVE TypeOK'
  BY <1>7 DEF vars, streamVars, TypeOK
<1> QED
  BY <1>1, <1>2, <1>3, <1>4, <1>5, <1>6, <1>7 DEF Next

-----------------------------------------------------------------------------
(* Owned and read *)

Owned == TypeOK /\ Shape /\ OpenIsOwned /\ RegisteredIsRead

LEMMA InitOwned == Init => Owned
<1> SUFFICES ASSUME Init PROVE Shape /\ OpenIsOwned /\ RegisteredIsRead
  BY InitType DEF Owned
<1>1. \A s \in Stream : from[s] = None /\ to[s] = None /\ \A n \in Node : stage[s][n] = "none"
  BY DEF Init
<1>2. \A n, m \in Node : reg[n][m] = None
  BY DEF Init
<1> QED
  BY <1>1, <1>2, NoneDistinct DEF Shape, OpenIsOwned, RegisteredIsRead, Ends

\* What RegisteredIsRead says of one registration.
LEMMA Registered ==
  ASSUME Owned, NEW n \in Node, NEW m \in Node, NEW s \in Stream, reg[n][m] = s
  PROVE  /\ n \in Ends(s) /\ PeerAt(s, n) = m /\ n \notin closed[s]
         /\ stage[s][n] \in {"acking", "processing"}
BY NoneDistinct DEF Owned, RegisteredIsRead

\* Client n goes to stage k at its end of s, registers x, which is s or nothing, for
\* the peer m at the other end, closes what it had registered for that peer before,
\* and s itself if c.
EndChange(s, n, m, k, c, x) ==
  /\ k \in Stages /\ c \in BOOLEAN /\ x \in {None, s}
  /\ n \in {from[s], to[s]} /\ m = PeerAt(s, n)
  /\ from' = from /\ to' = to
  /\ \A i, j \in Node : reg'[i][j] = IF i = n /\ j = m THEN x ELSE reg[i][j]
  /\ \A t \in Stream : closed'[t] =
       IF (reg[n][m] = t) \/ (t = s /\ c) THEN closed[t] \union {n} ELSE closed[t]
  /\ \A t \in Stream, i \in Node : stage'[t][i] = IF t = s /\ i = n THEN k ELSE stage[t][i]
  /\ x = s => ~c /\ n \notin closed[s] /\ reg[n][m] # s /\ k \in {"acking", "processing"}
  /\ k \in {"acking", "rejecting"} => n = to[s]
  /\ k \notin {"asking", "arriving", "none"}
  /\ k = "rejecting" => ~c /\ n \notin closed[s] /\ reg[n][m] # s
  /\ k # "rejecting" => x = s \/ n \in closed'[s]

LEMMA EndChanges ==
  ASSUME Owned, NEW s \in Stream, NEW n \in Node, NEW m \in Node, NEW k, NEW c, NEW x,
         EndChange(s, n, m, k, c, x)
  PROVE  Shape' /\ OpenIsOwned' /\ RegisteredIsRead'
<1> USE DEF EndChange
<1> USE NoneDistinct
<1>1. \A t \in Stream : Ends(t)' = Ends(t) /\ \A i \in Node : PeerAt(t, i)' = PeerAt(t, i)
  BY DEF Ends, PeerAt
<1>2. \A t \in Stream, i \in Node : i \in Ends(t) => PeerAt(t, i) \in Node /\ PeerAt(t, i) # i
  BY DEF Owned, TypeOK, Shape, Ends, PeerAt
<1>3. Shape'
  <2>1. ASSUME NEW t \in Stream, NEW i \in Node, stage'[t][i] \in {"asking", "arriving", "rejecting"}
        PROVE  i \notin closed'[t]
    <3>1. CASE t = s /\ i = n
      BY <2>1, <3>1
    <3>2. CASE ~(t = s /\ i = n)
      <4>1. stage[t][i] \in {"asking", "arriving", "rejecting"} /\ i \notin closed[t]
        BY <2>1, <3>2 DEF Owned, Shape
      <4>2. i = n => reg[n][m] # t
        BY <4>1, Registered
      <4>3. closed'[t] = closed[t] \/ (i # n /\ closed'[t] = closed[t] \union {n})
        BY <3>2, <4>2
      <4> QED
        BY <4>1, <4>3
    <3> QED
      BY <3>1, <3>2
  <2>2. \A t \in Stream : /\ from'[t] = None <=> to'[t] = None
                          /\ from'[t] # None => from'[t] # to'[t]
    BY DEF Owned, Shape
  <2>3. ASSUME NEW t \in Stream, NEW i \in Node
        PROVE  /\ stage'[t][i] # "none" => i \in {from'[t], to'[t]}
               /\ stage'[t][i] = "asking" => i = from'[t]
               /\ stage'[t][i] \in {"arriving", "acking", "rejecting"} => i = to'[t]
    BY DEF Owned, Shape
  <2> QED
    BY <2>1, <2>2, <2>3 DEF Shape
<1>4. ASSUME NEW t \in Stream, NEW i \in Ends(t), i \notin closed'[t]
      PROVE  \/ reg'[i][PeerAt(t, i)] = t
             \/ stage'[t][i] \in {"asking", "arriving", "rejecting"}
  <2>1. i \in Node /\ i \notin closed[t]
    <3>1. closed'[t] = closed[t] \/ closed'[t] = closed[t] \union {n}
      OBVIOUS
    <3>2. i \in Node
      BY DEF Owned, TypeOK, Ends
    <3> QED
      BY <1>4, <3>1, <3>2
  <2>2. CASE t = s /\ i = n
    BY <1>4, <2>2
  <2>3. CASE ~(t = s /\ i = n)
    <3>1. \/ reg[i][PeerAt(t, i)] = t
          \/ stage[t][i] \in {"asking", "arriving", "rejecting"}
      BY <1>4, <2>1 DEF Owned, OpenIsOwned
    <3>2. reg[i][PeerAt(t, i)] = t => ~(i = n /\ PeerAt(t, i) = m)
      BY <1>4, <2>3
    <3> QED
      BY <1>2, <1>4, <2>1, <2>3, <3>1, <3>2
  <2> QED
    BY <2>2, <2>3
<1>5. ASSUME NEW i \in Node, NEW j \in Node, NEW t \in Stream, reg'[i][j] = t
      PROVE  /\ i \in Ends(t) /\ PeerAt(t, i) = j /\ i \notin closed'[t]
             /\ stage'[t][i] \in {"acking", "processing"}
  <2>1. CASE i = n /\ j = m
    <3>1. t = s /\ x = s
      BY <1>5, <2>1
    <3> QED
      BY <2>1, <3>1 DEF Ends
  <2>2. CASE ~(i = n /\ j = m)
    <3>1. reg[i][j] = t
      BY <1>5, <2>2
    <3>2. /\ i \in Ends(t) /\ PeerAt(t, i) = j /\ i \notin closed[t]
          /\ stage[t][i] \in {"acking", "processing"}
      BY <3>1, Registered
    <3>3. i = n => reg[n][m] # t /\ t # s
      <4>1. ASSUME i = n, reg[n][m] = t PROVE FALSE
        <5>1. PeerAt(t, n) = m
          BY <4>1, Registered
        <5> QED
          BY <2>2, <3>2, <4>1, <5>1
      <4>2. ASSUME i = n, t = s PROVE FALSE
        BY <2>2, <3>2, <4>2
      <4> QED
        BY <4>1, <4>2
    <3>4. closed'[t] = closed[t] \/ (i # n /\ closed'[t] = closed[t] \union {n})
      BY <3>3
    <3>5. i \notin closed'[t] /\ stage'[t][i] = stage[t][i]
      BY <3>2, <3>3, <3>4
    <3> QED
      BY <3>2, <3>5
  <2> QED
    BY <2>1, <2>2
<1>6. OpenIsOwned'
  <2> SUFFICES ASSUME NEW t \in Stream, NEW i \in Ends(t)' \ closed'[t]
               PROVE  \/ reg'[i][PeerAt(t, i)'] = t
                      \/ stage'[t][i] \in {"asking", "arriving", "rejecting"}
    BY DEF OpenIsOwned
  <2>1. Ends(t)' = Ends(t) /\ PeerAt(t, i)' = PeerAt(t, i)
    BY DEF Ends, PeerAt
  <2> QED
    BY <1>4, <2>1
<1>7. RegisteredIsRead'
  <2> SUFFICES ASSUME NEW i \in Node, NEW j \in Node, NEW t \in Stream, reg'[i][j] = t
               PROVE  /\ i \in Ends(t)' /\ PeerAt(t, i)' = j /\ i \notin closed'[t]
                      /\ stage'[t][i] \in {"acking", "processing"}
    BY DEF RegisteredIsRead
  <2>1. Ends(t)' = Ends(t) /\ PeerAt(t, i)' = PeerAt(t, i)
    BY <1>1
  <2> QED
    BY <1>5, <2>1
<1> QED
  BY <1>3, <1>6, <1>7

\* Client n gives up its end of s in a handshake in which it registered nothing.
LEMMA GivesUp ==
  ASSUME Owned, NEW s \in Stream, NEW n \in Node, stage[s][n] \in {"asking", "rejecting"},
         closed' = [closed EXCEPT ![s] = @ \union {n}],
         stage' = [stage EXCEPT ![s][n] = "done"], UNCHANGED <<from, to, reg>>
  PROVE  Shape' /\ OpenIsOwned' /\ RegisteredIsRead'
<1>1. \A t \in Stream : Ends(t)' = Ends(t) /\ \A i \in Node : PeerAt(t, i)' = PeerAt(t, i)
  BY DEF Ends, PeerAt
<1>2. \A t \in Stream, i \in Node :
        ~(t = s /\ i = n) => stage'[t][i] = stage[t][i] /\ (i \in closed'[t] <=> i \in closed[t])
  BY DEF Owned, TypeOK
<1>3. stage'[s][n] = "done" /\ n \in closed'[s]
  BY DEF Owned, TypeOK
<1>4. Shape'
  BY <1>2, <1>3 DEF Owned, Shape
<1>5. OpenIsOwned'
  <2> SUFFICES ASSUME NEW t \in Stream, NEW i \in Ends(t)' \ closed'[t]
               PROVE  \/ reg'[i][PeerAt(t, i)'] = t
                      \/ stage'[t][i] \in {"asking", "arriving", "rejecting"}
    BY DEF OpenIsOwned
  <2>1. i \in Ends(t) /\ i \in Node /\ PeerAt(t, i)' = PeerAt(t, i)
    BY <1>1, NoneDistinct DEF Ends, Owned, TypeOK
  <2> QED
    BY <1>2, <1>3, <2>1 DEF Owned, OpenIsOwned
<1>6. RegisteredIsRead'
  <2> SUFFICES ASSUME NEW i \in Node, NEW j \in Node, NEW t \in Stream, reg[i][j] = t
               PROVE  /\ i \in Ends(t)' /\ PeerAt(t, i)' = j /\ i \notin closed'[t]
                      /\ stage'[t][i] \in {"acking", "processing"}
    BY DEF RegisteredIsRead
  <2>1. ~(t = s /\ i = n)
    BY Registered
  <2> QED
    BY <1>1, <1>2, <2>1, Registered
<1> QED
  BY <1>4, <1>5, <1>6

\* Only a stream that is registered nowhere is opened.
LEMMA Opens ==
  ASSUME Owned, NEW s \in Stream, NEW n \in Node, NEW m \in Node, Open(n, m, s), reg' = reg
  PROVE  Shape' /\ OpenIsOwned' /\ RegisteredIsRead'
<1>1. \A i, j \in Node : reg[i][j] # s
  BY Registered, NoneDistinct DEF Open, IsFree, Ends
<1>2. /\ n # m /\ from'[s] = n /\ to'[s] = m /\ closed'[s] = {}
      /\ \A k \in Node : stage'[s][k] = CASE k = n -> "asking" [] k = m -> "arriving" [] OTHER -> "none"
  BY DEF Open, Owned, TypeOK
<1>3. \A t \in Stream \ {s} : /\ from'[t] = from[t] /\ to'[t] = to[t] /\ closed'[t] = closed[t]
                               /\ stage'[t] = stage[t]
  BY DEF Open, Owned, TypeOK
<1>4. Shape'
  <2> SUFFICES ASSUME NEW t \in Stream
               PROVE  /\ from'[t] = None <=> to'[t] = None
                      /\ from'[t] # None => from'[t] # to'[t]
                      /\ \A i \in Node :
                         /\ stage'[t][i] # "none" => i \in {from'[t], to'[t]}
                         /\ stage'[t][i] = "asking" => i = from'[t]
                         /\ stage'[t][i] \in {"arriving", "acking", "rejecting"} => i = to'[t]
                         /\ stage'[t][i] \in {"asking", "arriving", "rejecting"} => i \notin closed'[t]
    BY DEF Shape
  <2>1. CASE t = s
    BY <1>2, <2>1, NoneDistinct
  <2>2. CASE t # s
    BY <1>3, <2>2 DEF Owned, Shape
  <2> QED
    BY <2>1, <2>2
<1>5. OpenIsOwned'
  <2> SUFFICES ASSUME NEW t \in Stream, NEW i \in Ends(t)' \ closed'[t]
               PROVE  \/ reg'[i][PeerAt(t, i)'] = t
                      \/ stage'[t][i] \in {"asking", "arriving", "rejecting"}
    BY DEF OpenIsOwned
  <2>1. CASE t = s
    BY <1>2, <2>1 DEF Ends
  <2>2. CASE t # s
    BY <1>3, <2>2 DEF Ends, PeerAt, Owned, OpenIsOwned
  <2> QED
    BY <2>1, <2>2
<1>6. RegisteredIsRead'
  BY <1>1, <1>3 DEF Owned, RegisteredIsRead, Ends, PeerAt
<1> QED
  BY <1>4, <1>5, <1>6

LEMMA OwnedStep == Owned /\ [Next]_vars => Owned'
<1> SUFFICES ASSUME Owned, [Next]_vars PROVE Shape' /\ OpenIsOwned' /\ RegisteredIsRead'
  BY TypeStep DEF Owned
<1> USE NoneDistinct
<1>1. ASSUME NEW s \in Stream, Arrive(s) PROVE Shape' /\ OpenIsOwned' /\ RegisteredIsRead'
  <2> DEFINE n == to[s]
             m == from[s]
  <2>1. n \in Node /\ m = PeerAt(s, n) /\ m \in Node /\ stage[s][n] = "arriving" /\ n \notin closed[s]
    BY <1>1 DEF Arrive, PeerAt, Owned, TypeOK, Shape
  <2>2. reg[n][m] # s
    BY <2>1, Registered
  <2>3. CASE Added(n, m, s) /\ stage' = [stage EXCEPT ![s][n] = "acking"]
    <3>1. \A i, j \in Node : reg'[i][j] = IF i = n /\ j = m THEN s ELSE reg[i][j]
      BY <2>1, <2>3 DEF Added, Owned, TypeOK
    <3>2. \A t \in Stream : closed'[t] =
            IF (reg[n][m] = t) \/ (t = s /\ FALSE) THEN closed[t] \union {n} ELSE closed[t]
      BY <2>1, <2>2, <2>3 DEF Added, ClosedFor, Owned, TypeOK
    <3>3. \A t \in Stream, i \in Node : stage'[t][i] = IF t = s /\ i = n THEN "acking" ELSE stage[t][i]
      BY <2>1, <2>3 DEF Owned, TypeOK
    <3>4. "acking" \in Stages /\ from' = from /\ to' = to /\ n \in {from[s], to[s]}
      BY <1>1 DEF Arrive, Stages
    <3>5. EndChange(s, n, m, "acking", FALSE, s)
      BY <2>1, <2>2, <3>1, <3>2, <3>3, <3>4 DEF EndChange
    <3> QED
      BY <2>1, <3>5, EndChanges
  <2>4. CASE /\ NotAdded(n, m, s) /\ closed' = ClosedFor(n, m)
             /\ stage' = [stage EXCEPT ![s][n] = "rejecting"]
    <3>1. \A i, j \in Node : reg'[i][j] = IF i = n /\ j = m THEN None ELSE reg[i][j]
      BY <2>1, <2>4 DEF NotAdded, Owned, TypeOK
    <3>2. \A t \in Stream : closed'[t] =
            IF (reg[n][m] = t) \/ (t = s /\ FALSE) THEN closed[t] \union {n} ELSE closed[t]
      BY <2>1, <2>2, <2>4 DEF NotAdded, ClosedFor, Owned, TypeOK
    <3>3. \A t \in Stream, i \in Node : stage'[t][i] = IF t = s /\ i = n THEN "rejecting" ELSE stage[t][i]
      BY <2>1, <2>4 DEF Owned, TypeOK
    <3>4. "rejecting" \in Stages /\ from' = from /\ to' = to /\ n \in {from[s], to[s]}
      BY <1>1 DEF Arrive, Stages
    <3>5. EndChange(s, n, m, "rejecting", FALSE, None)
      BY <2>1, <2>2, <3>1, <3>2, <3>3, <3>4 DEF EndChange
    <3> QED
      BY <2>1, <3>5, EndChanges
  <2> QED
    BY <1>1, <2>3, <2>4 DEF Arrive
<1>2. ASSUME NEW s \in Stream, Acknowledge(s) PROVE Shape' /\ OpenIsOwned' /\ RegisteredIsRead'
  <2>1. to[s] \in Node /\ stage[s][to[s]] = "acking"
    BY <1>2 DEF Acknowledge, Owned, TypeOK
  <2>2. \A t \in Stream, i \in Node :
          stage'[t][i] = IF t = s /\ i = to[s] THEN "processing" ELSE stage[t][i]
    BY <1>2, <2>1 DEF Acknowledge, Owned, TypeOK
  <2>3. UNCHANGED <<from, to, closed, reg>>
    BY <1>2 DEF Acknowledge
  <2>4. Shape'
    BY <2>1, <2>2, <2>3 DEF Owned, Shape
  <2>5. OpenIsOwned'
    BY <2>1, <2>2, <2>3 DEF Owned, TypeOK, OpenIsOwned, Ends, PeerAt
  <2>6. RegisteredIsRead'
    BY <2>1, <2>2, <2>3 DEF Owned, RegisteredIsRead, Ends, PeerAt
  <2> QED
    BY <2>4, <2>5, <2>6
<1>3. ASSUME NEW s \in Stream, NEW n \in Node, stage[s][n] \in {"acking", "processing"},
             stage' = [stage EXCEPT ![s][n] = "done"], Remove(n, PeerAt(s, n)),
             UNCHANGED <<from, to>>
      PROVE  Shape' /\ OpenIsOwned' /\ RegisteredIsRead'
  <2>1. n \in {from[s], to[s]} /\ n \in Ends(s) /\ PeerAt(s, n) \in Node
    BY <1>3 DEF Ends, PeerAt, Owned, TypeOK, Shape
  <2>2. n \in closed'[s]
    BY <1>3, <2>1 DEF Owned, TypeOK, OpenIsOwned, Remove, ClosedFor
  <2> DEFINE m == PeerAt(s, n)
  <2>3. \A i, j \in Node : reg'[i][j] = IF i = n /\ j = m THEN None ELSE reg[i][j]
    BY <1>3, <2>1 DEF Remove, Owned, TypeOK
  <2>4. \A t \in Stream : closed'[t] =
          IF (reg[n][m] = t) \/ (t = s /\ FALSE) THEN closed[t] \union {n} ELSE closed[t]
    BY <1>3 DEF Remove, ClosedFor
  <2>5. \A t \in Stream, i \in Node : stage'[t][i] = IF t = s /\ i = n THEN "done" ELSE stage[t][i]
    BY <1>3 DEF Owned, TypeOK
  <2>6. "done" \in Stages
    BY DEF Stages
  <2>7. EndChange(s, n, m, "done", FALSE, None)
    BY <1>3, <2>1, <2>2, <2>3, <2>4, <2>5, <2>6 DEF EndChange
  <2> QED
    BY <2>1, <2>7, EndChanges
<1>4. ASSUME NEW s \in Stream, AcknowledgeFails(s) PROVE Shape' /\ OpenIsOwned' /\ RegisteredIsRead'
  <2>1. to[s] \in Node /\ stage[s][to[s]] = "acking" /\ from[s] = PeerAt(s, to[s])
    BY <1>4 DEF AcknowledgeFails, PeerAt, Owned, TypeOK, Shape
  <2> QED
    BY <1>3, <1>4, <2>1 DEF AcknowledgeFails
<1>5. ASSUME NEW s \in Stream, NEW n \in Node, ProcessEnds(s, n)
      PROVE  Shape' /\ OpenIsOwned' /\ RegisteredIsRead'
  BY <1>3, <1>5 DEF ProcessEnds, PeerAt
<1>6. ASSUME NEW s \in Stream, Reject(s) \/ ReadReplyFails(s)
      PROVE  Shape' /\ OpenIsOwned' /\ RegisteredIsRead'
  BY <1>6, GivesUp DEF Reject, ReadReplyFails, Owned, TypeOK
<1>7. ASSUME NEW s \in Stream, ReadReply(s) PROVE Shape' /\ OpenIsOwned' /\ RegisteredIsRead'
  <2> DEFINE n == from[s]
             m == to[s]
  <2>1. n \in Node /\ m = PeerAt(s, n) /\ m \in Node /\ stage[s][n] = "asking" /\ n \notin closed[s]
    BY <1>7 DEF ReadReply, PeerAt, Owned, TypeOK, Shape
  <2>2. reg[n][m] # s
    BY <2>1, Registered
  <2>3. CASE Added(n, m, s) /\ stage' = [stage EXCEPT ![s][n] = "processing"]
    <3>1. \A i, j \in Node : reg'[i][j] = IF i = n /\ j = m THEN s ELSE reg[i][j]
      BY <2>1, <2>3 DEF Added, Owned, TypeOK
    <3>2. \A t \in Stream : closed'[t] =
            IF (reg[n][m] = t) \/ (t = s /\ FALSE) THEN closed[t] \union {n} ELSE closed[t]
      BY <2>1, <2>2, <2>3 DEF Added, ClosedFor, Owned, TypeOK
    <3>3. \A t \in Stream, i \in Node : stage'[t][i] = IF t = s /\ i = n THEN "processing" ELSE stage[t][i]
      BY <2>1, <2>3 DEF Owned, TypeOK
    <3>4. "processing" \in Stages /\ from' = from /\ to' = to /\ n \in {from[s], to[s]}
      BY <1>7 DEF ReadReply, Stages
    <3>5. EndChange(s, n, m, "processing", FALSE, s)
      BY <2>1, <2>2, <3>1, <3>2, <3>3, <3>4 DEF EndChange
    <3> QED
      BY <2>1, <3>5, EndChanges
  <2>4. CASE /\ NotAdded(n, m, s) /\ closed' = [ClosedFor(n, m) EXCEPT ![s] = @ \union {n}]
             /\ stage' = [stage EXCEPT ![s][n] = "done"]
    <3>1. \A i, j \in Node : reg'[i][j] = IF i = n /\ j = m THEN None ELSE reg[i][j]
      BY <2>1, <2>4 DEF NotAdded, Owned, TypeOK
    <3>2. \A t \in Stream : closed'[t] =
            IF (reg[n][m] = t) \/ (t = s /\ TRUE) THEN closed[t] \union {n} ELSE closed[t]
      BY <2>1, <2>2, <2>4 DEF NotAdded, ClosedFor, Owned, TypeOK
    <3>3. \A t \in Stream, i \in Node : stage'[t][i] = IF t = s /\ i = n THEN "done" ELSE stage[t][i]
      BY <2>1, <2>4 DEF Owned, TypeOK
    <3>4. "done" \in Stages /\ from' = from /\ to' = to /\ n \in {from[s], to[s]}
      BY <1>7 DEF ReadReply, Stages
    <3>5. EndChange(s, n, m, "done", TRUE, None)
      BY <2>1, <2>2, <3>1, <3>2, <3>3, <3>4 DEF EndChange
    <3> QED
      BY <2>1, <3>5, EndChanges
  <2>5. CASE /\ closed' = [closed EXCEPT ![s] = @ \union {n}]
             /\ stage' = [stage EXCEPT ![s][n] = "done"] /\ UNCHANGED reg
    BY <1>7, <2>1, <2>5, GivesUp DEF ReadReply
  <2> QED
    BY <1>7, <2>3, <2>4, <2>5 DEF ReadReply
<1>8. ASSUME NEW n \in Node, NEW m \in Node, BroadcastFails(n, m)
      PROVE  Shape' /\ OpenIsOwned' /\ RegisteredIsRead'
  <2>1. PICK s \in Stream : reg[n][m] = s
    BY <1>8 DEF BroadcastFails, Owned, TypeOK
  <2>2. n \in Ends(s) /\ PeerAt(s, n) = m /\ stage[s][n] \in {"acking", "processing"}
    BY <2>1, Registered
  <2>3. stage[s][n] = "acking" => n = to[s]
    BY DEF Owned, Shape
  <2>4. \A i, j \in Node : reg'[i][j] = IF i = n /\ j = m THEN None ELSE reg[i][j]
    BY <1>8 DEF BroadcastFails, Remove, Owned, TypeOK
  <2>5. \A t \in Stream : closed'[t] =
          IF (reg[n][m] = t) \/ (t = s /\ FALSE) THEN closed[t] \union {n} ELSE closed[t]
    BY <1>8 DEF BroadcastFails, Remove, ClosedFor
  <2>6. stage[s][n] \in Stages /\ UNCHANGED <<from, to, stage>> /\ n \in {from[s], to[s]}
    BY <1>8, <2>2 DEF BroadcastFails, Ends, Owned, TypeOK
  <2>7. EndChange(s, n, m, stage[s][n], FALSE, None)
    BY <2>1, <2>2, <2>3, <2>4, <2>5, <2>6 DEF EndChange
  <2> QED
    BY <2>7, EndChanges
<1>9. ASSUME UNCHANGED <<streamVars, reg>> PROVE Shape' /\ OpenIsOwned' /\ RegisteredIsRead'
  BY <1>9 DEF streamVars, Owned, Shape, OpenIsOwned, RegisteredIsRead, Ends, PeerAt
<1>10. ASSUME NEW n \in Node, NEW m \in Node, Pair(n, m)
       PROVE  Shape' /\ OpenIsOwned' /\ RegisteredIsRead'
  BY <1>9, <1>10, Opens DEF Pair
<1>11. ASSUME NEW n \in Node,
              \/ Replenish(n) \/ ListInbound(n) \/ ListOutbound(n) \/ RoundEnds(n) \/ StopDiscovery(n)
       PROVE  Shape' /\ OpenIsOwned' /\ RegisteredIsRead'
  BY <1>9, <1>11 DEF Replenish, ListInbound, ListOutbound, RoundEnds, StopDiscovery
<1> QED
  BY <1>1, <1>2, <1>4, <1>5, <1>6, <1>7, <1>8, <1>9, <1>10, <1>11 DEF Next, vars

-----------------------------------------------------------------------------
(* Room for what was counted *)

Asking(n, s) == stage[s][n] = "asking"

\* The outbound streams of n, the one it is asking for and those it still needs are
\* no more than there may be; it asks for one at a time and only while it pairs.
Counted(n) ==
  LET used == Cardinality(Outbound(n)) IN
  /\ round[n].at \in {"counted", "listing", "pairing"} => used + round[n].need =< OutboundCapacity
  /\ \A s \in Stream : Asking(n, s) => /\ round[n].at = "pairing"
                                      /\ used + round[n].need + 1 =< OutboundCapacity
                                      /\ \A t \in Stream : Asking(n, t) => t = s

RoomKept == \A n \in Node : Counted(n)

\* What n counted holds on while its outbound streams get fewer.
LEMMA FewerOutbound ==
  ASSUME TypeOK, NEW n \in Node, Counted(n), Outbound(n)' \subseteq Outbound(n),
         round'[n] = round[n], \A s \in Stream : Asking(n, s)' => Asking(n, s)
  PROVE  Counted(n)'
<1>1. /\ Cardinality(Outbound(n)) \in Nat /\ Cardinality(Outbound(n))' \in Nat
      /\ Cardinality(Outbound(n))' =< Cardinality(Outbound(n))
  BY OutboundCount, FS_Subset, FS_CardinalityType
<1>2. round[n].need \in Nat /\ OutboundCapacity \in Nat
  BY PairingAssumption DEF TypeOK, Rounds, PairingAssumption
<1> QED
  BY <1>1, <1>2 DEF Counted

LEMMA RoomStep == Owned /\ RoomKept /\ [Next]_vars => RoomKept'
<1> SUFFICES ASSUME Owned, RoomKept, [Next]_vars, NEW n \in Node PROVE Counted(n)'
  BY DEF RoomKept
<1> USE NoneDistinct
<1>1. TypeOK /\ Counted(n)
  BY DEF Owned, RoomKept
<1>2. ASSUME NEW s \in Stream,
             Arrive(s) \/ Acknowledge(s) \/ AcknowledgeFails(s) \/ Reject(s) \/ ReadReplyFails(s)
      PROVE  Counted(n)'
  <2>1. round' = round /\ from' = from
    BY <1>2 DEF Arrive, Acknowledge, AcknowledgeFails, Reject, ReadReplyFails
  <2>2. \A t \in Stream : Asking(n, t)' => Asking(n, t)
    <3>1. PICK i \in {to[s], from[s]}, k \in {"acking", "rejecting", "processing", "done"} :
            stage' = [stage EXCEPT ![s][i] = k]
      BY <1>2 DEF Arrive, Acknowledge, AcknowledgeFails, Reject, ReadReplyFails
    <3> QED
      BY <1>1, <3>1 DEF Asking, TypeOK
  <2>3. \A m \in Node : reg'[n][m] \in {reg[n][m], None, s} /\ (reg'[n][m] = s => from[s] # n \/ reg[n][m] = s)
    BY <1>1, <1>2
    DEF Arrive, Acknowledge, AcknowledgeFails, Reject, ReadReplyFails, Added, NotAdded, Remove,
        TypeOK, Owned, Shape
  <2> QED
    BY <1>1, <2>1, <2>2, <2>3, FewerOutbound DEF Outbound
<1>3. ASSUME NEW s \in Stream, NEW i \in Node, ProcessEnds(s, i) PROVE Counted(n)'
  <2>1. /\ round' = round /\ from' = from
        /\ \A t \in Stream : Asking(n, t)' => Asking(n, t)
        /\ \A m \in Node : reg'[n][m] \in {reg[n][m], None}
    BY <1>1, <1>3 DEF ProcessEnds, Remove, Asking, TypeOK
  <2> QED
    BY <1>1, <2>1, FewerOutbound DEF Outbound
<1>4. ASSUME NEW i \in Node, NEW j \in Node, BroadcastFails(i, j) PROVE Counted(n)'
  <2>1. /\ round' = round /\ from' = from /\ stage' = stage
        /\ \A m \in Node : reg'[n][m] \in {reg[n][m], None}
    BY <1>1, <1>4 DEF BroadcastFails, Remove, TypeOK
  <2> QED
    BY <1>1, <2>1, FewerOutbound DEF Outbound, Asking
<1>5. ASSUME NEW s \in Stream, ReadReply(s) PROVE Counted(n)'
  <2>1. /\ from[s] \in Node /\ to[s] \in Node /\ round' = round /\ from' = from
        /\ Asking(from[s], s) /\ stage'[s][from[s]] # "asking"
        /\ \A t \in Stream, i \in Node : ~(t = s /\ i = from[s]) => stage'[t][i] = stage[t][i]
    BY <1>1, <1>5 DEF ReadReply, Asking, TypeOK, Owned, Shape
  <2>2. \A t \in Stream : Asking(n, t)' => Asking(n, t)
    BY <2>1 DEF Asking
  <2>3. CASE n = from[s] /\ Added(n, to[s], s)
    <3>1. Outbound(n)' \subseteq Outbound(n) \union {to[s]}
      BY <1>1, <2>1, <2>3 DEF Added, Outbound, TypeOK
    <3>2. IsFiniteSet(Outbound(n)) /\ Cardinality(Outbound(n)) \in Nat /\ Cardinality(Outbound(n))' \in Nat
      BY OutboundCount, <3>1, FS_AddElement, FS_Subset, FS_CardinalityType
    <3>3. Cardinality(Outbound(n))' =< Cardinality(Outbound(n)) + 1
      <4>1. /\ IsFiniteSet(Outbound(n) \union {to[s]})
            /\ Cardinality(Outbound(n) \union {to[s]}) =< Cardinality(Outbound(n)) + 1
        BY <3>2, FS_AddElement
      <4>2. Cardinality(Outbound(n) \union {to[s]}) \in Nat
        BY <4>1, FS_CardinalityType
      <4>3. Cardinality(Outbound(n))' =< Cardinality(Outbound(n) \union {to[s]})
        BY <3>1, <4>1, FS_Subset
      <4> QED
        BY <3>2, <4>1, <4>2, <4>3
    <3>4. /\ Cardinality(Outbound(n)) + round[n].need + 1 =< OutboundCapacity
          /\ \A t \in Stream : Asking(n, t) => t = s
      BY <1>1, <2>1, <2>3 DEF Counted
    <3>5. \A t \in Stream : ~Asking(n, t)'
      BY <2>1, <2>2, <2>3, <3>4 DEF Asking
    <3>6. round[n].need \in Nat /\ OutboundCapacity \in Nat
      BY <1>1, PairingAssumption DEF TypeOK, Rounds, PairingAssumption
    <3> QED
      BY <2>1, <3>2, <3>3, <3>4, <3>5, <3>6 DEF Counted
  <2>4. CASE ~(n = from[s] /\ Added(n, to[s], s))
    <3>1. \A m \in Node : reg'[n][m] \in {reg[n][m], None}
      BY <1>1, <1>5, <2>1, <2>4 DEF ReadReply, Added, NotAdded, TypeOK
    <3> QED
      BY <1>1, <2>1, <2>2, <3>1, FewerOutbound DEF Outbound
  <2> QED
    BY <2>3, <2>4
<1>6. ASSUME NEW i \in Node, Replenish(i) PROVE Counted(n)'
  <2>1. Outbound(n)' = Outbound(n) /\ \A s \in Stream : Asking(n, s)' <=> Asking(n, s)
    BY <1>6 DEF Replenish, streamVars, Outbound, Asking
  <2>2. CASE i = n
    <3>1. /\ round[n].at = "waiting" /\ round'[n].at = "counted"
          /\ round'[n].need = OutboundCapacity - Cardinality(Outbound(n))
      BY <1>1, <1>6, <2>2 DEF Replenish, TypeOK
    <3> QED
      BY <1>1, <2>1, <3>1, OutboundCount, PairingAssumption DEF Counted, PairingAssumption
  <2>3. CASE i # n
    BY <1>1, <1>6, <2>1, <2>3, FewerOutbound DEF Replenish, TypeOK
  <2> QED
    BY <2>2, <2>3
<1>7. ASSUME NEW i \in Node, ListInbound(i) \/ ListOutbound(i) PROVE Counted(n)'
  <2>1. Outbound(n)' = Outbound(n) /\ \A s \in Stream : Asking(n, s)' <=> Asking(n, s)
    BY <1>7 DEF ListInbound, ListOutbound, streamVars, Outbound, Asking
  <2>2. CASE i = n
    <3>1. /\ round[n].at \in {"counted", "listing"} /\ round'[n].at \in {"listing", "pairing"}
          /\ round'[n].need = round[n].need
      BY <1>1, <1>7, <2>2 DEF ListInbound, ListOutbound, TypeOK, Rounds
    <3> QED
      BY <1>1, <2>1, <3>1 DEF Counted
  <2>3. CASE i # n
    BY <1>1, <1>7, <2>1, <2>3, FewerOutbound DEF ListInbound, ListOutbound, TypeOK
  <2> QED
    BY <2>2, <2>3
<1>8. ASSUME NEW i \in Node, RoundEnds(i) \/ StopDiscovery(i) PROVE Counted(n)'
  <2>1. Outbound(n)' = Outbound(n) /\ \A s \in Stream : Asking(n, s)' <=> Asking(n, s)
    BY <1>8 DEF RoundEnds, StopDiscovery, streamVars, Outbound, Asking
  <2>2. CASE i = n
    <3>1. \A s \in Stream : ~Asking(n, s)
      BY <1>1, <1>8, <2>2 DEF RoundEnds, StopDiscovery, Busy, Asking, Counted
    <3>2. round'[n].at \in {"waiting", "stopped"}
      BY <1>1, <1>8, <2>2 DEF RoundEnds, StopDiscovery, Waiting, Stopped, TypeOK
    <3> QED
      BY <2>1, <3>1, <3>2 DEF Counted
  <2>3. CASE i # n
    BY <1>1, <1>8, <2>1, <2>3, FewerOutbound DEF RoundEnds, StopDiscovery, TypeOK
  <2> QED
    BY <2>2, <2>3
<1>9. ASSUME NEW i \in Node, NEW j \in Node, Pair(i, j) PROVE Counted(n)'
  <2>1. Outbound(n)' = Outbound(n)
    <3>1. ASSUME NEW s \in Stream, Open(i, j, s) PROVE Outbound(n)' = Outbound(n)
      <4>1. \A m \in Node : reg[n][m] # s
        BY <3>1, Registered DEF Open, IsFree, Ends
      <4>2. reg' = reg /\ \A t \in Stream \ {s} : from'[t] = from[t]
        BY <1>1, <1>9, <3>1 DEF Pair, Open, TypeOK
      <4>3. \A m \in Node : reg[n][m] # None => from'[reg[n][m]] = from[reg[n][m]]
        BY <1>1, <4>1, <4>2 DEF TypeOK
      <4> QED
        BY <4>2, <4>3 DEF Outbound
    <3> QED
      BY <1>9, <3>1 DEF Pair, streamVars, Outbound
  <2>2. CASE i # n
    <3>1. round'[n] = round[n]
      BY <1>1, <1>9, <2>2 DEF Pair, TypeOK
    <3>2. ASSUME NEW t \in Stream, Open(i, j, t), NEW s \in Stream, Asking(n, s)'
          PROVE  Asking(n, s)
      <4>1. stage'[t][n] # "asking"
        BY <1>1, <2>2, <3>2 DEF Open, TypeOK
      <4>2. s # t => stage'[s] = stage[s]
        BY <1>1, <3>2 DEF Open, TypeOK
      <4> QED
        BY <3>2, <4>1, <4>2 DEF Asking
    <3>3. \A s \in Stream : Asking(n, s)' => Asking(n, s)
      BY <1>9, <3>2 DEF Pair, streamVars, Asking
    <3> QED
      BY <1>1, <2>1, <3>1, <3>3, FewerOutbound
  <2>3. CASE i = n
    <3>1. /\ round[n].at = "pairing" /\ round'[n].at = "pairing" /\ round[n].need > 0
          /\ round'[n].need = round[n].need - 1 /\ \A s \in Stream : ~Asking(n, s)
      BY <1>1, <1>9, <2>3 DEF Pair, Busy, Asking, TypeOK, Rounds
    <3>2. \A s, t \in Stream : Asking(n, s)' /\ Asking(n, t)' => t = s
      BY <1>1, <1>9, <2>3, <3>1 DEF Pair, Open, streamVars, Asking, TypeOK
    <3>3. /\ Cardinality(Outbound(n)) \in Nat /\ round[n].need \in Nat /\ OutboundCapacity \in Nat
          /\ Cardinality(Outbound(n)) + round[n].need =< OutboundCapacity
      BY <1>1, <3>1, OutboundCount, PairingAssumption DEF Counted, TypeOK, Rounds, PairingAssumption
    <3> QED
      BY <2>1, <3>1, <3>2, <3>3 DEF Counted
  <2> QED
    BY <2>2, <2>3
<1>10. ASSUME UNCHANGED vars PROVE Counted(n)'
  BY <1>1, <1>10 DEF vars, streamVars, Counted, Outbound, Asking
<1> QED
  BY <1>2, <1>3, <1>4, <1>5, <1>6, <1>7, <1>8, <1>9, <1>10 DEF Next

-----------------------------------------------------------------------------
(* Theorems *)

\* The variables of pairing keep their types.
THEOREM PairingTypeCorrect == SafeSpec => []TypeOK
<1>1. Owned => TypeOK
  BY DEF Owned
<1> QED
  BY <1>1, InitOwned, OwnedStep, PTL DEF SafeSpec

\* No end of a stream is leaked by a handshake, a replacement or a removal.
THEOREM NoStreamLeaks == SafeSpec => []OpenIsOwned
<1>1. Owned => OpenIsOwned
  BY DEF Owned
<1> QED
  BY <1>1, InitOwned, OwnedStep, PTL DEF SafeSpec

\* Whatever is registered is open, and read by process or about to be.
THEOREM RegisteredAlwaysRead == SafeSpec => []RegisteredIsRead
<1>1. Owned => RegisteredIsRead
  BY DEF Owned
<1> QED
  BY <1>1, InitOwned, OwnedStep, PTL DEF SafeSpec

\* The count that replenishStreamstore took long before leaves room for every
\* stream that pair opens.
THEOREM PairAlwaysFindsRoom == SafeSpec => []PairFindsRoom
<1>1. Init => RoomKept
  BY DEF Init, RoomKept, Counted, Asking, Waiting, Stopped
<1>2. Owned /\ RoomKept => PairFindsRoom
  <2> SUFFICES ASSUME Owned, RoomKept, NEW s \in Stream, from[s] # None, Asking(from[s], s)
               PROVE  HasRoom(from[s], to[s], s)
    BY DEF PairFindsRoom, Asking
  <2> DEFINE n == from[s]
             others == Outbound(n) \ {to[s]}
  <2>1. n \in Node /\ Counted(n) /\ round[n].need \in Nat
    BY DEF Owned, TypeOK, Rounds, RoomKept
  <2>2. Cardinality(Outbound(n)) + round[n].need + 1 =< OutboundCapacity
    BY <2>1 DEF Counted
  <2>3. /\ Cardinality(Outbound(n)) \in Nat /\ Cardinality(others) \in Nat
        /\ Cardinality(others) =< Cardinality(Outbound(n))
    BY <2>1, OutboundCount, FS_Subset, FS_CardinalityType
  <2>4. Cardinality(others) < OutboundCapacity
    BY <2>1, <2>2, <2>3, PairingAssumption DEF PairingAssumption
  <2> QED
    BY <2>4 DEF HasRoom
<1> QED
  BY <1>1, <1>2, InitOwned, OwnedStep, RoomStep, PTL DEF SafeSpec
=============================================================================
