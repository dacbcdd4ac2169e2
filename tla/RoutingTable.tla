---------------------------- MODULE RoutingTable ----------------------------
(***************************************************************************)
(* The latency rings of routingtable/rings.go: the set of known peers, the *)
(* rings they are sorted into, the smoothed latencies, calls of Add that   *)
(* probe a peer without holding the lock, and the goroutine that refreshes *)
(* latencies and rings.                                                    *)
(*                                                                         *)
(* Every section of code under the table's lock is one step.  A latency is *)
(* a small number; the metrics store is go-libp2p-peerstore's and is       *)
(* modelled from its use.                                                  *)
(***************************************************************************)
EXTENDS Integers, FiniteSets

CONSTANTS
  Peer,          \* peer identifiers
  Caller,        \* goroutines that call Add
  RingsCount,    \* RingsCount
  BaseLatency,   \* BaseLatency
  GrowthFactor,  \* LatencyGrowthFactor
  SampleSize,    \* SampleSize
  MaxLatency,    \* bound of the model: the longest latency probed
  None           \* no peer, no measurement

ASSUME RoutingTableAssumption ==
  /\ IsFiniteSet(Peer)
  /\ RingsCount \in Nat \ {0}
  /\ BaseLatency \in Nat /\ GrowthFactor \in Nat
  /\ SampleSize \in Nat
  /\ MaxLatency \in Nat
  /\ None \notin Peer \union Nat

VARIABLES
  peers,      \* the known peers
  rings,      \* rings[i]: the peers in ring i
  metrics,    \* metrics[p]: the smoothed latency of p, or None
  adding,     \* adding[c]: the peer caller c is probing, or None
  refresher,  \* what the refresh goroutine is at
  sample,     \* the peers it has still to probe
  shutdown    \* the shutdown channel, or what closing it twice made of the program

vars == <<peers, rings, metrics, adding, refresher, sample, shutdown>>

Ring == 0 .. RingsCount - 1
Latency == 0 .. MaxLatency

\* The latency range of ring i starts at latRanges[i].
latRanges == [i \in Ring |-> IF i = 0 THEN 0 ELSE BaseLatency * GrowthFactor ^ (i - 1)]

TypeOK ==
  /\ peers \in SUBSET Peer
  /\ rings \in [Ring -> SUBSET Peer]
  /\ metrics \in [Peer -> Latency \union {None}]
  /\ adding \in [Caller -> Peer \union {None}]
  /\ refresher \in {"waiting", "probing", "ended"}
  /\ sample \in SUBSET Peer
  /\ shutdown \in {"open", "closed", "panicked"}

Init ==
  /\ peers = {}
  /\ rings = [i \in Ring |-> {}]
  /\ metrics = [p \in Peer |-> None]
  /\ adding = [c \in Caller |-> None]
  /\ refresher = "waiting"
  /\ sample = {}
  /\ shutdown = "open"

Lesser(m, n) == IF m < n THEN m ELSE n

\* n peers, or all there are, drawn at random from S.
Drawn(n, S) == {D \in SUBSET S : Cardinality(D) = Lesser(n, Cardinality(S))}

-----------------------------------------------------------------------------
(* The metrics store *)

LatencyEWMA(p) == IF metrics[p] = None THEN 0 ELSE metrics[p]

\* RecordLatency: a first measurement is kept as it is, a later one moves the
\* mean towards it by an amount that depends on the weights.
RecordLatency(p, latency) ==
  \E m \in Latency :
    /\ \/ metrics[p] = None /\ m = latency
       \/ metrics[p] # None /\ (m \in metrics[p] .. latency \/ m \in latency .. metrics[p])
    /\ metrics' = [metrics EXCEPT ![p] = m]

-----------------------------------------------------------------------------
(* Add and Remove *)

\* Add probes only a peer that is not known, after the read lock is released.
AddProbesAlways(c, p) ==  \* mutated form: a known peer is probed again
  /\ adding[c] = None
  /\ adding' = [adding EXCEPT ![c] = p]
  /\ UNCHANGED <<peers, rings, metrics, refresher, sample, shutdown>>
AddProbes(c, p) ==
  /\ adding[c] = None
  /\ p \notin peers
  /\ adding' = [adding EXCEPT ![c] = p]
  /\ UNCHANGED <<peers, rings, metrics, refresher, sample, shutdown>>

AddFinishes(c, latency) ==
  /\ adding[c] # None
  /\ RecordLatency(adding[c], latency)
  /\ peers' = peers \union {adding[c]}
  /\ adding' = [adding EXCEPT ![c] = None]
  /\ UNCHANGED <<rings, refresher, sample, shutdown>>

\* The probe failed: the peer does not become known.
AddFails(c) ==
  /\ adding[c] # None
  /\ adding' = [adding EXCEPT ![c] = None]
  /\ UNCHANGED <<peers, rings, metrics, refresher, sample, shutdown>>

\* The metrics of the peer are kept.
RemoveKeepingRings(p) ==  \* mutated form: the rings are forgotten
  /\ peers' = peers \ {p}
  /\ UNCHANGED <<rings, metrics, adding, refresher, sample, shutdown>>
Remove(p) ==
  /\ peers' = peers \ {p}
  /\ rings' = [i \in Ring |-> rings[i] \ {p}]
  /\ UNCHANGED <<metrics, adding, refresher, sample, shutdown>>

-----------------------------------------------------------------------------
(* The refresh goroutine: one round after SamplePeriod, unless shut down *)

RefreshStarts ==
  /\ refresher = "waiting"
  /\ refresher' = "probing"
  /\ sample' \in Drawn(SampleSize, peers)
  /\ UNCHANGED <<peers, rings, metrics, adding, shutdown>>

\* A sampled peer is probed without the lock, and recorded even if it has been
\* removed in the meantime; a failed probe is only logged.
RefreshProbes(p) ==
  /\ p \in sample
  /\ sample' = sample \ {p}
  /\ UNCHANGED metrics \/ \E latency \in Latency : RecordLatency(p, latency)
  /\ UNCHANGED <<peers, rings, adding, refresher, shutdown>>

\* The ring of a latency: the last one whose range starts below it.
RingOf(latency) ==
  {i \in Ring : latency > latRanges[i] /\ ~ \E j \in Ring : j > i /\ latency > latRanges[j]}

populateRings ==
  rings' = [i \in Ring |-> {p \in peers : i \in RingOf(LatencyEWMA(p))}]

\* After the round the goroutine ends: there is no loop around the select.
RefreshEnds ==
  /\ refresher = "probing"
  /\ sample = {}
  /\ populateRings
  /\ refresher' = "ended"
  /\ UNCHANGED <<peers, metrics, adding, sample, shutdown>>

\* close: of a channel that is closed already it panics.
Shutdown ==
  /\ shutdown' = IF shutdown = "open" THEN "closed" ELSE "panicked"
  /\ UNCHANGED <<peers, rings, metrics, adding, refresher, sample>>

\* With both cases of the select ready either may be taken.
RefreshStops ==
  /\ refresher = "waiting"
  /\ shutdown = "closed"
  /\ refresher' = "ended"
  /\ UNCHANGED <<peers, rings, metrics, adding, sample, shutdown>>

-----------------------------------------------------------------------------
(* Recommend: the slice returned, as the set of its <<source, peer>>, where *)
(* the source is a ring or RingsCount for the random sample                 *)

\* nodesFromRing: count dealt out over the rings, one by one.
nodesFromRing(count) ==
  [i \in Ring |-> Cardinality({k \in 0 .. count - 1 : k % RingsCount = i})]

\* ring.Recommend over all rings: drawn first, excluded afterwards.
FromRings(count, exclude) ==
  LET inRings == {m \in Ring \X Peer : m[2] \in rings[m[1]]}
      ring(i) == {m \in inRings : m[1] = i}
      drawn == {D \in SUBSET inRings :
                  \A i \in Ring : D \intersect ring(i) \in Drawn(nodesFromRing(count)[i], ring(i))}
  IN {{m \in D : m[2] \notin exclude} : D \in drawn}

\* The rest from a random sample of all peers, again excluded afterwards.
FilledRepeating(R, count, exclude) ==  \* mutated form: may name a peer twice
  IF Cardinality(R) < count
    THEN {R \union ({RingsCount} \X (D \ exclude)) : D \in Drawn(count - Cardinality(R), peers)}
    ELSE {R}
Filled(R, count, exclude) ==
  IF Cardinality(R) < count
    THEN {R \union ({RingsCount} \X (D \ (exclude \union {m[2] : m \in R}))) :
            D \in Drawn(count - Cardinality(R), peers)}
    ELSE {R}

Recommend(count, exclude) ==
  UNION {Filled(R, count, exclude) : R \in FromRings(count, exclude)}

-----------------------------------------------------------------------------
(* Specification *)

Step ==
  \/ \E c \in Caller : AddFails(c)
  \/ \E c \in Caller, p \in Peer : AddProbes(c, p)
  \/ \E c \in Caller, latency \in Latency : AddFinishes(c, latency)
  \/ \E p \in Peer : Remove(p) \/ RefreshProbes(p)
  \/ RefreshStarts \/ RefreshEnds \/ RefreshStops
  \/ Shutdown

Next == shutdown # "panicked" /\ Step

SafeSpec == Init /\ [][Next]_vars

-----------------------------------------------------------------------------
(* Properties *)

\* A ring holds known peers only and no peer is in two rings, with Add, Remove
\* and the refresh in any order: populateRings reads the peers it sorts under
\* the lock, not those sampled before.
RingsConsistent ==
  /\ \A i \in Ring : rings[i] \subseteq peers
  /\ \A i, j \in Ring : i # j => rings[i] \intersect rings[j] = {}

\* The mean latency of a peer in a ring stays above the beginning of the ring's
\* range and not above the beginning of the next, while measurements go on, as
\* long as one goroutine at a time calls Add, which the stream store's lock
\* ensures.  Two at a time may record a latency for a peer that is sorted already.
\* These are not the ranges the comment in the code gives: see InLatencyRange.
PlacedByLatency ==
  \A i \in Ring : \A p \in rings[i] :
    /\ LatencyEWMA(p) > latRanges[i]
    /\ i + 1 \in Ring => ~ LatencyEWMA(p) > latRanges[i + 1]

\* What the comment on latRanges says: the range of the nth ring is from
\* latRanges[n], inclusive, to latRanges[n + 1], exclusive.
InLatencyRange ==
  \A i \in Ring : \A p \in rings[i] :
    /\ latRanges[i] <= LatencyEWMA(p)
    /\ i + 1 \in Ring => LatencyEWMA(p) < latRanges[i + 1]

\* The inductive invariant of PlacedByLatency: rings stay empty until the
\* goroutine has probed its sample, and the one caller probes an unknown peer.
RingsFilledOnce ==
  /\ refresher # "ended" => \A i \in Ring : rings[i] = {}
  /\ refresher # "probing" => sample = {}
OneCaller == \A c1, c2 \in Caller : c1 = c2
ProbingUnknown == \A c \in Caller : adding[c] \notin peers

PlacedInv == TypeOK /\ RingsConsistent /\ RingsFilledOnce /\ ProbingUnknown /\ PlacedByLatency

\* What Recommend may be asked in the checks.
Requests == (0 .. RingsCount + 1) \X SUBSET Peer

\* A recommendation names no peer twice, only known peers, and none of those
\* excluded: what Apply in the stream store takes for granted.
RecommendSound ==
  \A q \in Requests : \A R \in Recommend(q[1], q[2]) :
    /\ \A m1, m2 \in R : m1[2] = m2[2] => m1 = m2
    /\ \A m \in R : m[2] \in peers \ q[2]
=============================================================================
