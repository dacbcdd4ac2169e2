------------------------- MODULE RoutingTableProofs -------------------------
(***************************************************************************)
(* Proofs about RoutingTable for any number of peers, callers and rings    *)
(* and any latency ranges.                                                 *)
(***************************************************************************)
EXTENDS RoutingTable, TLAPS

\* None is neither a peer nor a number.
LEMMA NoneDistinct == None \notin Peer /\ None \notin Nat
BY RoutingTableAssumption DEF RoutingTableAssumption

\* A latency belongs to one ring at most, whatever the ranges are.
LEMMA RingUnique ==
  ASSUME NEW latency, NEW i \in RingOf(latency), NEW j \in RingOf(latency)
  PROVE  i = j
<1>1. i \in Int /\ j \in Int /\ i \in Ring /\ j \in Ring
  BY RoutingTableAssumption DEF RingOf, Ring, RoutingTableAssumption
<1>2. ~(j > i) /\ ~(i > j)
  BY <1>1 DEF RingOf
<1> QED
  BY <1>1, <1>2

-----------------------------------------------------------------------------
(* Types, and rings within the known peers *)

Consistent == TypeOK /\ RingsConsistent

LEMMA InitConsistent == Init => Consistent
BY NoneDistinct DEF Init, Consistent, TypeOK, RingsConsistent

\* Recording a latency keeps the type of the metrics.
LEMMA RecordType ==
  ASSUME TypeOK, NEW p \in Peer, NEW latency, RecordLatency(p, latency)
  PROVE  metrics' \in [Peer -> Latency \union {None}]
BY DEF TypeOK, RecordLatency

LEMMA ConsistentStep == Consistent /\ [Next]_vars => Consistent'
<1> SUFFICES ASSUME TypeOK, RingsConsistent, [Step]_vars PROVE TypeOK' /\ RingsConsistent'
  BY DEF Consistent, Next
<1> USE NoneDistinct
<1>1. ASSUME NEW c \in Caller,
             AddFails(c) \/ \E p \in Peer : AddProbes(c, p)
      PROVE  TypeOK' /\ RingsConsistent'
  BY <1>1 DEF AddFails, AddProbes, TypeOK, RingsConsistent
<1>2. ASSUME NEW c \in Caller, NEW latency \in Latency, AddFinishes(c, latency)
      PROVE  TypeOK' /\ RingsConsistent'
  <2>1. adding[c] \in Peer
    BY <1>2 DEF AddFinishes, TypeOK
  <2>2. metrics' \in [Peer -> Latency \union {None}]
    BY <1>2, <2>1, RecordType DEF AddFinishes
  <2> QED
    BY <1>2, <2>1, <2>2 DEF AddFinishes, TypeOK, RingsConsistent
<1>3. ASSUME NEW p \in Peer, Remove(p) PROVE TypeOK' /\ RingsConsistent'
  <2>1. TypeOK'
    BY <1>3 DEF Remove, TypeOK
  <2>2. \A i \in Ring : rings'[i] = rings[i] \ {p}
    BY <1>3 DEF Remove
  <2>3. RingsConsistent'
    BY <1>3, <2>2 DEF Remove, RingsConsistent
  <2> QED
    BY <2>1, <2>3
<1>4. ASSUME NEW p \in Peer, RefreshProbes(p) PROVE TypeOK' /\ RingsConsistent'
  <2>1. metrics' \in [Peer -> Latency \union {None}]
    BY <1>4, RecordType DEF RefreshProbes, TypeOK
  <2> QED
    BY <1>4, <2>1 DEF RefreshProbes, TypeOK, RingsConsistent
<1>5. ASSUME RefreshStarts PROVE TypeOK' /\ RingsConsistent'
  BY <1>5 DEF RefreshStarts, Drawn, TypeOK, RingsConsistent
<1>6. ASSUME RefreshEnds PROVE TypeOK' /\ RingsConsistent'
  <2>1. TypeOK'
    BY <1>6 DEF RefreshEnds, populateRings, TypeOK
  <2>2. /\ peers' = peers
        /\ \A i \in Ring : rings'[i] = {p \in peers : i \in RingOf(LatencyEWMA(p))}
    BY <1>6 DEF RefreshEnds, populateRings
  <2>3. \A i, j \in Ring : i # j => rings'[i] \intersect rings'[j] = {}
    BY <2>2, RingUnique
  <2> QED
    BY <2>1, <2>2, <2>3 DEF RingsConsistent
<1>7. ASSUME RefreshStops \/ Shutdown \/ UNCHANGED vars PROVE TypeOK' /\ RingsConsistent'
  BY <1>7 DEF RefreshStops, Shutdown, vars, TypeOK, RingsConsistent
<1> QED
  BY <1>1, <1>2, <1>3, <1>4, <1>5, <1>6, <1>7 DEF Step

\* The variables keep their types.
THEOREM TableTypeCorrect == SafeSpec => []TypeOK
<1>1. Consistent => TypeOK
  BY DEF Consistent
<1> QED
  BY <1>1, InitConsistent, ConsistentStep, PTL DEF SafeSpec

\* Whatever the order of Add, Remove and the refresh, a ring holds known peers
\* only and no peer is in two rings.
THEOREM RingsAlwaysConsistent == SafeSpec => []RingsConsistent
<1>1. Consistent => RingsConsistent
  BY DEF Consistent
<1> QED
  BY <1>1, InitConsistent, ConsistentStep, PTL DEF SafeSpec

-----------------------------------------------------------------------------
(* Recommendations *)

\* From consistent rings no recommendation repeats a peer, names an unknown one
\* or an excluded one.
LEMMA SoundFromRings ==
  ASSUME TypeOK, RingsConsistent, NEW count, NEW exclude,
         NEW R \in Recommend(count, exclude)
  PROVE  /\ \A m1, m2 \in R : m1[2] = m2[2] => m1 = m2
         /\ \A m \in R : m[2] \in peers \ exclude
<1>1. PICK R0 \in FromRings(count, exclude) : R \in Filled(R0, count, exclude)
  BY DEF Recommend
<1>2. \A m \in R0 : /\ m = <<m[1], m[2]>>
                    /\ m[1] \in Ring
                    /\ m[2] \in rings[m[1]] /\ m[2] \notin exclude
  BY <1>1 DEF FromRings
<1>3. \A m \in R0 : m[2] \in peers \ exclude
  BY <1>2 DEF RingsConsistent
<1>4. \A m1, m2 \in R0 : m1[2] = m2[2] => m1 = m2
  <2> SUFFICES ASSUME NEW m1 \in R0, NEW m2 \in R0, m1[2] = m2[2] PROVE m1 = m2
    OBVIOUS
  <2>1. m1[1] = m2[1]
    BY <1>2 DEF RingsConsistent
  <2> QED
    BY <1>2, <2>1
<1>5. CASE R = R0
  BY <1>3, <1>4, <1>5
<1>6. CASE R # R0
  <2>1. PICK D \in SUBSET peers :
          R = R0 \union ({RingsCount} \X (D \ (exclude \union {m[2] : m \in R0})))
    BY <1>1, <1>6 DEF Filled, Drawn
  <2>2. \A m \in R : \/ m \in R0
                     \/ /\ m = <<RingsCount, m[2]>> /\ m[2] \in peers \ exclude
                        /\ \A m0 \in R0 : m0[2] # m[2]
    BY <2>1
  <2> QED
    BY <2>2, <1>3, <1>4
<1> QED
  BY <1>5, <1>6

\* Recommend never names a peer twice, an unknown peer or an excluded one: what
\* the stream store's Apply relies on.
THEOREM RecommendationsSound == SafeSpec => []RecommendSound
<1>1. Consistent => RecommendSound
  BY SoundFromRings DEF Consistent, RecommendSound, Requests
<1> QED
  BY <1>1, InitConsistent, ConsistentStep, PTL DEF SafeSpec

-----------------------------------------------------------------------------
(* Placement, when one goroutine at a time calls Add *)

\* The ring of a latency begins below it, and the next one does not.
LEMMA InRange ==
  ASSUME NEW latency, NEW i \in RingOf(latency)
  PROVE  latency > latRanges[i] /\ (i + 1 \in Ring => ~ latency > latRanges[i + 1])
BY RoutingTableAssumption DEF RingOf, Ring, RoutingTableAssumption

LEMMA PlacedInit == Init => PlacedInv
<1> SUFFICES ASSUME Init PROVE PlacedInv
  OBVIOUS
<1>1. TypeOK /\ RingsConsistent
  BY InitConsistent DEF Consistent
<1> QED
  BY <1>1 DEF Init, PlacedInv, RingsFilledOnce, ProbingUnknown, PlacedByLatency

LEMMA PlacedStep == OneCaller /\ PlacedInv /\ [Next]_vars => PlacedInv'
<1> SUFFICES ASSUME OneCaller, PlacedInv, [Next]_vars PROVE PlacedInv'
  OBVIOUS
<1>step. [Step]_vars
  BY DEF Next
<1>0. TypeOK' /\ RingsConsistent'
  BY ConsistentStep DEF PlacedInv, Consistent
<1> DEFINE Rest == RingsFilledOnce /\ ProbingUnknown /\ PlacedByLatency
<1> SUFFICES Rest'
  BY <1>0 DEF PlacedInv
<1> USE NoneDistinct DEF PlacedInv
<1>1. ASSUME NEW c \in Caller, AddFails(c) \/ \E p \in Peer : AddProbes(c, p)
      PROVE  Rest'
  <2>1. ProbingUnknown'
    BY <1>1 DEF AddFails, AddProbes, TypeOK, ProbingUnknown
  <2>2. UNCHANGED <<rings, metrics, refresher, sample>>
    BY <1>1 DEF AddFails, AddProbes
  <2> QED
    BY <2>1, <2>2 DEF RingsFilledOnce, PlacedByLatency, LatencyEWMA
<1>2. ASSUME NEW c \in Caller, NEW latency \in Latency, AddFinishes(c, latency)
      PROVE  Rest'
  <2>1. ProbingUnknown'
    BY <1>2 DEF AddFinishes, TypeOK, ProbingUnknown, OneCaller
  <2>2. \A i \in Ring : adding[c] \notin rings[i]
    BY <1>2 DEF AddFinishes, ProbingUnknown, RingsConsistent
  <2>3. \A p \in Peer : p # adding[c] => metrics'[p] = metrics[p]
    BY <1>2 DEF AddFinishes, RecordLatency, TypeOK
  <2>4. \A i \in Ring : \A p \in rings[i] : p \in Peer /\ metrics'[p] = metrics[p]
    BY <2>2, <2>3 DEF TypeOK
  <2>5. PlacedByLatency'
    BY <1>2, <2>4 DEF AddFinishes, PlacedByLatency, LatencyEWMA
  <2>6. RingsFilledOnce'
    BY <1>2 DEF AddFinishes, RingsFilledOnce
  <2> QED
    BY <2>1, <2>5, <2>6
<1>3. ASSUME NEW p \in Peer, Remove(p) PROVE Rest'
  <2>1. \A i \in Ring : rings'[i] = rings[i] \ {p}
    BY <1>3 DEF Remove
  <2>2. UNCHANGED <<metrics, adding, refresher, sample>> /\ peers' \subseteq peers
    BY <1>3 DEF Remove
  <2> QED
    BY <2>1, <2>2 DEF RingsFilledOnce, ProbingUnknown, PlacedByLatency, LatencyEWMA
<1>4. ASSUME NEW p \in Peer, RefreshProbes(p) PROVE Rest'
  <2>1. refresher = "probing"
    BY <1>4 DEF RefreshProbes, RingsFilledOnce
  <2>2. UNCHANGED <<peers, rings, adding, refresher>>
    BY <1>4 DEF RefreshProbes
  <2> QED
    BY <2>1, <2>2 DEF RingsFilledOnce, ProbingUnknown, PlacedByLatency
<1>5. ASSUME RefreshStarts PROVE Rest'
  BY <1>5 DEF RefreshStarts, RingsFilledOnce, ProbingUnknown, PlacedByLatency, LatencyEWMA
<1>6. ASSUME RefreshEnds PROVE Rest'
  <2>1. \A i \in Ring : rings'[i] = {p \in peers : i \in RingOf(LatencyEWMA(p))}
    BY <1>6 DEF RefreshEnds, populateRings
  <2>2. /\ refresher' = "ended" /\ sample' = {}
        /\ UNCHANGED <<peers, metrics, adding>>
    BY <1>6 DEF RefreshEnds
  <2>3. PlacedByLatency'
    BY <2>1, <2>2, InRange DEF PlacedByLatency, LatencyEWMA, TypeOK
  <2> QED
    BY <2>2, <2>3 DEF RingsFilledOnce, ProbingUnknown
<1>7. ASSUME RefreshStops \/ Shutdown \/ UNCHANGED vars PROVE Rest'
  BY <1>7 DEF RefreshStops, Shutdown, vars, RingsFilledOnce, ProbingUnknown,
              PlacedByLatency, LatencyEWMA
<1> QED
  BY <1>step, <1>1, <1>2, <1>3, <1>4, <1>5, <1>6, <1>7 DEF Step

\* With one goroutine at a time in Add, as under the stream store's lock, no
\* later measurement moves a sorted peer out of its ring's range.
THEOREM PlacedAlways == OneCaller => (SafeSpec => []PlacedByLatency)
<1> SUFFICES ASSUME OneCaller PROVE SafeSpec => []PlacedByLatency
  OBVIOUS
<1>1. PlacedInv /\ [Next]_vars => PlacedInv'
  BY PlacedStep
<1>2. PlacedInv => PlacedByLatency
  BY DEF PlacedInv
<1> QED
  BY <1>1, <1>2, PlacedInit, PTL DEF SafeSpec
=============================================================================
