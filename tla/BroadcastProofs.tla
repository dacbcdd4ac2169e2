-------------------------- MODULE BroadcastProofs --------------------------
(***************************************************************************)
(* Proofs about Streamstore and about Broadcast, which extends it.         *)
(*                                                                         *)
(* First the store, for every number of peers, handles and transactions    *)
(* and every capacity: IInv is inductive, and the safety properties and    *)
(* the step simulation of StreamstoreContract follow.                      *)
(*                                                                         *)
(* Then Broadcast, for any numbers of artifacts and chunks as well: it     *)
(* uses the store only as the store's interface allows, so that what is    *)
(* proved of the store holds of it, no witness is sent an artifact, frames *)
(* are in order on every stream, and no peer receives a chunk after a gap. *)
(***************************************************************************)
EXTENDS Broadcast, FiniteSetTheorems, WellFoundedInduction, TLAPS

\* No peer, handle or transaction is confused with another or with None.
LEMMA Distinct ==
  /\ None \notin Peer /\ None \notin Stream /\ None \notin Tx
  /\ \A p \in Peer : p \notin Tx
  /\ TxQueueSize \in Nat /\ TxQueueSize > 0
  /\ InboundCapacity \in Nat /\ InboundCapacity > 0
  /\ OutboundCapacity \in Nat /\ OutboundCapacity > 0
  /\ IsFiniteSet(Peer)
BY StoreAssumption DEF StoreAssumption

-----------------------------------------------------------------------------
(* The initial states *)

LEMMA InitTypes == Init => TypeOK
<1> SUFFICES ASSUME Init PROVE TypeOK
  OBVIOUS
<1>1. queue \in [Stream -> Seq(Tx)] /\ \A s \in Stream : Len(queue[s]) <= TxQueueSize
  BY Distinct DEF Init
<1>2. phase \in [Tx -> Phases] /\ picked \in [Tx -> SUBSET Peer]
      /\ sends \in [Tx -> SUBSET (Peer \X (Stream \union {None}))]
      /\ result \in [Tx -> [Peer -> Results]]
  BY DEF Init, NoResults, Phases, Results
<1> QED
  BY <1>1, <1>2 DEF Init, TypeOK

LEMMA InitInv == Init => IInv
<1> SUFFICES ASSUME Init PROVE IInv
  OBVIOUS
<1>1. TypeOK
  BY InitTypes
<1>2. RegisteredIffOpen /\ FreeHandlesIdle
  BY Distinct DEF Init, RegisteredIffOpen, FreeHandlesIdle
<1>3. Capacity
  <2>1. Having(peers, TRUE) = {} /\ Having(peers, FALSE) = {}
    BY DEF Init, Having
  <2>2. Cardinality({}) = 0
    BY FS_EmptySet
  <2>3. inboundSize(peers) = 0 /\ outboundSize(peers) = 0
    BY <2>1, <2>2, Zenon DEF inboundSize, outboundSize
  <2> QED
    BY <2>3, Distinct DEF Capacity
<1>4. SendingHoldsLock /\ SendsCurrent /\ NotAskedYet
  BY Distinct DEF Init, SendingHoldsLock, SendsCurrent, NotAskedYet, NoResults
<1>5. OneAnswerOwed
  BY Distinct DEF Init, OneAnswerOwed, Owing, NoResults
<1> QED
  BY <1>1, <1>2, <1>3, <1>4, <1>5 DEF IInv

-----------------------------------------------------------------------------
(* Type correctness *)

\* What is left open after closing is a function of the same kind.
LEMMA StillOpenType ==
  ASSUME TypeOK, NEW P
  PROVE  StillOpen(P) \in [Stream -> BOOLEAN]
BY DEF StillOpen, TypeOK

LEMMA TypeStep == TypeOK /\ [Next]_vars => TypeOK'
<1> SUFFICES ASSUME TypeOK, [Next]_vars PROVE TypeOK'
  OBVIOUS
<1> USE Distinct DEF TypeOK, storeVars, workVars, txVars
<1>1. ASSUME NEW p \in Peer, NEW dir \in BOOLEAN, AddRejected(p, dir) PROVE TypeOK'
  BY <1>1, StillOpenType DEF AddRejected, Without
<1>2. ASSUME NEW p \in Peer, NEW dir \in BOOLEAN, NEW s \in Stream, AddAccepted(p, s, dir)
      PROVE TypeOK'
  BY <1>2, StillOpenType DEF AddAccepted
<1>3. ASSUME NEW p \in Peer, AddReturns(p) PROVE TypeOK'
  BY <1>3 DEF AddReturns
<1>4. ASSUME NEW p \in Peer, Remove(p) PROVE TypeOK'
  BY <1>4, StillOpenType DEF Remove, Without
<1>5. ASSUME Purge PROVE TypeOK'
  BY <1>5, StillOpenType DEF Purge
<1>6. ASSUME NEW t \in Tx, NEW ex \in SUBSET Peer, Apply(t, ex) \/ ApplyAll(t, ex)
      PROVE TypeOK'
  <2>1. PICK sel \in SUBSET Peer : Pick(t, sel)
    BY <1>6 DEF Apply, ApplyAll
  <2> QED
    BY <2>1 DEF Pick, Phases
<1>7. ASSUME NEW t \in Tx, ApplyStart(t) PROVE TypeOK'
  <2>1. {<<p, peers[p]>> : p \in picked[t]} \in SUBSET (Peer \X (Stream \union {None}))
    OBVIOUS
  <2> QED
    BY <1>7, <2>1 DEF ApplyStart, Phases
<1>8. ASSUME NEW t \in Tx, ApplyReturns(t) PROVE TypeOK'
  BY <1>8 DEF ApplyReturns, Phases
<1>9. ASSUME NEW t \in Tx, Collect(t) PROVE TypeOK'
  BY <1>9 DEF Collect, Phases, NoResults, Results
<1>10. ASSUME NEW t \in Tx, NEW p \in Peer, NEW s \in Stream \union {None}, QueueTx(t, p, s)
       PROVE TypeOK'
  <2>1. sends' \in [Tx -> SUBSET (Peer \X (Stream \union {None}))]
    BY <1>10 DEF QueueTx
  <2>2. result' \in [Tx -> [Peer -> Results]]
    <3>1. \E r \in {"pending", "full"} : result' = [result EXCEPT ![t][p] = r]
      BY <1>10 DEF QueueTx, Accept
    <3> QED
      BY <3>1 DEF Results
  <2>3. queue' \in [Stream -> Seq(Tx)] /\ \A q \in Stream : Len(queue'[q]) <= TxQueueSize
    <3>1. CASE WouldAccept(s) /\ Accept(t, p, s)
      <4>1. s \in Stream /\ Len(queue[s]) < TxQueueSize
        BY <3>1 DEF WouldAccept
      <4>2. Append(queue[s], t) \in Seq(Tx) /\ Len(Append(queue[s], t)) = Len(queue[s]) + 1
        BY <4>1
      <4> QED
        BY <3>1, <4>1, <4>2 DEF Accept
    <3>2. CASE UNCHANGED queue
      BY <3>2
    <3> QED
      BY <1>10, <3>1, <3>2 DEF QueueTx
  <2> QED
    BY <1>10, <2>1, <2>2, <2>3 DEF QueueTx
<1>11. ASSUME NEW s \in Stream, NEW err \in {"ok", "error"}, FinishTx(s, err) PROVE TypeOK'
  BY <1>11 DEF FinishTx, Results
<1>12. ASSUME NEW s \in Stream, TakeTx(s) PROVE TypeOK'
  <2>1. /\ Head(queue[s]) \in Tx /\ Tail(queue[s]) \in Seq(Tx)
        /\ Len(Tail(queue[s])) = Len(queue[s]) - 1
    BY <1>12 DEF TakeTx
  <2> QED
    BY <1>12, <2>1 DEF TakeTx
<1>13. ASSUME NEW s \in Stream, WorkerExit(s) PROVE TypeOK'
  BY <1>13 DEF WorkerExit
<1>14. CASE UNCHANGED vars
  BY <1>14 DEF vars
<1> QED
  BY <1>1, <1>2, <1>3, <1>4, <1>5, <1>6, <1>7, <1>8, <1>9, <1>10, <1>11, <1>12,
     <1>13, <1>14 DEF Next

-----------------------------------------------------------------------------
(* Contexts: registered, served and open *)

\* Closing the contexts of the peers in P and forgetting them, with every lock,
\* queue and worker left alone, keeps the books.
LEMMA DropKeepsBooks ==
  ASSUME TypeOK, RegisteredIffOpen, FreeHandlesIdle, NEW P \in SUBSET Peer,
         open' = StillOpen(P),
         peers' = [p \in Peer |-> IF p \in P THEN None ELSE peers[p]],
         UNCHANGED <<owner, queue, worker>>
  PROVE  RegisteredIffOpen' /\ FreeHandlesIdle'
<1> USE Distinct
<1>1. RegisteredIffOpen'
  <2>1. ASSUME NEW p \in Peer, peers'[p] # None PROVE open'[peers'[p]] /\ owner'[peers'[p]] = p
    <3>1. p \notin P /\ peers'[p] = peers[p] /\ peers[p] \in Stream
      BY <2>1 DEF TypeOK
    <3>2. open[peers[p]] /\ owner[peers[p]] = p
      BY <3>1 DEF RegisteredIffOpen
    <3>3. \A q \in P : peers[q] # peers[p]
      BY <3>1, <3>2 DEF RegisteredIffOpen
    <3> QED
      BY <3>1, <3>2, <3>3 DEF StillOpen
  <2>2. ASSUME NEW s \in Stream, open'[s] PROVE owner'[s] # None /\ peers'[owner'[s]] = s
    <3>1. open[s] /\ \A q \in P : peers[q] # s
      BY <2>2 DEF StillOpen
    <3>2. owner[s] \in Peer /\ peers[owner[s]] = s
      BY <3>1 DEF RegisteredIffOpen, TypeOK
    <3> QED
      BY <3>1, <3>2
  <2> QED
    BY <2>1, <2>2 DEF RegisteredIffOpen
<1>2. FreeHandlesIdle'
  BY DEF FreeHandlesIdle, StillOpen, TypeOK
<1> QED
  BY <1>1, <1>2

LEMMA BooksStep ==
  ASSUME TypeOK, RegisteredIffOpen, FreeHandlesIdle, SendsCurrent, [Next]_vars
  PROVE  RegisteredIffOpen' /\ FreeHandlesIdle'
<1> USE Distinct DEF storeVars, workVars, txVars
<1>1. ASSUME NEW p \in Peer,
             Remove(p) \/ \E dir \in BOOLEAN : AddRejected(p, dir)
      PROVE  RegisteredIffOpen' /\ FreeHandlesIdle'
  <2>1. /\ open' = StillOpen({p})
        /\ peers' = [q \in Peer |-> IF q \in {p} THEN None ELSE peers[q]]
        /\ UNCHANGED <<owner, queue, worker>>
    BY <1>1 DEF Remove, AddRejected, Without, TypeOK
  <2> QED
    BY <2>1, DropKeepsBooks
<1>2. ASSUME NEW p \in Peer, NEW dir \in BOOLEAN, NEW s \in Stream, AddAccepted(p, s, dir)
      PROVE  RegisteredIffOpen' /\ FreeHandlesIdle'
  <2>1. \A q \in Peer : peers[q] # s
    BY <1>2 DEF AddAccepted, RegisteredIffOpen, FreeHandlesIdle, TypeOK
  <2>2. RegisteredIffOpen'
    <3>1. /\ peers' = [peers EXCEPT ![p] = s]
          /\ owner' = [owner EXCEPT ![s] = p]
          /\ \A r \in Stream : open'[r] <=> (r = s \/ (open[r] /\ peers[p] # r))
      BY <1>2 DEF AddAccepted, StillOpen, TypeOK
    <3>2. ASSUME NEW q \in Peer, peers'[q] # None
          PROVE  open'[peers'[q]] /\ owner'[peers'[q]] = q
      BY <3>1, <3>2, <2>1 DEF RegisteredIffOpen, TypeOK
    <3>3. ASSUME NEW r \in Stream, open'[r] PROVE owner'[r] # None /\ peers'[owner'[r]] = r
      BY <3>1, <3>3, <2>1 DEF RegisteredIffOpen, TypeOK
    <3> QED
      BY <3>2, <3>3 DEF RegisteredIffOpen
  <2>3. FreeHandlesIdle'
    BY <1>2 DEF AddAccepted, FreeHandlesIdle, StillOpen, TypeOK
  <2> QED
    BY <2>2, <2>3
<1>3. ASSUME Purge PROVE RegisteredIffOpen' /\ FreeHandlesIdle'
  <2>1. /\ open' = StillOpen(Peer)
        /\ peers' = [q \in Peer |-> IF q \in Peer THEN None ELSE peers[q]]
        /\ UNCHANGED <<owner, queue, worker>>
    BY <1>3 DEF Purge
  <2> QED
    BY <2>1, DropKeepsBooks
<1>4. ASSUME NEW t \in Tx, NEW p \in Peer, NEW s \in Stream \union {None}, QueueTx(t, p, s)
      PROVE  RegisteredIffOpen' /\ FreeHandlesIdle'
  <2>1. UNCHANGED <<peers, owner, open, worker>>
    BY <1>4 DEF QueueTx
  <2>2. s # None => owner[s] # None
    BY <1>4 DEF QueueTx, SendsCurrent, RegisteredIffOpen, TypeOK
  <2>3. \A q \in Stream : q # s => queue'[q] = queue[q]
    BY <1>4 DEF QueueTx, Accept, TypeOK
  <2>4. RegisteredIffOpen'
    BY <2>1 DEF RegisteredIffOpen
  <2>5. FreeHandlesIdle'
    BY <2>1, <2>2, <2>3 DEF FreeHandlesIdle
  <2> QED
    BY <2>4, <2>5
<1>5. ASSUME NEW s \in Stream, TakeTx(s) \/ \E err \in {"ok", "error"} : FinishTx(s, err)
      PROVE  RegisteredIffOpen' /\ FreeHandlesIdle'
  <2>1. /\ UNCHANGED <<peers, owner, open>>
        /\ owner[s] # None
        /\ \A q \in Stream : q # s => queue'[q] = queue[q] /\ worker'[q] = worker[q]
    BY <1>5 DEF TakeTx, FinishTx, FreeHandlesIdle, TypeOK
  <2> QED
    BY <2>1 DEF RegisteredIffOpen, FreeHandlesIdle
<1>6. ASSUME NEW s \in Stream, WorkerExit(s) PROVE RegisteredIffOpen' /\ FreeHandlesIdle'
  BY <1>6 DEF WorkerExit, RegisteredIffOpen, FreeHandlesIdle, TypeOK
<1>7. ASSUME UNCHANGED <<peers, owner, open, queue, worker>>
      PROVE  RegisteredIffOpen' /\ FreeHandlesIdle'
  BY <1>7 DEF RegisteredIffOpen, FreeHandlesIdle
<1>8. ASSUME \/ \E p \in Peer : AddReturns(p)
             \/ \E t \in Tx, ex \in SUBSET Peer : Apply(t, ex) \/ ApplyAll(t, ex)
             \/ \E t \in Tx : ApplyStart(t) \/ ApplyReturns(t) \/ Collect(t)
             \/ UNCHANGED vars
      PROVE  UNCHANGED <<peers, owner, open, queue, worker>>
  BY <1>8 DEF AddReturns, Apply, ApplyAll, Pick, ApplyStart, ApplyReturns, Collect, vars
<1> QED
  BY <1>1, <1>2, <1>3, <1>4, <1>5, <1>6, <1>7, <1>8 DEF Next

-----------------------------------------------------------------------------
(* Capacity *)

\* A map with fewer peers in a direction is no fuller.
LEMMA FewerIsNoMore ==
  ASSUME NEW A \in SUBSET Peer, NEW B \in SUBSET A, NEW n \in Nat, Cardinality(A) <= n
  PROVE  Cardinality(B) <= n /\ Cardinality(B) \in Nat
<1>1. IsFiniteSet(A)
  BY Distinct, FS_Subset
<1>2. IsFiniteSet(B) /\ Cardinality(B) <= Cardinality(A)
  BY <1>1, FS_Subset
<1>3. Cardinality(A) \in Nat /\ Cardinality(B) \in Nat
  BY <1>1, <1>2, FS_CardinalityType
<1> QED
  BY <1>2, <1>3

\* The bound of one direction, stated with the set of its peers.
Bound(dir) == IF dir THEN OutboundCapacity ELSE InboundCapacity
Within(m, dir) == Cardinality(Having(m, dir)) <= Bound(dir)

LEMMA CapacityByDirection == Capacity <=> \A dir \in BOOLEAN : Within(peers, dir)
BY Zenon DEF Capacity, Within, Bound, inboundSize, outboundSize

LEMMA CapacityByDirectionPrime == Capacity' <=> \A dir \in BOOLEAN : Within(peers, dir)'
BY Zenon DEF Capacity, Within, Bound, inboundSize, outboundSize

LEMMA CapacityStep ==
  ASSUME TypeOK, RegisteredIffOpen, FreeHandlesIdle, Capacity, [Next]_vars
  PROVE  Capacity'
<1> USE Distinct DEF storeVars, workVars, txVars
<1>0. SUFFICES ASSUME NEW d \in BOOLEAN PROVE Within(peers, d)'
  BY CapacityByDirectionPrime, Zenon
<1>1. Bound(d) \in Nat
  BY DEF Bound
<1>2. Cardinality(Having(peers, d)) <= Bound(d)
  BY CapacityByDirection DEF Within
<1>3. Having(peers, d) \in SUBSET Peer
  BY DEF Having
<1>4. ASSUME Having(peers, d)' \in SUBSET Having(peers, d) PROVE Within(peers, d)'
  BY <1>1, <1>2, <1>3, <1>4, FewerIsNoMore DEF Within, Bound
<1>5. ASSUME NEW p \in Peer, NEW dir \in BOOLEAN, NEW s \in Stream, AddAccepted(p, s, dir)
      PROVE  Within(peers, d)'
  <2>1. \A q \in Peer : peers[q] # s
    BY <1>5 DEF AddAccepted, RegisteredIffOpen, FreeHandlesIdle, TypeOK
  <2>2. CASE d # dir
    <3>1. Having(peers, d)' \in SUBSET Having(peers, d)
      BY <1>5, <2>1, <2>2 DEF AddAccepted, Having, TypeOK
    <3> QED
      BY <3>1, <1>4
  <2>3. CASE d = dir
    <3> DEFINE rest == Having(Without(p), d)
    <3>1. rest \in SUBSET Peer /\ p \notin rest
      BY DEF Having, Without, TypeOK
    <3>2. IsFiniteSet(rest) /\ Cardinality(rest) \in Nat
      BY <3>1, FS_Subset, FS_CardinalityType
    <3>3. Cardinality(rest) < Bound(d)
      BY <1>5, <2>3 DEF AddAccepted, HasRoom, inboundSize, outboundSize, Bound
    <3>4. Having(peers, d)' = rest \union {p}
      BY <1>5, <2>1, <2>3 DEF AddAccepted, Having, Without, TypeOK
    <3>5. Cardinality(rest \union {p}) = Cardinality(rest) + 1
      BY <3>1, <3>2, FS_AddElement
    <3>6. Cardinality(rest \union {p}) <= Bound(d)
      BY <3>2, <3>3, <3>5, <1>1
    <3> QED
      BY <3>4, <3>6 DEF Within, Bound
  <2> QED
    BY <2>2, <2>3
<1>6. ASSUME NEW p \in Peer, Remove(p) \/ \E dir \in BOOLEAN : AddRejected(p, dir)
      PROVE  Within(peers, d)'
  <2>1. peers' = Without(p) /\ UNCHANGED outbound
    BY <1>6 DEF Remove, AddRejected
  <2>2. Having(peers, d)' \in SUBSET Having(peers, d)
    BY <2>1 DEF Having, Without, TypeOK
  <2> QED
    BY <2>2, <1>4
<1>7. ASSUME Purge PROVE Within(peers, d)'
  <2>1. Having(peers, d)' \in SUBSET Having(peers, d)
    BY <1>7 DEF Purge, Having
  <2> QED
    BY <2>1, <1>4
<1>8. ASSUME UNCHANGED <<peers, outbound>> PROVE Within(peers, d)'
  BY <1>8, <1>4 DEF Having
<1>9. ASSUME \/ \E p \in Peer : AddReturns(p)
             \/ \E t \in Tx, ex \in SUBSET Peer : Apply(t, ex) \/ ApplyAll(t, ex)
             \/ \E t \in Tx : ApplyStart(t) \/ ApplyReturns(t) \/ Collect(t)
             \/ \E t \in Tx, p \in Peer, s \in Stream \union {None} : QueueTx(t, p, s)
             \/ \E s \in Stream, err \in {"ok", "error"} : FinishTx(s, err)
             \/ \E s \in Stream : TakeTx(s) \/ WorkerExit(s)
             \/ UNCHANGED vars
      PROVE  UNCHANGED <<peers, outbound>>
  BY <1>9 DEF AddReturns, Apply, ApplyAll, Pick, ApplyStart, ApplyReturns, Collect,
              QueueTx, FinishTx, TakeTx, WorkerExit, vars
<1> QED
  BY <1>5, <1>6, <1>7, <1>8, <1>9 DEF Next

-----------------------------------------------------------------------------
(* The lock and the goroutines of apply *)

Sending == SendingHoldsLock /\ SendsCurrent /\ NotAskedYet

\* While the lock is free no goroutine of apply is left.
LEMMA FreeLockNoSends ==
  ASSUME TypeOK, SendingHoldsLock, SendsCurrent, lock \notin Tx
  PROVE  \A t \in Tx : sends[t] = {} /\ phase[t] # "sending"
BY DEF SendingHoldsLock, SendsCurrent, TypeOK

LEMMA SendingStep ==
  ASSUME TypeOK, FreeHandlesIdle, Sending, [Next]_vars
  PROVE  Sending'
<1> USE Distinct DEF storeVars, workVars, txVars
<1>1. ASSUME lock \notin Tx, lock' \notin Tx, UNCHANGED <<phase, sends, result>>
      PROVE  Sending'
  <2>1. \A t \in Tx : sends[t] = {} /\ phase[t] # "sending"
    BY <1>1, FreeLockNoSends DEF Sending
  <2> QED
    BY <1>1, <2>1 DEF Sending, SendingHoldsLock, SendsCurrent, NotAskedYet
<1>2. ASSUME NEW p \in Peer,
             \/ AddReturns(p) \/ Remove(p)
             \/ \E dir \in BOOLEAN : \/ AddRejected(p, dir)
                                     \/ \E s \in Stream : AddAccepted(p, s, dir)
      PROVE  Sending'
  <2>1. lock \notin Tx /\ lock' \notin Tx /\ UNCHANGED <<phase, sends, result>>
    BY <1>2 DEF AddReturns, Remove, AddRejected, AddAccepted
  <2> QED
    BY <2>1, <1>1
<1>3. ASSUME Purge PROVE Sending'
  <2>1. lock \notin Tx /\ lock' \notin Tx /\ UNCHANGED <<phase, sends, result>>
    BY <1>3 DEF Purge
  <2> QED
    BY <2>1, <1>1
<1>4. ASSUME NEW t \in Tx, NEW ex \in SUBSET Peer, Apply(t, ex) \/ ApplyAll(t, ex)
      PROVE  Sending'
  <2>1. /\ phase[t] = "idle"
        /\ phase' = [phase EXCEPT ![t] = "picked"]
        /\ UNCHANGED <<lock, peers, sends, result>>
    BY <1>4 DEF Apply, ApplyAll, Pick
  <2>2. sends[t] = {}
    BY <2>1 DEF Sending, SendsCurrent, TypeOK
  <2> QED
    BY <2>1, <2>2 DEF Sending, SendingHoldsLock, SendsCurrent, NotAskedYet, TypeOK
<1>5. ASSUME NEW t \in Tx, ApplyStart(t) PROVE Sending'
  <2>1. /\ phase[t] = "picked" /\ lock = None /\ lock' = t
        /\ phase' = [phase EXCEPT ![t] = "sending"]
        /\ sends' = [sends EXCEPT ![t] = {<<p, peers[p]>> : p \in picked[t]}]
        /\ UNCHANGED <<peers, result>>
    BY <1>5 DEF ApplyStart
  <2>2. \A u \in Tx : sends[u] = {} /\ phase[u] # "sending"
    BY <2>1, FreeLockNoSends DEF Sending
  <2>3. SendingHoldsLock'
    BY <2>1, <2>2 DEF SendingHoldsLock, TypeOK
  <2>4. SendsCurrent'
    BY <2>1, <2>2 DEF SendsCurrent, TypeOK
  <2>5. \A p \in Peer : result[t][p] = "none"
    BY <2>1 DEF Sending, NotAskedYet
  <2>6. \A u \in Tx : u # t => sends'[u] = sends[u] /\ phase'[u] = phase[u]
    BY <2>1 DEF TypeOK
  <2>7. NotAskedYet'
    BY <2>1, <2>5, <2>6 DEF Sending, NotAskedYet
  <2> QED
    BY <2>3, <2>4, <2>7 DEF Sending
<1>6. ASSUME NEW t \in Tx, ApplyReturns(t) PROVE Sending'
  <2>1. /\ phase[t] = "sending" /\ sends[t] = {} /\ lock' = None
        /\ phase' = [phase EXCEPT ![t] = "returned"]
        /\ UNCHANGED <<peers, sends, result>>
    BY <1>6 DEF ApplyReturns
  <2>2. lock = t
    BY <2>1 DEF Sending, SendingHoldsLock
  <2>3. SendingHoldsLock'
    BY <2>1, <2>2 DEF Sending, SendingHoldsLock, TypeOK
  <2>4. SendsCurrent' /\ NotAskedYet'
    BY <2>1 DEF Sending, SendsCurrent, NotAskedYet, TypeOK
  <2> QED
    BY <2>3, <2>4 DEF Sending
<1>7. ASSUME NEW t \in Tx, Collect(t) PROVE Sending'
  <2>1. /\ phase[t] = "returned"
        /\ phase' = [phase EXCEPT ![t] = "idle"]
        /\ result' = [result EXCEPT ![t] = NoResults]
        /\ UNCHANGED <<lock, peers, sends>>
    BY <1>7 DEF Collect
  <2>2. sends[t] = {}
    BY <2>1 DEF Sending, SendsCurrent, TypeOK
  <2>3. SendingHoldsLock' /\ SendsCurrent'
    BY <2>1, <2>2 DEF Sending, SendingHoldsLock, SendsCurrent, TypeOK
  <2>4. \A p \in Peer : result'[t][p] = "none"
    BY <2>1 DEF NoResults, TypeOK
  <2>5. \A u \in Tx : u # t => result'[u] = result[u] /\ phase'[u] = phase[u]
    BY <2>1 DEF TypeOK
  <2>6. NotAskedYet'
    BY <2>1, <2>4, <2>5 DEF Sending, NotAskedYet
  <2> QED
    BY <2>3, <2>6 DEF Sending
<1>8. ASSUME NEW t \in Tx, NEW p \in Peer, NEW s \in Stream \union {None}, QueueTx(t, p, s)
      PROVE  Sending'
  <2>1. /\ <<p, s>> \in sends[t]
        /\ sends' = [sends EXCEPT ![t] = @ \ {<<p, s>>}]
        /\ UNCHANGED <<lock, peers, phase>>
    BY <1>8 DEF QueueTx
  <2>2. \E r \in {"pending", "full"} : result' = [result EXCEPT ![t][p] = r]
    BY <1>8 DEF QueueTx, Accept
  <2>3. phase[t] = "sending"
    BY <2>1 DEF Sending, SendsCurrent
  <2>4. \A u \in Tx : sends'[u] \subseteq sends[u]
    BY <2>1 DEF TypeOK
  <2>5. \A send \in sends'[t] : send[1] # p
    <3> SUFFICES ASSUME NEW send \in sends'[t], send[1] = p PROVE FALSE
      OBVIOUS
    <3>1. send \in sends[t] /\ send # <<p, s>>
      BY <2>1 DEF TypeOK
    <3>2. send = <<send[1], send[2]>>
      BY <3>1 DEF TypeOK
    <3>3. send[2] = peers[p] /\ s = peers[p]
      BY <2>1, <3>1 DEF Sending, SendsCurrent
    <3> QED
      BY <3>1, <3>2, <3>3
  <2>6. \A u \in Tx, q \in Peer : (u # t \/ q # p) => result'[u][q] = result[u][q]
    BY <2>2 DEF TypeOK
  <2>7. SendingHoldsLock' /\ SendsCurrent'
    BY <2>1, <2>4 DEF Sending, SendingHoldsLock, SendsCurrent
  <2>8. NotAskedYet'
    BY <2>1, <2>3, <2>4, <2>5, <2>6 DEF Sending, NotAskedYet
  <2> QED
    BY <2>7, <2>8 DEF Sending
<1>9. ASSUME NEW s \in Stream, NEW err \in {"ok", "error"}, FinishTx(s, err) PROVE Sending'
  <2> DEFINE t == worker[s]
             p == owner[s]
  <2>1. t \in Tx /\ p \in Peer
    BY <1>9 DEF FinishTx, FreeHandlesIdle, TypeOK
  <2>2. /\ result[t][p] = "pending"
        /\ result' = [result EXCEPT ![t][p] = err]
        /\ UNCHANGED <<lock, peers, phase, sends>>
    BY <1>9 DEF FinishTx
  <2>3. \A u \in Tx, q \in Peer : (u # t \/ q # p) => result'[u][q] = result[u][q]
    BY <2>1, <2>2 DEF TypeOK
  <2>4. NotAskedYet'
    BY <2>1, <2>2, <2>3 DEF Sending, NotAskedYet
  <2> QED
    BY <2>2, <2>4 DEF Sending, SendingHoldsLock, SendsCurrent
<1>10. ASSUME \/ \E s \in Stream : TakeTx(s) \/ WorkerExit(s)
              \/ UNCHANGED vars
       PROVE  Sending'
  <2>1. UNCHANGED <<lock, peers, phase, sends, result>>
    BY <1>10 DEF TakeTx, WorkerExit, vars
  <2> QED
    BY <2>1 DEF Sending, SendingHoldsLock, SendsCurrent, NotAskedYet
<1> QED
  BY <1>2, <1>3, <1>4, <1>5, <1>6, <1>7, <1>8, <1>9, <1>10 DEF Next

-----------------------------------------------------------------------------
(* One answer is owed for every accepted transaction *)

\* The same without tuples: the answer of p to t is at place i of context s.
At(t, p, s, i) == owner[s] = p /\ Holds(t, s, i)
Somewhere(t, p) == \E s \in Stream, i \in 0 .. TxQueueSize : At(t, p, s, i)
OnePlace(t, p) ==
  \A s1, s2 \in Stream, i1, i2 \in 0 .. TxQueueSize :
    At(t, p, s1, i1) /\ At(t, p, s2, i2) => s1 = s2 /\ i1 = i2
Owed(t, p) == ((result[t][p] = "pending") <=> Somewhere(t, p)) /\ OnePlace(t, p)

LEMMA OwedUnfolded ==
  OneAnswerOwed <=> \A t \in Tx, p \in Peer : Owed(t, p)
<1> DEFINE Pairs(t, p) == \A o1, o2 \in Owing(t, p) : o1 = o2
<1>1. ASSUME NEW t \in Tx, NEW p \in Peer
      PROVE  ((Owing(t, p) # {}) <=> Somewhere(t, p)) /\ (Pairs(t, p) <=> OnePlace(t, p))
  <2>1. \A s \in Stream, i \in 0 .. TxQueueSize : <<s, i>> \in Owing(t, p) <=> At(t, p, s, i)
    BY DEF Owing, At
  <2>2. \A o \in Owing(t, p) : /\ o = <<o[1], o[2]>>
                               /\ o[1] \in Stream /\ o[2] \in 0 .. TxQueueSize
    BY DEF Owing
  <2>3. (Owing(t, p) # {}) <=> Somewhere(t, p)
    <3>1. ASSUME NEW o \in Owing(t, p) PROVE Somewhere(t, p)
      <4>1. At(t, p, o[1], o[2])
        BY <2>1, <2>2
      <4> QED
        BY <4>1, <2>2 DEF Somewhere
    <3>2. ASSUME Somewhere(t, p) PROVE Owing(t, p) # {}
      BY <3>2, <2>1 DEF Somewhere
    <3> QED
      BY <3>1, <3>2
  <2>4. ASSUME Pairs(t, p) PROVE OnePlace(t, p)
    <3> SUFFICES ASSUME NEW s1 \in Stream, NEW s2 \in Stream,
                        NEW i1 \in 0 .. TxQueueSize, NEW i2 \in 0 .. TxQueueSize,
                        At(t, p, s1, i1), At(t, p, s2, i2)
                 PROVE  s1 = s2 /\ i1 = i2
      BY DEF OnePlace
    <3>1. <<s1, i1>> = <<s2, i2>>
      BY <2>1, <2>4
    <3> QED
      BY <3>1
  <2>5. ASSUME OnePlace(t, p) PROVE Pairs(t, p)
    <3> SUFFICES ASSUME NEW o1 \in Owing(t, p), NEW o2 \in Owing(t, p) PROVE o1 = o2
      OBVIOUS
    <3>1. At(t, p, o1[1], o1[2]) /\ At(t, p, o2[1], o2[2])
      BY <2>1, <2>2
    <3>2. o1[1] = o2[1] /\ o1[2] = o2[2]
      BY <3>1, <2>2, <2>5 DEF OnePlace
    <3> QED
      BY <3>2, <2>2
  <2> QED
    BY <2>3, <2>4, <2>5
<1> QED
  BY <1>1 DEF OneAnswerOwed, Owed

\* Owed concerns only the owners, the work and the results.
LEMMA OwedUnchanged ==
  ASSUME NEW t \in Tx, NEW p \in Peer, Owed(t, p),
         (result'[t][p] = "pending") <=> (result[t][p] = "pending"),
         \A s \in Stream, i \in 0 .. TxQueueSize : At(t, p, s, i)' <=> At(t, p, s, i)
  PROVE  Owed(t, p)'
<1>1. Somewhere(t, p)' <=> Somewhere(t, p)
  BY DEF Somewhere
<1>2. OnePlace(t, p)'
  BY DEF OnePlace, Owed
<1> QED
  BY <1>1, <1>2 DEF Owed

LEMMA OwedStep ==
  ASSUME TypeOK, TypeOK', RegisteredIffOpen, FreeHandlesIdle, Sending, [Next]_vars,
         NEW u \in Tx, NEW q \in Peer, \A t \in Tx, p \in Peer : Owed(t, p)
  PROVE  Owed(u, q)'
<1> USE Distinct DEF storeVars, workVars, txVars
<1>1. ASSUME UNCHANGED <<owner, queue, worker, result>> PROVE Owed(u, q)'
  BY <1>1, OwedUnchanged DEF At, Holds
\* A handle without work may change hands.
<1>2. ASSUME NEW s \in Stream, queue[s] = <<>>, worker[s] = None,
             \A r \in Stream : r # s => owner'[r] = owner[r],
             UNCHANGED <<queue, worker, result>>
      PROVE  Owed(u, q)'
  BY <1>2, OwedUnchanged DEF At, Holds
<1>3. ASSUME NEW p \in Peer, NEW dir \in BOOLEAN, NEW s \in Stream, AddAccepted(p, s, dir)
      PROVE  Owed(u, q)'
  <2>1. /\ queue[s] = <<>> /\ worker[s] = None
        /\ \A r \in Stream : r # s => owner'[r] = owner[r]
        /\ UNCHANGED <<queue, worker, result>>
    BY <1>3 DEF AddAccepted, FreeHandlesIdle, TypeOK
  <2> QED
    BY <2>1, <1>2
<1>4. ASSUME NEW s \in Stream, WorkerExit(s) PROVE Owed(u, q)'
  <2>1. /\ queue[s] = <<>> /\ worker[s] = None
        /\ \A r \in Stream : r # s => owner'[r] = owner[r]
        /\ UNCHANGED <<queue, worker, result>>
    BY <1>4 DEF WorkerExit, TypeOK
  <2> QED
    BY <2>1, <1>2
<1>5. ASSUME NEW t \in Tx, Collect(t) PROVE Owed(u, q)'
  <2>1. (result'[u][q] = "pending") <=> (result[u][q] = "pending")
    BY <1>5 DEF Collect, NoResults, TypeOK
  <2>2. UNCHANGED <<owner, queue, worker>>
    BY <1>5 DEF Collect
  <2> QED
    BY <2>1, <2>2, OwedUnchanged DEF At, Holds
<1>6. ASSUME NEW t \in Tx, NEW p \in Peer, NEW s \in Stream \union {None}, QueueTx(t, p, s)
      PROVE  Owed(u, q)'
  <2>1. /\ result[t][p] = "none"
        /\ s # None => owner[s] = p
    BY <1>6 DEF QueueTx, Sending, SendsCurrent, NotAskedYet, RegisteredIffOpen, TypeOK
  <2>2. CASE result' = [result EXCEPT ![t][p] = "full"] /\ UNCHANGED queue
    <3>1. (result'[u][q] = "pending") <=> (result[u][q] = "pending")
      BY <2>1, <2>2 DEF TypeOK
    <3>2. UNCHANGED <<owner, queue, worker>>
      BY <1>6, <2>2 DEF QueueTx
    <3> QED
      BY <3>1, <3>2, OwedUnchanged DEF At, Holds
  <2>3. CASE WouldAccept(s) /\ Accept(t, p, s)
    <3> DEFINE n == Len(queue[s])
    <3>1. /\ s \in Stream /\ n \in Nat /\ n < TxQueueSize
          /\ queue[s] \in Seq(Tx)
          /\ queue'[s] = Append(queue[s], t)
          /\ result' = [result EXCEPT ![t][p] = "pending"]
          /\ \A r \in Stream : r # s => queue'[r] = queue[r]
          /\ UNCHANGED <<owner, worker>>
      BY <1>6, <2>3 DEF QueueTx, WouldAccept, Accept, TypeOK
    <3>2. \A r \in Stream, i \in 0 .. TxQueueSize : r # s => (At(u, q, r, i)' <=> At(u, q, r, i))
      BY <3>1 DEF At, Holds
    <3>3. \A i \in 1 .. TxQueueSize :
            (i <= Len(queue'[s]) /\ queue'[s][i] = u)
              <=> ((i <= n /\ queue[s][i] = u) \/ (i = n + 1 /\ t = u))
      BY <3>1
    <3>4. \A i \in 0 .. TxQueueSize :
            Holds(u, s, i)' <=> (Holds(u, s, i) \/ (i = n + 1 /\ t = u))
      BY <3>1, <3>3 DEF Holds
    <3>5. CASE u = t /\ q = p
      <4>1. \A r \in Stream, i \in 0 .. TxQueueSize : ~At(u, q, r, i)
        BY <2>1, <3>5 DEF Owed, Somewhere
      <4>2. \A r \in Stream, i \in 0 .. TxQueueSize :
              At(u, q, r, i)' <=> r = s /\ i = n + 1
        BY <2>1, <3>1, <3>2, <3>4, <3>5, <4>1 DEF At
      <4>3. n + 1 \in 0 .. TxQueueSize
        BY <3>1
      <4>4. Somewhere(u, q)' /\ OnePlace(u, q)'
        BY <3>1, <4>2, <4>3 DEF Somewhere, OnePlace
      <4>5. result'[u][q] = "pending"
        BY <3>1, <3>5 DEF TypeOK
      <4> QED
        BY <4>4, <4>5 DEF Owed
    <3>6. CASE u # t \/ q # p
      <4>1. result'[u][q] = result[u][q]
        BY <3>1, <3>6 DEF TypeOK
      <4>2. \A i \in 0 .. TxQueueSize : At(u, q, s, i)' <=> At(u, q, s, i)
        BY <2>1, <3>1, <3>4, <3>6 DEF At
      <4> QED
        BY <3>2, <4>1, <4>2, OwedUnchanged
    <3> QED
      BY <3>5, <3>6
  <2> QED
    BY <1>6, <2>2, <2>3 DEF QueueTx
<1>7. ASSUME NEW s \in Stream, NEW err \in {"ok", "error"}, FinishTx(s, err) PROVE Owed(u, q)'
  <2> DEFINE t == worker[s]
             p == owner[s]
  <2>1. /\ t \in Tx /\ p \in Peer
        /\ result[t][p] = "pending"
        /\ result' = [result EXCEPT ![t][p] = err]
        /\ worker'[s] = None
        /\ \A r \in Stream : r # s => worker'[r] = worker[r]
        /\ UNCHANGED <<owner, queue>>
    BY <1>7 DEF FinishTx, FreeHandlesIdle, TypeOK
  <2>2. \A r \in Stream, i \in 0 .. TxQueueSize :
          At(u, q, r, i)' <=> (At(u, q, r, i) /\ ~(r = s /\ i = 0))
    BY <2>1 DEF At, Holds
  <2>3. At(t, p, s, 0)
    BY DEF At, Holds
  <2>4. CASE u = t /\ q = p
    <3>1. \A r \in Stream, i \in 0 .. TxQueueSize : At(u, q, r, i) => r = s /\ i = 0
      BY <2>3, <2>4 DEF Owed, OnePlace
    <3>2. ~Somewhere(u, q)' /\ OnePlace(u, q)'
      BY <2>2, <3>1 DEF Somewhere, OnePlace
    <3>3. result'[u][q] # "pending"
      BY <2>1, <2>4 DEF TypeOK
    <3> QED
      BY <3>2, <3>3 DEF Owed
  <2>5. CASE u # t \/ q # p
    <3>1. ~At(u, q, s, 0)
      BY <2>5 DEF At, Holds
    <3>2. result'[u][q] = result[u][q]
      BY <2>1, <2>5 DEF TypeOK
    <3> QED
      BY <2>2, <3>1, <3>2, OwedUnchanged
  <2> QED
    BY <2>4, <2>5
<1>8. ASSUME NEW s \in Stream, TakeTx(s) PROVE Owed(u, q)'
  <2> DEFINE n == Len(queue[s])
  <2>1. /\ queue[s] \in Seq(Tx) /\ n \in Nat /\ n > 0 /\ n <= TxQueueSize
        /\ worker[s] = None
        /\ worker'[s] = queue[s][1]
        /\ queue'[s] = Tail(queue[s])
        /\ \A r \in Stream : r # s => worker'[r] = worker[r] /\ queue'[r] = queue[r]
        /\ UNCHANGED <<owner, result>>
    BY <1>8 DEF TakeTx, TypeOK
  <2>2. \A r \in Stream, i \in 0 .. TxQueueSize : r # s => (At(u, q, r, i)' <=> At(u, q, r, i))
    BY <2>1 DEF At, Holds
  <2>3. ~At(u, q, s, 0)
    BY <2>1 DEF At, Holds
  <2>4. /\ Len(queue'[s]) = n - 1
        /\ \A i \in 1 .. n - 1 : queue'[s][i] = queue[s][i + 1]
    BY <2>1
  <2>5. \A i \in 0 .. TxQueueSize :
          At(u, q, s, i)' <=> (i + 1 \in 0 .. TxQueueSize /\ At(u, q, s, i + 1))
    BY <2>1, <2>4 DEF At, Holds
  <2>6. \A i \in 1 .. TxQueueSize :
          /\ At(u, q, s, i) => At(u, q, s, i - 1)'
          /\ i - 1 \in 0 .. TxQueueSize
    BY <2>5
  <2>7. Somewhere(u, q)' <=> Somewhere(u, q)
    <3>1. ASSUME Somewhere(u, q)' PROVE Somewhere(u, q)
      BY <3>1, <2>2, <2>5 DEF Somewhere
    <3>2. ASSUME NEW r \in Stream, NEW i \in 0 .. TxQueueSize, At(u, q, r, i)
          PROVE  Somewhere(u, q)'
      <4>1. CASE r # s
        BY <3>2, <4>1, <2>2 DEF Somewhere
      <4>2. CASE r = s
        <5>1. i \in 1 .. TxQueueSize
          BY <3>2, <4>2, <2>3
        <5> QED
          BY <3>2, <4>2, <5>1, <2>6 DEF Somewhere
      <4> QED
        BY <4>1, <4>2
    <3> QED
      BY <3>1, <3>2 DEF Somewhere
  <2>8. OnePlace(u, q)'
    <3> SUFFICES ASSUME NEW s1 \in Stream, NEW s2 \in Stream,
                        NEW i1 \in 0 .. TxQueueSize, NEW i2 \in 0 .. TxQueueSize,
                        At(u, q, s1, i1)', At(u, q, s2, i2)'
                 PROVE  s1 = s2 /\ i1 = i2
      BY DEF OnePlace
    <3> DEFINE j1 == IF s1 = s THEN i1 + 1 ELSE i1
               j2 == IF s2 = s THEN i2 + 1 ELSE i2
    <3>1. /\ j1 \in 0 .. TxQueueSize /\ At(u, q, s1, j1)
          /\ j2 \in 0 .. TxQueueSize /\ At(u, q, s2, j2)
      BY <2>2, <2>5
    <3>2. s1 = s2 /\ j1 = j2
      BY <3>1 DEF Owed, OnePlace
    <3> QED
      BY <3>2
  <2> QED
    BY <2>1, <2>7, <2>8 DEF Owed
<1>9. ASSUME \/ \E p \in Peer : \/ AddReturns(p) \/ Remove(p)
                                \/ \E dir \in BOOLEAN : AddRejected(p, dir)
             \/ Purge
             \/ \E t \in Tx, ex \in SUBSET Peer : Apply(t, ex) \/ ApplyAll(t, ex)
             \/ \E t \in Tx : ApplyStart(t) \/ ApplyReturns(t)
             \/ UNCHANGED vars
      PROVE  UNCHANGED <<owner, queue, worker, result>>
  BY <1>9 DEF AddReturns, Remove, AddRejected, Purge, Apply, ApplyAll, Pick, ApplyStart,
              ApplyReturns, vars
<1> QED
  BY <1>1, <1>3, <1>4, <1>5, <1>6, <1>7, <1>8, <1>9 DEF Next

-----------------------------------------------------------------------------
(* The theorems *)

\* The strengthened invariant is preserved by every step of the store.
LEMMA InvStep == IInv /\ [Next]_vars => IInv'
<1> SUFFICES ASSUME IInv, [Next]_vars PROVE IInv'
  OBVIOUS
<1>1. /\ TypeOK /\ RegisteredIffOpen /\ FreeHandlesIdle /\ Capacity
      /\ Sending /\ SendsCurrent /\ OneAnswerOwed
  BY DEF IInv, Sending
<1>2. TypeOK'
  BY <1>1, TypeStep
<1>3. RegisteredIffOpen' /\ FreeHandlesIdle'
  BY <1>1, BooksStep
<1>4. Capacity'
  BY <1>1, CapacityStep
<1>5. Sending'
  BY <1>1, SendingStep
<1>6. OneAnswerOwed'
  <2>1. \A t \in Tx, p \in Peer : Owed(t, p)
    BY <1>1, OwedUnfolded
  <2>2. (\A t \in Tx, p \in Peer : Owed(t, p))'
    BY <1>1, <1>2, <2>1, OwedStep
  <2> QED
    BY <2>2, OwedUnfolded, PTL
<1> QED
  BY <1>2, <1>3, <1>4, <1>5, <1>6 DEF IInv, Sending

\* In every reachable state the lock, the map, the handles, the goroutines of
\* apply and the answers they owe agree.
THEOREM Invariance == SafeSpec => []IInv
BY InitInv, InvStep, PTL DEF SafeSpec

\* The variables keep their types; in particular no queue outgrows its buffer.
THEOREM TypeCorrect == SafeSpec => []TypeOK
<1>1. IInv => TypeOK
  BY DEF IInv
<1> QED
  BY <1>1, Invariance, PTL

\* Add never lets a direction exceed its capacity, for any number of peers.
THEOREM CapacityKept == SafeSpec => []Capacity
<1>1. IInv => Capacity
  BY DEF IInv
<1> QED
  BY <1>1, Invariance, PTL

\* No registered context is closed, and no context is forgotten open.
THEOREM ContextsKept == SafeSpec => []RegisteredIffOpen
<1>1. IInv => RegisteredIffOpen
  BY DEF IInv
<1> QED
  BY <1>1, Invariance, PTL

\* No goroutine of apply sends on a closed queue.
THEOREM NoSendPanics == SafeSpec => []NoSendOnClosed
<1>1. IInv => NoSendOnClosed
  BY Distinct DEF IInv, SendsCurrent, RegisteredIffOpen, NoSendOnClosed, TypeOK
<1> QED
  BY <1>1, Invariance, PTL

\* Exactly one answer is on its way to every result channel that is empty.
THEOREM AnswersOwed == SafeSpec => []OneAnswerOwed
<1>1. IInv => OneAnswerOwed
  BY DEF IInv
<1> QED
  BY <1>1, Invariance, PTL

-----------------------------------------------------------------------------
(* The store implements its contract *)

Held == [p \in Peer |-> Direction(p)]

\* What the contract sees of the map changes only with the map.
LEMMA HeldUnchanged == UNCHANGED <<peers, outbound>> => Held' = Held
BY DEF Held, Direction

\* Forgetting the contexts of some peers is losing their streams.
LEMMA LoseStep ==
  ASSUME TypeOK, NEW P \in SUBSET Peer,
         peers' = [p \in Peer |-> IF p \in P THEN None ELSE peers[p]],
         UNCHANGED <<outbound, result>>
  PROVE  Contract!Next
<1>1. Held' = [p \in Peer |-> IF p \in P THEN "none" ELSE Held[p]]
  BY DEF Held, Direction, TypeOK
<1>2. Contract!Lose(P)
  BY <1>1 DEF Contract!Lose, Held
<1> QED
  BY <1>2 DEF Contract!Next

\* Registering a context is accepting a stream, within the capacity.
LEMMA AcceptStep ==
  ASSUME TypeOK, RegisteredIffOpen, FreeHandlesIdle, Capacity',
         NEW p \in Peer, NEW dir \in BOOLEAN, NEW s \in Stream, AddAccepted(p, s, dir)
  PROVE  Contract!Next
<1> USE Distinct DEF storeVars, workVars, txVars
<1> DEFINE d == IF dir THEN "out" ELSE "in"
<1>1. \A q \in Peer : peers[q] # s
  BY DEF AddAccepted, RegisteredIffOpen, FreeHandlesIdle, TypeOK
<1>2. /\ peers' = [peers EXCEPT ![p] = s]
      /\ outbound' = [outbound EXCEPT ![s] = dir]
      /\ UNCHANGED result
  BY DEF AddAccepted
<1>3. ASSUME NEW q \in Peer PROVE Held'[q] = IF q = p THEN d ELSE Held[q]
  BY <1>1, <1>2 DEF Held, Direction, TypeOK
<1>4. Held' = [Held EXCEPT ![p] = d]
  BY <1>3 DEF Held
<1>5. /\ {q \in Peer : Held'[q] = "in"} = Having(peers, FALSE)'
      /\ {q \in Peer : Held'[q] = "out"} = Having(peers, TRUE)'
  <2>1. \A q \in Peer : outbound'[peers'[q]] \in BOOLEAN \/ peers'[q] = None
    BY <1>2 DEF TypeOK
  <2> QED
    BY <2>1 DEF Held, Direction, Having
<1>6. Contract!WithinCapacity(Held')
  <2>1. /\ Cardinality({q \in Peer : Held'[q] = "in"}) <= InboundCapacity
        /\ Cardinality({q \in Peer : Held'[q] = "out"}) <= OutboundCapacity
    BY <1>5, Zenon DEF Capacity, inboundSize, outboundSize
  <2> QED
    BY <2>1, Zenon DEF Contract!WithinCapacity, Cardinality, Contract!Cardinality
<1>7. d \in {"in", "out"} /\ Contract!Accept(p, d)
  BY <1>2, <1>4, <1>6 DEF Contract!Accept, Held
<1> QED
  BY <1>7 DEF Contract!Next

LEMMA ContractStep ==
  ASSUME IInv, Capacity', [Next]_vars
  PROVE  [Contract!Next]_(Contract!vars)
<1> USE Distinct DEF storeVars, workVars, txVars
<1>1. /\ TypeOK /\ RegisteredIffOpen /\ FreeHandlesIdle
      /\ SendsCurrent /\ NotAskedYet
  BY DEF IInv
<1>2. ASSUME NEW p \in Peer, Remove(p) \/ \E dir \in BOOLEAN : AddRejected(p, dir)
      PROVE  Contract!Next
  <2>1. /\ peers' = [q \in Peer |-> IF q \in {p} THEN None ELSE peers[q]]
        /\ UNCHANGED <<outbound, result>>
    BY <1>1, <1>2 DEF Remove, AddRejected, Without, TypeOK
  <2> QED
    BY <1>1, <2>1, LoseStep
<1>3. ASSUME Purge PROVE Contract!Next
  <2>1. /\ peers' = [q \in Peer |-> IF q \in Peer THEN None ELSE peers[q]]
        /\ UNCHANGED <<outbound, result>>
    BY <1>3 DEF Purge
  <2> QED
    BY <1>1, <2>1, LoseStep
<1>4. ASSUME NEW p \in Peer, NEW dir \in BOOLEAN, NEW s \in Stream, AddAccepted(p, s, dir)
      PROVE  Contract!Next
  BY <1>1, <1>4, AcceptStep
<1>5. ASSUME NEW t \in Tx, Collect(t) PROVE Contract!Next
  <2>1. Held' = Held
    BY <1>5, HeldUnchanged DEF Collect
  <2>2. Contract!Forget(t)
    BY <1>5, <2>1 DEF Collect, NoResults, Contract!Forget, Held
  <2> QED
    BY <2>2 DEF Contract!Next
<1>6. ASSUME NEW t \in Tx, NEW p \in Peer, NEW s \in Stream \union {None}, QueueTx(t, p, s)
      PROVE  Contract!Next
  <2>1. Held' = Held
    BY <1>6, HeldUnchanged DEF QueueTx
  <2>2. result[t][p] = "none" /\ s = peers[p]
    BY <1>1, <1>6 DEF QueueTx, SendsCurrent, NotAskedYet
  <2>3. \E a \in {"pending", "full"} :
          /\ a = "pending" => Held[p] # "none"
          /\ result' = [result EXCEPT ![t][p] = a]
    BY <1>6, <2>2 DEF QueueTx, WouldAccept, Accept, Held, Direction
  <2>4. Contract!Ask(t, p)
    BY <2>1, <2>2, <2>3 DEF Contract!Ask, Held
  <2> QED
    BY <2>4 DEF Contract!Next
<1>7. ASSUME NEW s \in Stream, NEW err \in {"ok", "error"}, FinishTx(s, err)
      PROVE  Contract!Next
  <2>1. Held' = Held
    BY <1>7, HeldUnchanged DEF FinishTx
  <2>2. worker[s] \in Tx /\ owner[s] \in Peer
    BY <1>1, <1>7 DEF FinishTx, FreeHandlesIdle, TypeOK
  <2>3. Contract!Answer(worker[s], owner[s])
    BY <1>7, <2>1 DEF FinishTx, Contract!Answer, Held
  <2> QED
    BY <2>2, <2>3 DEF Contract!Next
<1>8. ASSUME \/ \E p \in Peer : AddReturns(p)
             \/ \E t \in Tx, ex \in SUBSET Peer : Apply(t, ex) \/ ApplyAll(t, ex)
             \/ \E t \in Tx : ApplyStart(t) \/ ApplyReturns(t)
             \/ \E s \in Stream : TakeTx(s) \/ WorkerExit(s)
             \/ UNCHANGED vars
      PROVE  UNCHANGED Contract!vars
  <2>1. UNCHANGED <<peers, outbound, result>>
    BY <1>8 DEF AddReturns, Apply, ApplyAll, Pick, ApplyStart, ApplyReturns, TakeTx,
                WorkerExit, vars
  <2> QED
    BY <2>1, HeldUnchanged DEF Contract!vars, Held
<1> QED
  BY <1>2, <1>3, <1>4, <1>5, <1>6, <1>7, <1>8 DEF Next

\* Every behaviour of the store is one its interface promises: capacities hold,
\* an answer comes only to who was asked, and it never changes afterwards.
THEOREM ImplementsContract == SafeSpec => ContractSafe
<1>1. Init => Contract!Init
  BY DEF Init, Contract!Init, Direction, NoResults
<1>2. IInv => Capacity
  BY DEF IInv
<1> QED
  BY <1>1, <1>2, Invariance, ContractStep, PTL DEF SafeSpec, ContractSafe, Contract!SafeSpec

-----------------------------------------------------------------------------
(* Broadcast uses the store as anybody may *)

LEMMA Transactions ==
  /\ Last \in Nat /\ Artifacts \in Nat
  /\ \A t \in Tx : t = <<t[1], t[2]>> /\ t[1] \in 1 .. Artifacts /\ t[2] \in 0 .. Last
  /\ \A a \in 1 .. Artifacts, i \in 0 .. Last : <<a, i>> \in Tx
  /\ \A w \in Witnesses : w \in SUBSET Peer
BY BroadcastAssumption DEF BroadcastAssumption, Last

\* What broadcast is at, while it is sending.
Begun == sender = "sending" => art >= 1

LEMMA InitBroadcastType == BroadcastInit => BroadcastTypeOK /\ Begun
BY Transactions DEF BroadcastInit, BroadcastTypeOK, Begun

LEMMA SenderStep ==
  ASSUME TypeOK, BroadcastTypeOK, Begun, BroadcastNext \/ UNCHANGED allVars
  PROVE  BroadcastTypeOK' /\ Begun'
<1> USE Transactions DEF senderVars, wireVars, broadcastVars, Begun
<1>1. ASSUME UNCHANGED broadcastVars PROVE BroadcastTypeOK' /\ Begun'
  BY <1>1 DEF BroadcastTypeOK
<1>2. CASE TakeArtifact
  BY <1>2 DEF TakeArtifact, BroadcastTypeOK
<1>3. CASE StopSender \/ NextChunk \/ ReadFails
  BY <1>3 DEF StopSender, NextChunk, ReadFails, BroadcastTypeOK
<1>4. CASE FinishArtifact
  <2>1. art \in 1 .. Artifacts
    BY <1>4 DEF FinishArtifact, ChunkApplied, BroadcastTypeOK
  <2> QED
    BY <1>4, <2>1 DEF FinishArtifact, BroadcastTypeOK
<1>5. ASSUME NEW a \in 1 .. Artifacts, NEW p \in Peer, CollectLast(a, p)
      PROVE  BroadcastTypeOK' /\ Begun'
  BY <1>5 DEF CollectLast, BroadcastTypeOK
<1>6. ASSUME NEW s \in Stream, Query(s) PROVE BroadcastTypeOK' /\ Begun'
  <2>1. CASE QueryFails(s) \/ QuerySkips(s)
    BY <1>1, <2>1 DEF QueryFails, QuerySkips
  <2>2. CASE QueryWrites(s) \/ QueryTimesOut(s)
    <3>1. worker[s] \in Tx
      BY <2>2 DEF QueryWrites, QueryTimesOut, TypeOK
    <3>2. /\ last' = [last EXCEPT ![s] = worker[s]]
          /\ received' = [received EXCEPT ![owner[s]] = @ \union {worker[s]}]
          /\ UNCHANGED <<senderVars, collecting>>
      BY <2>2 DEF QueryWrites, QueryTimesOut
    <3>3. last' \in [Stream -> Tx \union {None}]
      BY <3>1, <3>2 DEF BroadcastTypeOK
    <3>4. received' \in [Peer -> SUBSET Tx]
      BY <3>1, <3>2 DEF BroadcastTypeOK
    <3> QED
      BY <3>2, <3>3, <3>4 DEF BroadcastTypeOK
  <2> QED
    BY <1>6, <2>1, <2>2 DEF Query
<1>7. CASE AddStream
  BY <1>1, <1>7 DEF AddStream, BroadcastTypeOK
<1>8. CASE ApplyChunk \/ StoreStep \/ UNCHANGED allVars
  BY <1>1, <1>8 DEF ApplyChunk, StoreStep, allVars
<1> QED
  BY <1>2, <1>3, <1>4, <1>5, <1>6, <1>7, <1>8 DEF BroadcastNext

\* Every step of broadcast is one of the store, or does not touch the store.
LEMMA StepOfStore ==
  ASSUME BroadcastTypeOK, Begun, BroadcastNext \/ UNCHANGED allVars
  PROVE  [Next]_vars
<1>1. CASE TakeArtifact \/ StopSender \/ NextChunk \/ ReadFails \/ FinishArtifact \/ UNCHANGED allVars
  BY <1>1 DEF TakeArtifact, StopSender, NextChunk, ReadFails, FinishArtifact, allVars
<1>2. CASE ApplyChunk
  <2>1. <<art, chunk>> \in Tx /\ exclude[art] \in SUBSET Peer
    BY <1>2, Transactions DEF ApplyChunk, BroadcastTypeOK, Begun
  <2>2. Apply(<<art, chunk>>, exclude[art])
    BY <1>2 DEF ApplyChunk
  <2> QED
    BY <2>1, <2>2, Zenon DEF Next
<1>3. ASSUME NEW a \in 1 .. Artifacts, NEW p \in Peer, CollectLast(a, p) PROVE [Next]_vars
  <2>1. Remove(p) \/ UNCHANGED vars
    BY <1>3 DEF CollectLast
  <2> QED
    BY <2>1, Zenon DEF Next
<1>4. ASSUME NEW s \in Stream, Query(s) PROVE [Next]_vars
  <2>1. FinishTx(s, "ok") \/ FinishTx(s, "error")
    BY <1>4 DEF Query, QueryWrites, QueryTimesOut, QueryFails, QuerySkips
  <2>2. \E err \in {"ok", "error"} : FinishTx(s, err)
    BY <2>1, Zenon
  <2> QED
    BY <2>2, Zenon DEF Next
<1>5. CASE AddStream
  BY <1>5, Zenon DEF AddStream, Next
<1>6. CASE StoreStep
  BY <1>6, Zenon DEF StoreStep, Next
<1> QED
  BY <1>1, <1>2, <1>3, <1>4, <1>5, <1>6 DEF BroadcastNext

LEMMA BroadcastUsesStore == BroadcastSafeSpec => SafeSpec /\ [](IInv /\ BroadcastTypeOK /\ Begun)
<1>1. BroadcastInit => Init /\ IInv /\ BroadcastTypeOK /\ Begun
  BY InitInv, InitBroadcastType DEF BroadcastInit
<1>2. IInv /\ BroadcastTypeOK /\ Begun /\ [BroadcastNext]_allVars
        => [Next]_vars /\ (IInv /\ BroadcastTypeOK /\ Begun)'
  <2> SUFFICES ASSUME IInv, BroadcastTypeOK, Begun, [BroadcastNext]_allVars
               PROVE  [Next]_vars /\ (IInv /\ BroadcastTypeOK /\ Begun)'
    OBVIOUS
  <2>1. [Next]_vars
    BY StepOfStore
  <2>2. IInv'
    BY <2>1, InvStep
  <2>3. TypeOK
    BY DEF IInv
  <2> QED
    BY <2>1, <2>2, <2>3, SenderStep
<1> QED
  BY <1>1, <1>2, PTL DEF BroadcastSafeSpec, SafeSpec

\* A behaviour of broadcast is one of the store, so that everything proved of
\* the store holds while artifacts are broadcast.
THEOREM BroadcastIsOfStore == BroadcastSafeSpec => SafeSpec
BY BroadcastUsesStore, PTL

\* Among it that the store keeps its contract.
THEOREM BroadcastKeepsContract == BroadcastSafeSpec => ContractSafe
BY BroadcastIsOfStore, ImplementsContract, PTL

\* Types.
THEOREM BroadcastTypeCorrect == BroadcastSafeSpec => []BroadcastTypeOK
BY BroadcastUsesStore, PTL

-----------------------------------------------------------------------------
(* Who is asked, and what has been written *)

\* A transaction that was begun belongs to an artifact taken from the queue, and
\* every earlier one of that artifact has returned.
Sequential ==
  /\ \A t \in Tx : phase[t] # "idle" =>
       /\ t[1] <= art
       /\ \A i \in 0 .. t[2] - 1 : phase[<<t[1], i>>] = "returned"
  /\ art >= 1 => \A i \in 0 .. chunk - 1 : phase[<<art, i>>] = "returned"

\* A peer chosen for a transaction of an artifact is no witness of it.
Chosen(t, p) == \/ p \in picked[t]
                \/ \E send \in sends[t] : send[1] = p
                \/ result[t][p] # "none"
Spared ==
  /\ \A t \in Tx : phase[t] = "idle" => picked[t] = {}
  /\ \A t \in Tx, p \in Peer : Chosen(t, p) => p \notin exclude[t[1]]

\* What was received was asked for; an asked peer answers that it has received
\* a transaction, or it was not asked for the one before.
Skipped(t, p) == t[2] > 0 /\ result[<<t[1], t[2] - 1>>][p] = "none"
Delivered ==
  /\ \A p \in Peer : \A t \in received[p] : result[t][p] # "none"
  /\ \A t \in Tx, p \in Peer : result[t][p] = "ok" => t \in received[p] \/ Skipped(t, p)

BInv == Sequential /\ Spared /\ Delivered /\ NoGapIfAsked

LEMMA InitBInv == BroadcastInit => BInv
<1> SUFFICES ASSUME BroadcastInit PROVE BInv
  OBVIOUS
<1>1. /\ \A t \in Tx : phase[t] = "idle" /\ picked[t] = {} /\ sends[t] = {}
      /\ \A t \in Tx, p \in Peer : result[t][p] = "none"
      /\ \A p \in Peer : received[p] = {}
      /\ art = 0
  BY DEF BroadcastInit, Init, NoResults
<1> QED
  BY <1>1 DEF BInv, Sequential, Spared, Chosen, Delivered, NoGapIfAsked

\* Before a transaction begins nobody is chosen for it.
LEMMA NobodyYet ==
  ASSUME IInv, Spared, NEW t \in Tx, phase[t] = "idle", NEW p \in Peer
  PROVE  ~Chosen(t, p)
BY DEF IInv, SendsCurrent, NotAskedYet, Spared, Chosen

\* Steps that neither ask nor answer.
LEMMA QuietStep ==
  ASSUME BInv, UNCHANGED <<phase, picked, sends, result, art, chunk, exclude, received>>
  PROVE  BInv'
BY DEF BInv, Sequential, Spared, Chosen, Delivered, Skipped, NoGapIfAsked

LEMMA TakeArtifactStep ==
  ASSUME IInv, BroadcastTypeOK, BInv, TakeArtifact
  PROVE  BInv'
<1>1. /\ art' = art + 1 /\ chunk' = 0 /\ art \in Nat
      /\ UNCHANGED <<phase, picked, sends, result, received>>
      /\ \A a \in 1 .. Artifacts : a # art' => exclude'[a] = exclude[a]
  BY Transactions DEF TakeArtifact, BroadcastTypeOK, vars, txVars, wireVars
<1>2. Sequential'
  <2>1. \A t \in Tx : t[1] <= art => t[1] <= art'
    BY <1>1, Transactions
  <2> QED
    BY <1>1, <2>1 DEF BInv, Sequential
<1>3. ASSUME NEW t \in Tx, NEW p \in Peer, Chosen(t, p) PROVE p \notin exclude'[t[1]]
  <2>1. phase[t] # "idle"
    BY <1>3, NobodyYet DEF BInv
  <2>2. t[1] <= art
    BY <2>1 DEF BInv, Sequential
  <2>3. t[1] \in 1 .. Artifacts /\ t[1] # art'
    BY <1>1, <2>2, Transactions
  <2> QED
    BY <1>1, <1>3, <2>3 DEF BInv, Spared
<1>4. Spared'
  BY <1>1, <1>3 DEF BInv, Spared, Chosen
<1>5. Delivered' /\ NoGapIfAsked'
  BY <1>1 DEF BInv, Delivered, Skipped, NoGapIfAsked
<1> QED
  BY <1>2, <1>4, <1>5 DEF BInv

LEMMA NextChunkStep ==
  ASSUME BroadcastTypeOK, BInv, NextChunk
  PROVE  BInv'
<1>1. /\ phase[<<art, chunk>>] = "returned" /\ chunk' = chunk + 1 /\ chunk \in Nat
      /\ UNCHANGED <<phase, picked, sends, result, art, exclude, received>>
  BY Transactions DEF NextChunk, ChunkApplied, BroadcastTypeOK, vars, txVars, wireVars
<1>2. \A i \in 0 .. chunk' - 1 : i = chunk \/ i \in 0 .. chunk - 1
  BY <1>1
<1>3. Sequential'
  BY <1>1, <1>2 DEF BInv, Sequential
<1> QED
  BY <1>1, <1>3 DEF BInv, Spared, Chosen, Delivered, Skipped, NoGapIfAsked

LEMMA ApplyChunkStep ==
  ASSUME IInv, BroadcastTypeOK, Begun, BInv, ApplyChunk
  PROVE  BInv'
<1> DEFINE u == <<art, chunk>>
<1>1. PICK sel \in SUBSET (table \ exclude[art]) : Pick(u, sel)
  BY DEF ApplyChunk, Apply
<1>2. /\ u \in Tx /\ u[1] = art /\ u[2] = chunk /\ art >= 1 /\ phase[u] = "idle"
      /\ phase' = [phase EXCEPT ![u] = "picked"]
      /\ picked' = [picked EXCEPT ![u] = sel]
      /\ UNCHANGED <<sends, result, art, chunk, exclude, received>>
  BY <1>1, Transactions DEF Pick, ApplyChunk, BroadcastTypeOK, Begun, broadcastVars, senderVars, wireVars
<1>3. phase \in [Tx -> Phases] /\ picked \in [Tx -> SUBSET Peer]
  BY DEF IInv, TypeOK
<1> HIDE DEF u
<1>4. Sequential'
  <2>1. \A t : phase[t] = "returned" => phase'[t] = "returned"
    BY <1>2, <1>3
  <2>2. \A t \in Tx : phase'[t] # "idle" => t = u \/ phase[t] # "idle"
    BY <1>2, <1>3
  <2>3. art \in Nat
    BY Transactions DEF BroadcastTypeOK
  <2> QED
    BY <1>2, <2>1, <2>2, <2>3 DEF BInv, Sequential
<1>5. Spared'
  BY <1>2, <1>3 DEF BInv, Spared, Chosen
<1>6. Delivered' /\ NoGapIfAsked'
  BY <1>2 DEF BInv, Delivered, Skipped, NoGapIfAsked
<1> QED
  BY <1>4, <1>5, <1>6 DEF BInv

LEMMA ApplyStartStep ==
  ASSUME IInv, BInv, NEW u \in Tx, ApplyStart(u), UNCHANGED broadcastVars
  PROVE  BInv'
<1>1. /\ phase[u] = "picked" /\ phase' = [phase EXCEPT ![u] = "sending"]
      /\ picked' = [picked EXCEPT ![u] = {}]
      /\ sends' = [sends EXCEPT ![u] = {<<p, peers[p]>> : p \in picked[u]}]
      /\ UNCHANGED <<result, art, chunk, exclude, received>>
  BY DEF ApplyStart, broadcastVars, senderVars, wireVars
<1>2. phase \in [Tx -> Phases] /\ picked \in [Tx -> SUBSET Peer] /\ sends \in [Tx -> SUBSET (Peer \X (Stream \union {None}))]
  BY DEF IInv, TypeOK
<1>3. Sequential'
  <2>1. \A t : phase[t] = "returned" => phase'[t] = "returned"
    BY <1>1, <1>2
  <2>2. \A t \in Tx : phase'[t] # "idle" => phase[t] # "idle"
    BY <1>1, <1>2
  <2> QED
    BY <1>1, <2>1, <2>2 DEF BInv, Sequential
<1>4. \A t \in Tx, p \in Peer : Chosen(t, p)' => Chosen(t, p)
  BY <1>1, <1>2 DEF Chosen
<1>5. Spared'
  BY <1>1, <1>2, <1>4 DEF BInv, Spared
<1>6. Delivered' /\ NoGapIfAsked'
  BY <1>1 DEF BInv, Delivered, Skipped, NoGapIfAsked
<1> QED
  BY <1>3, <1>5, <1>6 DEF BInv

LEMMA ApplyReturnsStep ==
  ASSUME IInv, BInv, NEW u \in Tx, ApplyReturns(u), UNCHANGED broadcastVars
  PROVE  BInv'
<1>1. /\ phase[u] = "sending" /\ phase' = [phase EXCEPT ![u] = "returned"]
      /\ UNCHANGED <<picked, sends, result, art, chunk, exclude, received>>
  BY DEF ApplyReturns, broadcastVars, senderVars, wireVars
<1>2. phase \in [Tx -> Phases]
  BY DEF IInv, TypeOK
<1>3. Sequential'
  <2>1. \A t : phase[t] = "returned" => phase'[t] = "returned"
    BY <1>1, <1>2
  <2>2. \A t \in Tx : phase'[t] # "idle" => phase[t] # "idle"
    BY <1>1, <1>2
  <2> QED
    BY <1>1, <2>1, <2>2 DEF BInv, Sequential
<1>4. Spared'
  BY <1>1, <1>2 DEF BInv, Spared, Chosen
<1>5. Delivered' /\ NoGapIfAsked'
  BY <1>1 DEF BInv, Delivered, Skipped, NoGapIfAsked
<1> QED
  BY <1>3, <1>4, <1>5 DEF BInv

\* A goroutine of apply asks a peer chosen before, for the latest transaction.
LEMMA QueueTxStep ==
  ASSUME IInv, BroadcastTypeOK, BInv, NEW u \in Tx, NEW q \in Peer, NEW s \in Stream \union {None},
         QueueTx(u, q, s), UNCHANGED broadcastVars
  PROVE  BInv'
<1>1. /\ <<q, s>> \in sends[u] /\ sends' = [sends EXCEPT ![u] = @ \ {<<q, s>>}]
      /\ UNCHANGED <<phase, picked, art, chunk, exclude, received>>
      /\ \E r \in {"pending", "full"} : result' = [result EXCEPT ![u][q] = r]
  BY DEF QueueTx, Accept, broadcastVars, senderVars, wireVars
<1>2. /\ result \in [Tx -> [Peer -> Results]]
      /\ sends \in [Tx -> SUBSET (Peer \X (Stream \union {None}))]
  BY DEF IInv, TypeOK
<1>3. phase[u] = "sending" /\ result[u][q] = "none"
  BY <1>1 DEF IInv, SendsCurrent, NotAskedYet
<1>4. /\ \A t \in Tx, p \in Peer : ~(t = u /\ p = q) => result'[t][p] = result[t][p]
      /\ result'[u][q] \in {"pending", "full"}
  BY <1>1, <1>2
<1>5. Sequential'
  BY <1>1 DEF BInv, Sequential
<1>6. \A t \in Tx, p \in Peer : Chosen(t, p)' => Chosen(t, p)
  <2>1. Chosen(u, q) /\ \A t \in Tx : sends'[t] \subseteq sends[t]
    BY <1>1, <1>2 DEF Chosen
  <2> QED
    BY <1>1, <1>4, <2>1 DEF Chosen
<1>7. Spared'
  BY <1>1, <1>6 DEF BInv, Spared
\* What was received is later than u, or for another peer.
<1>8. ASSUME NEW p \in Peer, NEW t \in received[p], NEW i \in 0 .. t[2]
      PROVE  <<t[1], i>> \in Tx /\ result'[<<t[1], i>>][p] = result[<<t[1], i>>][p]
  <2>1. t \in Tx /\ result[t][p] # "none"
    BY DEF BroadcastTypeOK, BInv, Delivered
  <2>2. phase[t] # "idle"
    BY <2>1 DEF IInv, NotAskedYet
  <2>3. t = <<t[1], t[2]>> /\ t[1] \in 1 .. Artifacts /\ t[2] \in 0 .. Last /\ Last \in Nat
    BY <2>1, Transactions
  <2>4. i \in 0 .. Last /\ (i = t[2] \/ i \in 0 .. t[2] - 1)
    BY <2>3
  <2>5. <<t[1], i>> \in Tx
    BY <2>3, <2>4, Transactions
  <2>6. ~(<<t[1], i>> = u /\ p = q)
    <3>1. CASE i = t[2]
      BY <1>3, <2>1, <2>3, <3>1
    <3>2. CASE i \in 0 .. t[2] - 1
      BY <1>3, <2>1, <2>2, <3>2 DEF BInv, Sequential
    <3> QED
      BY <2>4, <3>1, <3>2
  <2> QED
    BY <1>4, <2>5, <2>6
<1>9. NoGapIfAsked'
  BY <1>1, <1>8 DEF BInv, NoGapIfAsked
<1>10. \A p \in Peer : \A t \in received[p] : result'[t][p] # "none"
  BY <1>4 DEF BInv, Delivered, BroadcastTypeOK
<1>11. ASSUME NEW t \in Tx, NEW p \in Peer, result'[t][p] = "ok"
       PROVE  t \in received[p] \/ Skipped(t, p)'
  <2>1. result[t][p] = "ok" /\ (t \in received[p] \/ Skipped(t, p))
    BY <1>4, <1>11 DEF BInv, Delivered
  <2>2. ASSUME Skipped(t, p) PROVE Skipped(t, p)'
    <3>1. t[2] > 0 /\ t[2] \in Nat /\ t[2] - 1 \in 0 .. t[2] - 1 /\ t[2] - 1 \in 0 .. Last
          /\ t[1] \in 1 .. Artifacts
      BY <2>2, Transactions DEF Skipped
    <3>2. phase[t] # "idle"
      BY <2>1 DEF IInv, NotAskedYet
    <3>3. phase[<<t[1], t[2] - 1>>] = "returned" /\ <<t[1], t[2] - 1>> \in Tx
      BY <3>1, <3>2, Transactions DEF BInv, Sequential
    <3> QED
      BY <1>3, <1>4, <2>2, <3>1, <3>3 DEF Skipped
  <2> QED
    BY <2>1, <2>2
<1>12. Delivered'
  BY <1>1, <1>10, <1>11 DEF Delivered
<1> QED
  BY <1>5, <1>7, <1>9, <1>12 DEF BInv

\* A worker runs a query: what it answers, and what it has written.
LEMMA QueryStep ==
  ASSUME IInv, BroadcastTypeOK, BInv, NEW s \in Stream, Query(s)
  PROVE  BInv'
<1> DEFINE u == worker[s]
           q == owner[s]
<1>1. /\ u \in Tx /\ q \in Peer /\ result[u][q] = "pending"
      /\ UNCHANGED <<phase, picked, sends, art, chunk, exclude>>
      /\ \E r \in {"ok", "error"} :
           /\ result' = [result EXCEPT ![u][q] = r]
           /\ \/ /\ Previous(u, q) = "ok"
                 /\ received' = [received EXCEPT ![q] = @ \union {u}]
              \/ /\ r = "ok" => Previous(u, q) = "none"
                 /\ UNCHANGED received
  <2>1. u \in Tx /\ result[u][q] = "pending"
    BY Distinct DEF Query, QueryWrites, QueryTimesOut, QueryFails, QuerySkips, FinishTx, IInv, TypeOK
  <2>2. q \in Peer
    BY <2>1, Distinct DEF IInv, FreeHandlesIdle, TypeOK
  <2>3. UNCHANGED <<phase, picked, sends, art, chunk, exclude>>
    BY DEF Query, QueryWrites, QueryTimesOut, QueryFails, QuerySkips, FinishTx,
       broadcastVars, senderVars
  <2> DEFINE R(r) == /\ result' = [result EXCEPT ![u][q] = r]
                     /\ \/ /\ Previous(u, q) = "ok"
                           /\ received' = [received EXCEPT ![q] = @ \union {u}]
                        \/ /\ r = "ok" => Previous(u, q) = "none"
                           /\ UNCHANGED received
  <2>4. R("ok") \/ R("error")
    <3>1. CASE QueryWrites(s)
      BY <3>1 DEF QueryWrites, FinishTx
    <3>2. CASE QueryTimesOut(s)
      BY <3>2 DEF QueryTimesOut, FinishTx
    <3>3. CASE QueryFails(s)
      BY <3>3 DEF QueryFails, FinishTx, broadcastVars, wireVars
    <3>4. CASE QuerySkips(s)
      BY <3>4 DEF QuerySkips, FinishTx, broadcastVars, wireVars
    <3> QED
      BY <3>1, <3>2, <3>3, <3>4 DEF Query
  <2> QED
    BY <2>1, <2>2, <2>3, <2>4
<1>2. PICK r \in {"ok", "error"} :
           /\ result' = [result EXCEPT ![u][q] = r]
           /\ \/ /\ Previous(u, q) = "ok"
                 /\ received' = [received EXCEPT ![q] = @ \union {u}]
              \/ /\ r = "ok" => Previous(u, q) = "none"
                 /\ UNCHANGED received
  BY <1>1
<1> HIDE DEF u, q
<1>3. /\ result \in [Tx -> [Peer -> Results]] /\ received \in [Peer -> SUBSET Tx]
  BY DEF IInv, TypeOK, BroadcastTypeOK
<1>4. /\ \A t \in Tx, p \in Peer : ~(t = u /\ p = q) => result'[t][p] = result[t][p]
      /\ result'[u][q] = r
      /\ \A t \in Tx, p \in Peer : result'[t][p] = "none" <=> result[t][p] = "none"
  BY <1>1, <1>2, <1>3
<1>5. /\ \A p \in Peer : received[p] \subseteq received'[p]
      /\ \A p \in Peer : \A t \in received'[p] : t \in received[p] \/ (t = u /\ p = q /\ Previous(u, q) = "ok")
      /\ u \in received'[q] \/ (r = "ok" => Previous(u, q) = "none")
  BY <1>1, <1>2, <1>3
<1>6. Sequential'
  BY <1>1 DEF BInv, Sequential
<1>7. Spared'
  BY <1>1, <1>4 DEF BInv, Spared, Chosen
<1>8. \A t \in Tx, p \in Peer : t[2] > 0 => (Skipped(t, p)' <=> Skipped(t, p))
  <2>1. \A t \in Tx : t[2] > 0 => <<t[1], t[2] - 1>> \in Tx
    BY Transactions
  <2> QED
    BY <1>4, <2>1 DEF Skipped
<1>9. u[2] \in Nat /\ (u[2] > 0 => <<u[1], u[2] - 1>> \in Tx)
  BY <1>1, Transactions
<1>10. Delivered'
  <2>1. \A p \in Peer : \A t \in received'[p] : result'[t][p] # "none"
    BY <1>1, <1>3, <1>4, <1>5 DEF BInv, Delivered
  <2>2. ASSUME NEW t \in Tx, NEW p \in Peer, result'[t][p] = "ok"
        PROVE  t \in received'[p] \/ Skipped(t, p)'
    <3>1. CASE t = u /\ p = q
      <4>1. u \in received'[q] \/ Previous(u, q) = "none"
        BY <1>4, <1>5, <2>2, <3>1
      <4>2. Previous(u, q) = "none" => Skipped(u, q)
        BY <1>9 DEF Previous, Skipped
      <4>3. Skipped(u, q) => u[2] > 0
        BY DEF Skipped
      <4> QED
        BY <1>1, <1>8, <3>1, <4>1, <4>2, <4>3
    <3>2. CASE ~(t = u /\ p = q)
      <4>1. t \in received[p] \/ Skipped(t, p)
        BY <1>4, <2>2, <3>2 DEF BInv, Delivered
      <4>2. Skipped(t, p) => t[2] > 0
        BY DEF Skipped
      <4> QED
        BY <1>5, <1>8, <4>1, <4>2
    <3> QED
      BY <3>1, <3>2
  <2> QED
    BY <2>1, <2>2 DEF Delivered
<1>11. ASSUME NEW p \in Peer, NEW t \in received'[p],
              \A i \in 0 .. t[2] : result'[<<t[1], i>>][p] # "none"
       PROVE  \A i \in 0 .. t[2] : <<t[1], i>> \in received'[p]
  <2>1. t \in Tx /\ t = <<t[1], t[2]>> /\ t[1] \in 1 .. Artifacts /\ t[2] \in 0 .. Last /\ Last \in Nat
    BY <1>1, <1>3, <1>5, Transactions
  <2>2. \A i \in 0 .. t[2] : <<t[1], i>> \in Tx
    BY <2>1, Transactions
  <2>3. \A i \in 0 .. t[2] : result[<<t[1], i>>][p] # "none"
    BY <1>4, <1>11, <2>2
  <2>4. CASE t \in received[p]
    BY <1>5, <2>3, <2>4 DEF BInv, NoGapIfAsked
  <2>5. CASE t = u /\ p = q /\ Previous(u, q) = "ok"
    <3>1. CASE t[2] = 0
      BY <1>11, <2>1, <3>1
    <3>2. CASE t[2] > 0
      <4> DEFINE v == <<t[1], t[2] - 1>>
      <4>1. /\ t[2] - 1 \in 0 .. t[2] /\ v \in Tx /\ v[1] = t[1] /\ v[2] = t[2] - 1
            /\ result[v][p] = "ok"
        BY <2>1, <2>2, <2>5, <3>2 DEF Previous
      <4>2. v[2] > 0 => <<v[1], v[2] - 1>> = <<t[1], t[2] - 2>> /\ t[2] - 2 \in 0 .. t[2]
        BY <2>1, <4>1
      <4>3. ~Skipped(v, p)
        BY <2>3, <4>2 DEF Skipped
      <4> HIDE DEF v
      <4>4. v \in received[p]
        BY <4>1, <4>3 DEF BInv, Delivered
      <4>5. \A i \in 0 .. v[2] : result[<<v[1], i>>][p] # "none"
        BY <2>1, <2>3, <4>1
      <4>6. \A i \in 0 .. v[2] : <<v[1], i>> \in received[p]
        BY <4>4, <4>5 DEF BInv, NoGapIfAsked
      <4>7. \A i \in 0 .. t[2] : i \in 0 .. v[2] \/ i = t[2]
        BY <2>1, <4>1
      <4> QED
        BY <1>5, <1>11, <2>1, <4>1, <4>6, <4>7
    <3> QED
      BY <2>1, <3>1, <3>2
  <2> QED
    BY <1>5, <2>4, <2>5
<1>12. NoGapIfAsked'
  BY <1>11 DEF NoGapIfAsked
<1> QED
  BY <1>6, <1>7, <1>10, <1>12 DEF BInv

LEMMA BroadcastStep ==
  ASSUME IInv, BroadcastTypeOK, Begun, BInv, [BroadcastNext]_allVars
  PROVE  BInv'
<1> USE DEF vars, storeVars, workVars, txVars, broadcastVars, senderVars, wireVars
<1>1. CASE StopSender \/ ReadFails \/ FinishArtifact \/ UNCHANGED allVars
  BY <1>1, QuietStep DEF StopSender, ReadFails, FinishArtifact, allVars
<1>2. ASSUME NEW a \in 1 .. Artifacts, NEW p \in Peer, CollectLast(a, p) PROVE BInv'
  BY <1>2, QuietStep DEF CollectLast, Remove
<1>3. CASE AddStream
  BY <1>3, QuietStep DEF AddStream, AddRejected, AddAccepted
<1>4. CASE StoreStep
  <2>1. UNCHANGED broadcastVars
    BY <1>4 DEF StoreStep
  <2>2. CASE \/ \E p \in Peer : AddReturns(p) \/ Remove(p)
             \/ \E s \in Stream : TakeTx(s) \/ WorkerExit(s)
    BY <2>1, <2>2, QuietStep DEF AddReturns, Remove, TakeTx, WorkerExit
  <2>3. CASE \E t \in Tx : ApplyStart(t) \/ ApplyReturns(t)
    BY <2>1, <2>3, ApplyStartStep, ApplyReturnsStep
  <2>4. CASE \E t \in Tx, p \in Peer, s \in Stream \union {None} : QueueTx(t, p, s)
    BY <2>1, <2>4, QueueTxStep
  <2> QED
    BY <1>4, <2>2, <2>3, <2>4 DEF StoreStep
<1>5. CASE TakeArtifact \/ NextChunk \/ ApplyChunk
  BY <1>5, TakeArtifactStep, NextChunkStep, ApplyChunkStep
<1>6. ASSUME NEW s \in Stream, Query(s) PROVE BInv'
  BY <1>6, QueryStep
<1> QED
  BY <1>1, <1>2, <1>3, <1>4, <1>5, <1>6 DEF BroadcastNext

LEMMA BroadcastInvariance == BroadcastSafeSpec => [](IInv /\ BroadcastTypeOK /\ BInv)
<1>1. BroadcastInit => BInv
  BY InitBInv
<1>2. IInv /\ BroadcastTypeOK /\ Begun /\ BInv /\ [BroadcastNext]_allVars => BInv'
  BY BroadcastStep
<1> QED
  BY <1>1, <1>2, BroadcastUsesStore, PTL DEF BroadcastSafeSpec

\* No witness of an artifact receives any of it.
THEOREM WitnessesAlwaysSpared == BroadcastSafeSpec => []WitnessesSpared
<1>1. BroadcastTypeOK /\ BInv => WitnessesSpared
  BY DEF BInv, Spared, Chosen, Delivered, WitnessesSpared, BroadcastTypeOK
<1> QED
  BY <1>1, BroadcastInvariance, PTL

\* A peer asked for all of an artifact up to a chunk it received has received
\* all of it up to there.
THEOREM NoGaps == BroadcastSafeSpec => []NoGapIfAsked
<1>1. BInv => NoGapIfAsked
  BY DEF BInv
<1> QED
  BY <1>1, BroadcastInvariance, PTL
-----------------------------------------------------------------------------
(* The order of frames on a stream *)

\* Only the present transaction of the broadcast goroutine may be on its way
\* into the queues, and it comes after everything that was begun before.
Current ==
  \A t \in Tx :
    /\ phase[t] \in {"picked", "sending"} => sender = "sending" /\ t = <<art, chunk>>
    /\ phase[t] # "idle" => t = <<art, chunk>> \/ Before(t, <<art, chunk>>)

\* A frame written last to a stream that is served was asked for, from the
\* peer whose worker serves it.
LastAsked ==
  \A s \in Stream : owner[s] # None /\ last[s] # None => result[last[s]][owner[s]] # "none"

\* The frame written last, the transaction of the worker and those in the queue
\* follow one another.
Ordered ==
  \A s \in Stream : owner[s] # None =>
    /\ \A i, j \in 1 .. Len(queue[s]) : i < j => Before(queue[s][i], queue[s][j])
    /\ \A i \in 1 .. Len(queue[s]) :
         /\ worker[s] # None => Before(worker[s], queue[s][i])
         /\ last[s] # None => Before(last[s], queue[s][i])
    /\ last[s] # None /\ worker[s] # None => Before(last[s], worker[s])

OInv == Current /\ LastAsked /\ Ordered

LEMMA InitOInv == BroadcastInit => OInv
BY DEF BroadcastInit, Init, OInv, Current, LastAsked, Ordered

\* Steps that leave the streams, their workers and queues alone.
LEMMA StreamsUntouched ==
  ASSUME LastAsked, Ordered, UNCHANGED <<owner, queue, worker, last, result>>
  PROVE  LastAsked' /\ Ordered'
BY DEF LastAsked, Ordered

\* Steps that neither ask nor move the broadcast goroutine.
LEMMA SenderUntouched ==
  ASSUME Current, UNCHANGED <<phase, sender, art, chunk>>
  PROVE  Current'
BY DEF Current

LEMMA SenderOrder ==
  ASSUME IInv, BroadcastTypeOK, Begun, BInv, OInv,
         TakeArtifact \/ StopSender \/ NextChunk \/ ReadFails \/ FinishArtifact
  PROVE  OInv'
<1>1. /\ UNCHANGED <<owner, queue, worker, last, result, phase>>
      /\ art \in Nat /\ chunk \in Nat
  BY Transactions DEF TakeArtifact, StopSender, NextChunk, ReadFails, FinishArtifact,
     vars, storeVars, workVars, txVars, wireVars, BroadcastTypeOK
\* Nothing is on its way: the goroutine is idle, or its transaction has returned.
<1>2. \A t \in Tx : phase[t] \notin {"picked", "sending"}
  <2>1. CASE TakeArtifact \/ StopSender
    BY <2>1 DEF TakeArtifact, StopSender, OInv, Current
  <2>2. CASE NextChunk \/ ReadFails \/ FinishArtifact
    BY <2>2 DEF NextChunk, ReadFails, FinishArtifact, ChunkApplied, OInv, Current
  <2> QED
    BY <2>1, <2>2
<1>3. \A t \in Tx : t = <<art, chunk>> \/ Before(t, <<art, chunk>>)
          => t = <<art', chunk'>> \/ Before(t, <<art', chunk'>>)
  <2>1. \/ art' = art /\ chunk' = chunk
        \/ art' = art + 1 /\ chunk' = 0
        \/ art' = art /\ chunk' = chunk + 1
    BY DEF TakeArtifact, StopSender, NextChunk, ReadFails, FinishArtifact
  <2> QED
    BY <1>1, <2>1, Transactions DEF Before
<1>4. Current'
  BY <1>1, <1>2, <1>3 DEF OInv, Current
<1> QED
  BY <1>1, <1>4, StreamsUntouched DEF OInv

LEMMA ApplyChunkOrder ==
  ASSUME IInv, OInv, ApplyChunk
  PROVE  OInv'
<1>1. PICK sel \in SUBSET (table \ exclude[art]) : Pick(<<art, chunk>>, sel)
  BY DEF ApplyChunk, Apply
<1>2. /\ phase' = [phase EXCEPT ![<<art, chunk>>] = "picked"] /\ sender = "sending"
      /\ UNCHANGED <<owner, queue, worker, last, result, sender, art, chunk>>
  BY <1>1 DEF Pick, ApplyChunk, storeVars, workVars, broadcastVars, senderVars, wireVars
<1>3. phase \in [Tx -> Phases]
  BY DEF IInv, TypeOK
<1>4. Current'
  BY <1>2, <1>3 DEF OInv, Current
<1> QED
  BY <1>2, <1>4, StreamsUntouched DEF OInv

LEMMA ApplyOrder ==
  ASSUME IInv, OInv, NEW u \in Tx, ApplyStart(u) \/ ApplyReturns(u), UNCHANGED broadcastVars
  PROVE  OInv'
<1>1. /\ phase[u] \in {"picked", "sending"}
      /\ \E f \in {"sending", "returned"} : phase' = [phase EXCEPT ![u] = f]
      /\ UNCHANGED <<owner, queue, worker, last, result, sender, art, chunk>>
  BY DEF ApplyStart, ApplyReturns, storeVars, workVars, broadcastVars, senderVars, wireVars
<1>2. phase \in [Tx -> Phases]
  BY DEF IInv, TypeOK
<1>3. Current'
  BY <1>1, <1>2 DEF OInv, Current
<1> QED
  BY <1>1, <1>3, StreamsUntouched DEF OInv

\* All that is on a stream was asked for from the peer it serves.
LEMMA OnStreamAsked ==
  ASSUME IInv, BroadcastTypeOK, LastAsked, NEW s \in Stream, owner[s] # None
  PROVE  /\ \A i \in 1 .. Len(queue[s]) : queue[s][i] \in Tx /\ result[queue[s][i]][owner[s]] # "none"
         /\ worker[s] # None => worker[s] \in Tx /\ result[worker[s]][owner[s]] # "none"
         /\ last[s] # None => last[s] \in Tx /\ result[last[s]][owner[s]] # "none"
<1>1. owner[s] \in Peer /\ queue[s] \in Seq(Tx) /\ Len(queue[s]) <= TxQueueSize
  BY DEF IInv, TypeOK
<1>2. ASSUME NEW t \in Tx, NEW i \in 0 .. TxQueueSize, Holds(t, s, i)
      PROVE  result[t][owner[s]] # "none"
  <2>1. <<s, i>> \in Owing(t, owner[s])
    BY <1>1, <1>2 DEF Owing
  <2> QED
    BY <1>1, <2>1 DEF IInv, OneAnswerOwed
<1>3. ASSUME NEW i \in 1 .. Len(queue[s])
      PROVE  queue[s][i] \in Tx /\ result[queue[s][i]][owner[s]] # "none"
  <2>1. queue[s][i] \in Tx /\ i \in 0 .. TxQueueSize /\ Holds(queue[s][i], s, i)
    BY <1>1, StoreAssumption DEF Holds, StoreAssumption
  <2> QED
    BY <1>2, <2>1
<1>4. ASSUME worker[s] # None
      PROVE  worker[s] \in Tx /\ result[worker[s]][owner[s]] # "none"
  <2>1. worker[s] \in Tx /\ 0 \in 0 .. TxQueueSize /\ Holds(worker[s], s, 0)
    BY <1>4, StoreAssumption DEF Holds, StoreAssumption, IInv, TypeOK
  <2> QED
    BY <1>2, <2>1
<1> QED
  BY <1>3, <1>4 DEF LastAsked, BroadcastTypeOK

\* A goroutine of apply appends the present transaction, the latest of all.
LEMMA QueueTxOrder ==
  ASSUME IInv, BroadcastTypeOK, OInv, NEW u \in Tx, NEW q \in Peer, NEW r \in Stream \union {None},
         QueueTx(u, q, r), UNCHANGED broadcastVars
  PROVE  OInv'
<1>1. /\ <<q, r>> \in sends[u]
      /\ UNCHANGED <<owner, worker, last, phase, sender, art, chunk>>
      /\ \E x \in {"pending", "full"} : result' = [result EXCEPT ![u][q] = x]
      /\ \/ r # None /\ queue' = [queue EXCEPT ![r] = Append(@, u)]
         \/ UNCHANGED queue
  BY DEF QueueTx, Accept, WouldAccept, storeVars, broadcastVars, senderVars, wireVars
<1>2. result \in [Tx -> [Peer -> Results]] /\ queue \in [Stream -> Seq(Tx)]
  BY DEF IInv, TypeOK
<1>3. phase[u] = "sending" /\ r = peers[q] /\ result[u][q] = "none"
  BY <1>1 DEF IInv, SendsCurrent, NotAskedYet
<1>4. Current'
  BY <1>1, SenderUntouched DEF OInv
<1>5. LastAsked'
  BY <1>1, <1>2 DEF OInv, LastAsked, BroadcastTypeOK
<1>6. ASSUME NEW t \in Tx, result[t][q] # "none" PROVE Before(t, u)
  <2>1. phase[t] # "idle" /\ t # u
    BY <1>3, <1>6 DEF IInv, NotAskedYet
  <2> QED
    BY <1>3, <2>1 DEF OInv, Current
<1>7. Ordered'
  <2>1. CASE UNCHANGED queue
    BY <1>1, <2>1 DEF OInv, Ordered
  <2>2. CASE r # None /\ queue' = [queue EXCEPT ![r] = Append(@, u)]
    <3>1. r \in Stream /\ owner[r] = q /\ q # None
      BY <1>3, <2>2, StoreAssumption DEF IInv, RegisteredIffOpen, StoreAssumption
    <3>2. /\ \A i \in 1 .. Len(queue[r]) : Before(queue[r][i], u)
          /\ worker[r] # None => Before(worker[r], u)
          /\ last[r] # None => Before(last[r], u)
      BY <1>6, <3>1, OnStreamAsked DEF OInv
    <3>3. /\ queue[r] \in Seq(Tx) /\ queue'[r] = Append(queue[r], u)
          /\ \A s \in Stream : s # r => queue'[s] = queue[s]
      BY <1>2, <2>2, <3>1
    <3>4. /\ Len(queue'[r]) = Len(queue[r]) + 1 /\ Len(queue[r]) \in Nat
          /\ queue'[r][Len(queue[r]) + 1] = u
          /\ \A i \in 1 .. Len(queue[r]) : queue'[r][i] = queue[r][i]
      BY <3>3
    <3>5. /\ \A i, j \in 1 .. Len(queue'[r]) : i < j => Before(queue'[r][i], queue'[r][j])
          /\ \A i \in 1 .. Len(queue'[r]) :
               /\ worker[r] # None => Before(worker[r], queue'[r][i])
               /\ last[r] # None => Before(last[r], queue'[r][i])
      <4>1. \A i \in 1 .. Len(queue'[r]) : i \in 1 .. Len(queue[r]) \/ i = Len(queue[r]) + 1
        BY <3>4
      <4> QED
        BY <3>1, <3>2, <3>4, <4>1 DEF OInv, Ordered
    <3> QED
      BY <1>1, <3>1, <3>3, <3>5 DEF OInv, Ordered
  <2> QED
    BY <1>1, <2>1, <2>2
<1> QED
  BY <1>4, <1>5, <1>7 DEF OInv

LEMMA TakeTxOrder ==
  ASSUME IInv, OInv, NEW r \in Stream, TakeTx(r), UNCHANGED broadcastVars
  PROVE  OInv'
<1>1. /\ owner[r] # None /\ queue[r] # <<>>
      /\ worker' = [worker EXCEPT ![r] = Head(queue[r])]
      /\ queue' = [queue EXCEPT ![r] = Tail(@)]
      /\ UNCHANGED <<owner, last, result, phase, sender, art, chunk>>
  BY DEF TakeTx, storeVars, txVars, broadcastVars, senderVars, wireVars
<1>2. queue \in [Stream -> Seq(Tx)] /\ worker \in [Stream -> Tx \union {None}]
  BY DEF IInv, TypeOK
<1>3. /\ worker'[r] = queue[r][1] /\ 1 \in 1 .. Len(queue[r])
      /\ Len(queue'[r]) = Len(queue[r]) - 1 /\ Len(queue[r]) \in Nat
      /\ \A i \in 1 .. Len(queue'[r]) : queue'[r][i] = queue[r][i + 1] /\ i + 1 \in 1 .. Len(queue[r])
      /\ \A s \in Stream : s # r => queue'[s] = queue[s] /\ worker'[s] = worker[s]
  BY <1>1, <1>2
<1>4. /\ \A i, j \in 1 .. Len(queue'[r]) : i < j => Before(queue'[r][i], queue'[r][j])
      /\ \A i \in 1 .. Len(queue'[r]) :
           /\ Before(worker'[r], queue'[r][i])
           /\ last[r] # None => Before(last[r], queue'[r][i])
      /\ last[r] # None => Before(last[r], worker'[r])
  <2>1. \A i, j \in 1 .. Len(queue'[r]) : i < j => i + 1 < j + 1 /\ 1 < i + 1
    BY <1>3
  <2>2. \A i \in 1 .. Len(queue'[r]) : 1 < i + 1
    BY <1>3
  <2> QED
    BY <1>1, <1>3, <2>1, <2>2 DEF OInv, Ordered
<1>5. Ordered'
  BY <1>1, <1>3, <1>4 DEF OInv, Ordered
<1> QED
  BY <1>1, <1>5, SenderUntouched DEF OInv, LastAsked

\* A query writes the transaction of its worker, or nothing.
LEMMA QueryOrder ==
  ASSUME IInv, BroadcastTypeOK, OInv, NEW r \in Stream, Query(r)
  PROVE  OInv'
<1>1. /\ worker[r] # None /\ result[worker[r]][owner[r]] = "pending"
      /\ worker' = [worker EXCEPT ![r] = None]
      /\ UNCHANGED <<owner, queue, phase, sender, art, chunk>>
      /\ \E err \in {"ok", "error"} : result' = [result EXCEPT ![worker[r]][owner[r]] = err]
      /\ last' = [last EXCEPT ![r] = worker[r]] \/ UNCHANGED last
  BY DEF Query, QueryWrites, QueryTimesOut, QueryFails, QuerySkips, FinishTx,
     storeVars, broadcastVars, senderVars, wireVars
<1>2. /\ result \in [Tx -> [Peer -> Results]] /\ worker \in [Stream -> Tx \union {None}]
      /\ owner \in [Stream -> Peer \union {None}] /\ last \in [Stream -> Tx \union {None}]
  BY DEF IInv, TypeOK, BroadcastTypeOK
<1>3. owner[r] # None
  BY <1>1 DEF IInv, FreeHandlesIdle
<1>4. \A t \in Tx, p \in Peer : result[t][p] # "none" => result'[t][p] # "none"
  BY <1>1, <1>2
<1>5. LastAsked'
  <2>1. \A s \in Stream : last'[s] = last[s] \/ (s = r /\ last'[s] = worker[r])
    BY <1>1, <1>2
  <2> QED
    BY <1>1, <1>2, <1>4, <2>1 DEF OInv, LastAsked
<1>6. Ordered'
  <2>1. \A s \in Stream : \/ last'[s] = last[s] /\ worker'[s] = worker[s]
                          \/ s = r /\ worker'[s] = None /\ last'[s] \in {last[r], worker[r]}
    BY <1>1, <1>2
  <2> QED
    BY <1>1, <1>3, <2>1 DEF OInv, Ordered
<1> QED
  BY <1>1, <1>5, <1>6, SenderUntouched DEF OInv

\* A stream begins without frames; its handle had no work left.
LEMMA AddOrder ==
  ASSUME IInv, BroadcastTypeOK, OInv, NEW p \in Peer, NEW r \in Stream, NEW dir \in BOOLEAN,
         AddAccepted(p, r, dir), last' = [last EXCEPT ![r] = None],
         UNCHANGED <<senderVars, collecting, received>>
  PROVE  OInv'
<1>1. /\ owner[r] = None /\ owner' = [owner EXCEPT ![r] = p]
      /\ UNCHANGED <<queue, worker, result, phase, sender, art, chunk>>
  BY DEF AddAccepted, workVars, txVars, senderVars
<1>2. /\ owner \in [Stream -> Peer \union {None}] /\ last \in [Stream -> Tx \union {None}]
      /\ queue[r] = <<>> /\ worker[r] = None
  BY <1>1 DEF IInv, TypeOK, BroadcastTypeOK, FreeHandlesIdle
<1>3. last'[r] = None /\ \A s \in Stream : s # r => last'[s] = last[s] /\ owner'[s] = owner[s]
  BY <1>1, <1>2
<1>4. LastAsked'
  BY <1>1, <1>3 DEF OInv, LastAsked
<1>5. Ordered'
  BY <1>1, <1>2, <1>3 DEF OInv, Ordered
<1> QED
  BY <1>1, <1>4, <1>5, SenderUntouched DEF OInv

LEMMA OrderStep ==
  ASSUME IInv, BroadcastTypeOK, Begun, BInv, OInv, [BroadcastNext]_allVars
  PROVE  OInv'
<1> USE DEF vars, storeVars, workVars, txVars, broadcastVars, senderVars, wireVars
<1>1. ASSUME UNCHANGED <<owner, queue, worker, last, result, phase, sender, art, chunk>>
      PROVE  OInv'
  BY <1>1, StreamsUntouched, SenderUntouched DEF OInv
<1>2. CASE TakeArtifact \/ StopSender \/ NextChunk \/ ReadFails \/ FinishArtifact \/ ApplyChunk
  BY <1>2, SenderOrder, ApplyChunkOrder
<1>3. ASSUME NEW a \in 1 .. Artifacts, NEW p \in Peer, CollectLast(a, p) PROVE OInv'
  BY <1>1, <1>3 DEF CollectLast, Remove
<1>4. ASSUME NEW s \in Stream, Query(s) PROVE OInv'
  BY <1>4, QueryOrder
<1>5. CASE AddStream
  <2>1. ASSUME NEW p \in Peer, NEW dir \in BOOLEAN, AddRejected(p, dir), UNCHANGED broadcastVars
        PROVE  OInv'
    BY <1>1, <2>1 DEF AddRejected
  <2> QED
    BY <1>5, <2>1, AddOrder DEF AddStream
<1>6. CASE StoreStep
  <2>1. UNCHANGED broadcastVars
    BY <1>6 DEF StoreStep
  <2>2. CASE \E p \in Peer : AddReturns(p) \/ Remove(p)
    BY <1>1, <2>1, <2>2 DEF AddReturns, Remove
  <2>3. CASE \E t \in Tx : ApplyStart(t) \/ ApplyReturns(t)
    BY <2>1, <2>3, ApplyOrder
  <2>4. CASE \E t \in Tx, p \in Peer, s \in Stream \union {None} : QueueTx(t, p, s)
    BY <2>1, <2>4, QueueTxOrder
  <2>5. ASSUME NEW s \in Stream, TakeTx(s) PROVE OInv'
    BY <2>1, <2>5, TakeTxOrder
  <2>6. ASSUME NEW s \in Stream, WorkerExit(s) PROVE OInv'
    <3>1. /\ owner' = [owner EXCEPT ![s] = None]
          /\ UNCHANGED <<queue, worker, last, result, phase, sender, art, chunk>>
      BY <2>1, <2>6 DEF WorkerExit
    <3>2. \A r \in Stream : owner'[r] = None \/ owner'[r] = owner[r]
      BY <3>1 DEF IInv, TypeOK
    <3> QED
      BY <3>1, <3>2, SenderUntouched DEF OInv, LastAsked, Ordered
  <2> QED
    BY <1>6, <2>2, <2>3, <2>4, <2>5, <2>6 DEF StoreStep
<1> QED
  BY <1>1, <1>2, <1>3, <1>4, <1>5, <1>6 DEF BroadcastNext, allVars

LEMMA FrameInvariance == BroadcastSafeSpec => []OInv
<1>1. IInv /\ BroadcastTypeOK /\ Begun /\ BInv /\ OInv /\ [BroadcastNext]_allVars => OInv'
  BY OrderStep
<1> QED
  BY <1>1, InitOInv, BroadcastUsesStore, BroadcastInvariance, PTL DEF BroadcastSafeSpec

\* Frames go out on a stream in the order of artifacts and chunks, none twice.
THEOREM FramesAlwaysInOrder == BroadcastSafeSpec => FramesInOrder
<1>1. ASSUME IInv, BroadcastTypeOK, OInv, [BroadcastNext]_allVars,
             NEW s \in Stream, last'[s] # last[s], last'[s] # None, last[s] # None
      PROVE  Before(last[s], last'[s])
  <2> USE DEF senderVars, wireVars, broadcastVars
  <2>1. last \in [Stream -> Tx \union {None}]
    BY <1>1 DEF BroadcastTypeOK
  <2>2. PICK r \in Stream : QueryWrites(r) \/ QueryTimesOut(r)
    <3>1. CASE AddStream
      BY <1>1, <2>1, <3>1 DEF AddStream
    <3>2. CASE \E r \in Stream : Query(r)
      BY <1>1, <3>2 DEF Query, QueryFails, QuerySkips
    <3> QED
      BY <1>1, <3>1, <3>2 DEF BroadcastNext, TakeArtifact, StopSender, ApplyChunk, NextChunk, ReadFails,
         FinishArtifact, CollectLast, StoreStep, allVars
  <2>3. last' = [last EXCEPT ![r] = worker[r]] /\ worker[r] # None
    BY <2>2 DEF QueryWrites, QueryTimesOut
  <2>4. s = r /\ last'[s] = worker[s] /\ owner[s] # None
    BY <1>1, <2>1, <2>3 DEF IInv, FreeHandlesIdle
  <2> QED
    BY <1>1, <2>3, <2>4 DEF OInv, Ordered
<1>2. IInv /\ BroadcastTypeOK /\ OInv /\ [BroadcastNext]_allVars =>
        [\A s \in Stream : last'[s] # last[s] /\ last'[s] # None /\ last[s] # None
           => Before(last[s], last'[s])]_allVars
  BY <1>1
<1> QED
  BY <1>2, FrameInvariance, BroadcastUsesStore, PTL DEF BroadcastSafeSpec, FramesInOrder
-----------------------------------------------------------------------------
(* Queries that wait for each other *)

\* A set of natural numbers has a least one.
LEMMA LeastNumber ==
  ASSUME NEW S \in SUBSET Nat, S # {}
  PROVE  \E n \in S : \A m \in S : n <= m
<1> DEFINE Smaller == {ss \in Nat \X Nat : ss[1] < ss[2]}
<1>1. IsWellFoundedOn(Smaller, Nat)
  BY NatLessThanWellFounded DEF OpToRel
<1>2. PICK n \in S : \A m \in S : <<m, n>> \notin Smaller
  <2> HIDE DEF Smaller
  <2>1. S \subseteq Nat /\ S # {}
    OBVIOUS
  <2> QED
    BY <1>1, <2>1, WFMin, Zenon
<1>3. ASSUME NEW m \in S PROVE n <= m
  <2>1. m \in Nat /\ n \in Nat /\ <<m, n>> \in Nat \X Nat
    OBVIOUS
  <2>2. ~(m < n)
    BY <1>2, <2>1
  <2> QED
    BY <2>1, <2>2
<1> QED
  BY <1>3

\* Of any transactions one is the earliest.
LEMMA EarliestTx ==
  ASSUME NEW T \in SUBSET Tx, T # {}
  PROVE  \E t \in T : \A u \in T : ~Before(u, t)
<1> DEFINE A == {a \in Nat : \E t \in T : t[1] = a}
<1>1. PICK a \in A : \A b \in A : a <= b
  <2>1. \E t \in T : t[1] \in Nat
    BY Transactions
  <2>2. A # {} /\ A \in SUBSET Nat
    BY <2>1
  <2> HIDE DEF A
  <2> QED
    BY <2>2, LeastNumber
<1> DEFINE C == {i \in Nat : \E t \in T : t[1] = a /\ t[2] = i}
<1>2. PICK i \in C : \A k \in C : i <= k
  <2>1. \E t \in T : t[1] = a /\ t[2] \in Nat
    BY Transactions
  <2>2. C # {} /\ C \in SUBSET Nat
    BY <2>1
  <2> HIDE DEF C
  <2> QED
    BY <2>2, LeastNumber
<1>3. PICK t \in T : t[1] = a /\ t[2] = i
  OBVIOUS
<1>4. ASSUME NEW u \in T PROVE ~Before(u, t)
  <2>1. u[1] \in Nat /\ u[2] \in Nat /\ a \in Nat /\ i \in Nat
    BY Transactions
  <2>2. a <= u[1]
    BY <1>1, <2>1
  <2>3. u[1] = a => i <= u[2]
    BY <1>2, <2>1
  <2> QED
    BY <1>3, <2>1, <2>2, <2>3 DEF Before
<1> QED
  BY <1>4

\* The earliest transaction a peer has not answered waits for nobody, and nothing
\* waits in front of it.
LEMMA EarliestMoves ==
  ASSUME IInv, BroadcastTypeOK, OInv, NEW p \in Peer,
         NEW t \in Tx, result[t][p] = "pending",
         \A u \in Tx : result[u][p] = "pending" => ~Before(u, t)
  PROVE  \E s \in Stream : owner[s] = p /\ ~Waits(s) /\ (worker[s] # None \/ queue[s] # <<>>)
<1>1. PICK s \in Stream, i \in 0 .. TxQueueSize : owner[s] = p /\ Holds(t, s, i)
  BY DEF IInv, OneAnswerOwed, Owing
<1>2. owner[s] # None /\ queue[s] \in Seq(Tx) /\ worker[s] \in Tx \union {None} /\ Len(queue[s]) \in Nat
  BY <1>1, Distinct DEF IInv, TypeOK
<1>3. CASE worker[s] = t
  <2>1. ~Waits(s)
    <3> SUFFICES ASSUME Waits(s) PROVE FALSE
      OBVIOUS
    <3> DEFINE u == <<t[1], t[2] - 1>>
    <3>1. t[2] # 0 /\ result[u][p] = "pending"
      BY <1>1, <1>3 DEF Waits, Previous
    <3>2. u \in Tx /\ Before(u, t)
      BY <3>1, Transactions DEF Before
    <3> QED
      BY <3>1, <3>2
  <2> QED
    BY <1>1, <1>3, <2>1, Distinct
<1>4. CASE worker[s] # t
  <2>1. i \in 1 .. Len(queue[s]) /\ queue[s][i] = t
    BY <1>1, <1>2, <1>4, Distinct DEF Holds
  <2>2. queue[s] # <<>>
    BY <1>2, <2>1
  <2>3. worker[s] = None
    <3> SUFFICES ASSUME worker[s] # None PROVE FALSE
      OBVIOUS
    <3>1. worker[s] \in Tx /\ Before(worker[s], t)
      BY <1>2, <2>1 DEF OInv, Ordered
    <3>2. result[worker[s]][p] = "pending"
      <4>1. <<s, 0>> \in Owing(worker[s], p)
        BY <1>1, Distinct DEF Owing, Holds
      <4> QED
        BY <3>1, <4>1 DEF IInv, OneAnswerOwed
    <3> QED
      BY <3>1, <3>2
  <2> QED
    BY <1>1, <2>2, <2>3 DEF Waits
<1> QED
  BY <1>3, <1>4

\* Queries wait for the results of earlier ones without a timeout, but never all of
\* them: the waits follow the order of transactions, which every queue keeps, and
\* the earliest transaction a peer owes an answer to can go on.
THEOREM NeverACircle == BroadcastSafeSpec => []NoCircularWait
<1>1. IInv /\ BroadcastTypeOK /\ OInv => NoCircularWait
  <2> SUFFICES ASSUME IInv, BroadcastTypeOK, OInv, NEW p \in Peer,
                      NEW t \in Tx, result[t][p] = "pending"
               PROVE  \E s \in Stream : /\ owner[s] = p /\ ~Waits(s)
                                        /\ worker[s] # None \/ queue[s] # <<>>
    BY DEF NoCircularWait
  <2> DEFINE T == {u \in Tx : result[u][p] = "pending"}
  <2>1. PICK v \in T : \A u \in T : ~Before(u, v)
    BY EarliestTx
  <2> QED
    BY <2>1, EarliestMoves
<1> QED
  BY <1>1, FrameInvariance, BroadcastUsesStore, PTL
=============================================================================
