--------------------------- MODULE ProcessProofs ---------------------------
(***************************************************************************)
(* Proofs about Process for any streams, peers, checksums and sizes of the *)
(* caches and queues: who reads a stream, that nothing is delivered twice, *)
(* and that an artifact is not sent back to where it came from unless its  *)
(* witnesses were evicted.                                                 *)
(***************************************************************************)
EXTENDS Process, TLAPS

-----------------------------------------------------------------------------
(* The caches *)

\* Where the entry at j was before the one at the place in I was removed.
Place(I, j) == IF I = {} \/ j < (CHOOSE k \in I : TRUE) THEN j ELSE j + 1

\* A cache without an entry has the others, each from a place of its own.
LEMMA WithoutEntry ==
  ASSUME NEW T, NEW cache \in Seq(T), NEW I \in SUBSET DOMAIN cache
  PROVE  /\ Without(cache, I) \in Seq(T)
         /\ Len(Without(cache, I)) <= Len(cache)
         /\ I # {} => Len(Without(cache, I)) < Len(cache)
         /\ \A j \in DOMAIN Without(cache, I) :
              Place(I, j) \in DOMAIN cache /\ Without(cache, I)[j] = cache[Place(I, j)]
         /\ \A j, k \in DOMAIN Without(cache, I) : Place(I, j) = Place(I, k) => j = k
         /\ (\A i, k \in I : i = k) =>
              /\ \A j \in DOMAIN Without(cache, I) : Place(I, j) \notin I
              /\ \A i \in DOMAIN cache \ I : \E j \in DOMAIN Without(cache, I) : Place(I, j) = i
<1>1. /\ Len(cache) \in Nat /\ DOMAIN cache = 1 .. Len(cache)
      /\ \A i \in 1 .. Len(cache) : cache[i] \in T
  OBVIOUS
<1>2. CASE I = {}
  <2>1. Without(cache, I) = cache /\ \A j : Place(I, j) = j
    BY <1>2 DEF Without, Place
  <2> QED
    BY <1>1, <1>2, <2>1
<1>3. CASE I # {}
  <2> DEFINE i == CHOOSE k \in I : TRUE
             n == Len(cache)
             w == [j \in 1 .. n - 1 |-> cache[IF j < i THEN j ELSE j + 1]]
  <2>1. Without(cache, I) = w /\ i \in I /\ \A j : Place(I, j) = IF j < i THEN j ELSE j + 1
    BY <1>3 DEF Without, Place
  <2>2. i \in 1 .. n /\ n \in Nat
    BY <1>1, <2>1
  <2> HIDE DEF i, n
  <2>3. \A j \in 1 .. n - 1 : Place(I, j) \in 1 .. n /\ w[j] = cache[Place(I, j)]
    BY <2>1, <2>2
  <2>4. w \in Seq(T) /\ Len(w) = n - 1 /\ DOMAIN w = 1 .. n - 1
    <3>1. w \in [1 .. n - 1 -> T]
      BY <1>1, <2>3 DEF n
    <3>2. n - 1 \in Nat
      BY <2>2
    <3> QED
      BY <3>1, <3>2
  <2> HIDE DEF w
  <2>5. \A j, k \in 1 .. n - 1 : Place(I, j) = Place(I, k) => j = k
    BY <2>1, <2>2
  <2>6. \A j \in 1 .. n - 1 : Place(I, j) # i
    BY <2>1, <2>2
  <2>7. ASSUME NEW k \in 1 .. n, k # i PROVE \E j \in 1 .. n - 1 : Place(I, j) = k
    <3>1. CASE k < i
      <4>1. k \in 1 .. n - 1 /\ Place(I, k) = k
        BY <2>1, <2>2, <3>1
      <4> QED
        BY <4>1
    <3>2. CASE k > i
      <4>1. k - 1 \in 1 .. n - 1 /\ Place(I, k - 1) = k
        BY <2>1, <2>2, <3>2
      <4> QED
        BY <4>1
    <3> QED
      BY <2>2, <2>7, <3>1, <3>2
  <2>8. n - 1 < n /\ n - 1 <= n /\ n = Len(cache) /\ DOMAIN cache = 1 .. n
    BY <1>1, <2>2 DEF n
  <2>9. ASSUME \A k, l \in I : k = l
        PROVE  /\ \A j \in 1 .. n - 1 : Place(I, j) \notin I
               /\ \A k \in 1 .. n \ I : \E j \in 1 .. n - 1 : Place(I, j) = k
    BY <2>1, <2>6, <2>7, <2>9
  <2> QED
    BY <2>1, <2>3, <2>4, <2>5, <2>8, <2>9
<1> QED
  BY <1>2, <1>3

\* A cache with an entry added to the others.
LEMMA AddedEntry ==
  ASSUME NEW T, NEW others \in Seq(T), NEW entry \in T, NEW size \in Nat \ {0}, Len(others) <= size
  PROVE  /\ Added(others, entry, size) \in Seq(T)
         /\ Len(Added(others, entry, size)) <= size
         /\ Len(others) # size => Added(others, entry, size) = Append(others, entry)
<1>1. Len(others) \in Nat
  OBVIOUS
<1>2. CASE Len(others) = size
  <2>1. others # <<>> /\ Added(others, entry, size) = Append(Tail(others), entry)
    BY <1>1, <1>2 DEF Added
  <2>2. Tail(others) \in Seq(T) /\ Len(Tail(others)) = Len(others) - 1
    BY <2>1
  <2>3. Append(Tail(others), entry) \in Seq(T) /\ Len(Append(Tail(others), entry)) = Len(others)
    BY <1>1, <2>2
  <2> QED
    BY <1>2, <2>1, <2>3
<1>3. CASE Len(others) # size
  <2>1. Added(others, entry, size) = Append(others, entry)
    BY <1>3 DEF Added
  <2>2. Append(others, entry) \in Seq(T) /\ Len(Append(others, entry)) = Len(others) + 1
    OBVIOUS
  <2> QED
    BY <1>1, <1>3, <2>1, <2>2
<1> QED
  BY <1>2, <1>3

LEMMA ArtifactCacheType ==
  ASSUME TypeOK, NEW c \in Checksum
  PROVE  AddArtifact(c) \in Seq(Checksum) /\ Len(AddArtifact(c)) <= ArtifactCacheSize
<1> DEFINE others == Without(artifactCache, ArtifactAt(c))
<1>1. /\ artifactCache \in Seq(Checksum) /\ Len(artifactCache) <= ArtifactCacheSize
      /\ ArtifactAt(c) \in SUBSET DOMAIN artifactCache /\ ArtifactCacheSize \in Nat \ {0}
  BY ProcessAssumption DEF TypeOK, ArtifactAt, ProcessAssumption
<1>2. others \in Seq(Checksum) /\ Len(others) <= Len(artifactCache)
  BY <1>1, WithoutEntry
<1>3. Len(others) \in Nat /\ Len(artifactCache) \in Nat
  BY <1>1, <1>2
<1>4. Len(others) <= ArtifactCacheSize
  BY <1>1, <1>2, <1>3
<1> HIDE DEF others
<1>5. Added(others, c, ArtifactCacheSize) \in Seq(Checksum)
      /\ Len(Added(others, c, ArtifactCacheSize)) <= ArtifactCacheSize
  BY <1>1, <1>2, <1>4, AddedEntry
<1> QED
  BY <1>5 DEF AddArtifact, others

LEMMA WitnessCacheType ==
  ASSUME TypeOK, NEW c \in Checksum, NEW ps \in SUBSET Peer
  PROVE  /\ AddWitnesses(c, ps) \in Seq(Checksum \X SUBSET Peer)
         /\ Len(AddWitnesses(c, ps)) <= WitnessCacheSize
         /\ WitnessesOf(c) \in SUBSET Peer
<1> DEFINE others == Without(witnessCache, WitnessesAt(c))
           entry == <<c, ps>>
           T == Checksum \X SUBSET Peer
<1>1. /\ witnessCache \in Seq(T) /\ Len(witnessCache) <= WitnessCacheSize
      /\ WitnessesAt(c) \in SUBSET DOMAIN witnessCache /\ WitnessCacheSize \in Nat \ {0}
      /\ entry \in T
  BY ProcessAssumption DEF TypeOK, WitnessesAt, ProcessAssumption
<1>2. WitnessesOf(c) \in SUBSET Peer
  <2>1. \A i \in DOMAIN witnessCache : witnessCache[i][2] \in SUBSET Peer
    BY <1>1
  <2> QED
    BY <1>1, <2>1 DEF WitnessesOf
<1> HIDE DEF T, entry
<1>3. others \in Seq(T) /\ Len(others) <= Len(witnessCache)
  BY <1>1, WithoutEntry
<1>4. Len(others) \in Nat /\ Len(witnessCache) \in Nat
  BY <1>1, <1>3
<1>5. Len(others) <= WitnessCacheSize
  BY <1>1, <1>3, <1>4
<1> HIDE DEF others
<1>6. Added(others, entry, WitnessCacheSize) \in Seq(T)
      /\ Len(Added(others, entry, WitnessCacheSize)) <= WitnessCacheSize
  BY <1>1, <1>3, <1>5, AddedEntry
<1> QED
  BY <1>2, <1>6 DEF AddWitnesses, others, entry, T

LEMMA RefreshedType ==
  ASSUME TypeOK, NEW c \in Checksum
  PROVE  /\ Refreshed(c) \in Seq(Checksum \X SUBSET Peer)
         /\ Len(Refreshed(c)) <= WitnessCacheSize
<1>1. WitnessesOf(c) \in SUBSET Peer
  BY WitnessCacheType
<1> QED
  BY <1>1, WitnessCacheType DEF Refreshed, TypeOK

-----------------------------------------------------------------------------
(* Types *)

LEMMA InitType == Init => TypeOK
<1> SUFFICES ASSUME Init PROVE TypeOK
  OBVIOUS
<1>1. /\ <<>> \in Seq(Checksum) /\ <<>> \in Seq(Checksum \X SUBSET Peer) /\ <<>> \in Seq(Stream)
      /\ <<>> \in Seq((Stream \union {None}) \X Checksum) /\ Len(<<>>) = 0
      /\ 0 <= ArtifactCacheSize /\ 0 <= WitnessCacheSize /\ 0 <= QueueSize
  BY ProcessAssumption DEF ProcessAssumption
<1> QED
  BY <1>1 DEF Init, TypeOK, States

LEMMA FinalizeType ==
  ASSUME TypeOK, NEW s \in Stream, Finalize(s)
  PROVE  /\ closer' \in [Stream -> {"empty", "close", "disconnect"}]
         /\ unread' \in [Stream -> BOOLEAN]
BY DEF Finalize, TypeOK

\* What is at the head of a queue, and the queue without it.
LEMMA Heads ==
  ASSUME NEW T, NEW q \in Seq(T), q # <<>>
  PROVE  Head(q) \in T /\ Tail(q) \in Seq(T) /\ Len(Tail(q)) = Len(q) - 1 /\ Len(q) \in Nat
OBVIOUS

LEMMA Appended ==
  ASSUME NEW T, NEW q \in Seq(T), NEW x \in T, NEW size \in Nat \ {0}, Len(q) < size
  PROVE  Append(q, x) \in Seq(T) /\ Len(Append(q, x)) <= size
<1>1. Append(q, x) \in Seq(T) /\ Len(Append(q, x)) = Len(q) + 1 /\ Len(q) \in Nat
  OBVIOUS
<1> QED
  BY <1>1

-----------------------------------------------------------------------------
(* The invariant *)

\* Past its metadata a goroutine knows which artifact it is about.
Announced == \A s \in Stream : pc[s] \notin {"ended", "metadata"} => checksum[s] \in Checksum

\* The artifact of a stream is in one place.
InReceive(s) == \E i \in DOMAIN receive : receive[i] = s
InSend(s) == \E i \in DOMAIN send : send[i][1] = s
InBroadcast(s) == outgoing # None /\ outgoing[1] = s
OnePlace ==
  /\ \A i, j \in DOMAIN receive : receive[i] = receive[j] => i = j
  /\ \A i, j \in DOMAIN send : send[i][1] = send[j][1] /\ send[i][1] # None => i = j
  /\ \A s \in Stream :
       /\ InReceive(s) => s \notin app /\ ~InSend(s) /\ ~InBroadcast(s)
       /\ s \in app => ~InSend(s) /\ ~InBroadcast(s)
       /\ InSend(s) => ~InBroadcast(s)

\* An artifact is closed once its payload was read.
Finalized == \A s \in Stream : pc[s] = "waiting" /\ closer[s] = "close" => ~unread[s]

\* Whoever adds holds the lock, and what is admitted is in the cache.
Locking == \A s \in Stream : pc[s] = "adding" => lock = s
AdmittedCached == \A c \in admitted : Cached(c)

IInv == /\ TypeOK /\ Announced /\ OnePlace /\ OneReader /\ Finalized
        /\ Locking /\ AdmittedCached /\ NoDuplicates

LEMMA InitInv == Init => IInv
<1> SUFFICES ASSUME Init PROVE IInv
  OBVIOUS
<1>1. DOMAIN <<>> = {}
  OBVIOUS
<1> QED
  BY <1>1, InitType DEF Init, IInv, Announced, OnePlace, InReceive, InSend, InBroadcast, OneReader,
     Reading, Finalized, Locking, AdmittedCached, NoDuplicates

LEMMA TypeStep == IInv /\ [Next]_vars => TypeOK'
<1> SUFFICES ASSUME IInv, [Next]_vars PROVE TypeOK'
  OBVIOUS
<1> USE DEF caches, queues, history, States
<1>0. /\ QueueSize \in Nat \ {0} /\ \A s \in Stream : PeerOf[s] \in Peer
      /\ TypeOK /\ Announced /\ OneReader /\ None \notin Stream
  BY ProcessAssumption DEF ProcessAssumption, IInv
<1>1. ASSUME NEW s \in Stream, Start(s) \/ PeerCloses(s) \/ Break(s) \/ CheckCache(s) \/ Discard(s) \/ Wait(s)
      PROVE  TypeOK'
  BY <1>0, <1>1 DEF TypeOK, Start, PeerCloses, Break, CheckCache, Discard, Wait
<1>2. ASSUME NEW s \in Stream, NEW c \in Checksum, ReadMetadata(s, c) PROVE TypeOK'
  BY <1>0, <1>2 DEF TypeOK, ReadMetadata
<1>3. ASSUME NEW s \in Stream, AddToCache(s) PROVE TypeOK'
  <2>1. checksum[s] \in Checksum
    BY <1>0, <1>3 DEF Announced, AddToCache
  <2>2. artifactCache' \in Seq(Checksum) /\ Len(artifactCache') <= ArtifactCacheSize
    BY <1>0, <1>3, <2>1, ArtifactCacheType DEF AddToCache
  <2>3. admitted' \in SUBSET Checksum
    BY <1>0, <1>3, <2>1 DEF AddToCache, Kept, TypeOK
  <2> QED
    BY <1>0, <1>3, <2>2, <2>3 DEF TypeOK, AddToCache
<1>4. ASSUME NEW s \in Stream, UpdateWitnesses(s) PROVE TypeOK'
  <2>1. checksum[s] \in Checksum
    BY <1>0, <1>4 DEF Announced, UpdateWitnesses
  <2>2. WitnessesOf(checksum[s]) \in SUBSET Peer
    BY <1>0, <2>1, WitnessCacheType
  <2>3. witnesses' \in [Stream -> SUBSET Peer]
    BY <1>0, <1>4, <2>2 DEF UpdateWitnesses, TypeOK
  <2>4. witnesses'[s] \union {PeerOf[s]} \in SUBSET Peer
    BY <1>0, <2>3
  <2>5. /\ witnessCache' \in Seq(Checksum \X SUBSET Peer)
        /\ Len(witnessCache') <= WitnessCacheSize
    BY <1>0, <1>4, <2>1, <2>4, WitnessCacheType DEF UpdateWitnesses
  <2>6. forgotten' \in SUBSET Stream
    BY <1>0, <1>4 DEF UpdateWitnesses, EvictedFrom, TypeOK
  <2> QED
    BY <1>0, <1>4, <2>3, <2>5, <2>6 DEF TypeOK, UpdateWitnesses
<1>5. ASSUME NEW s \in Stream, QueueArtifact(s) PROVE TypeOK'
  <2>1. receive' \in Seq(Stream) /\ Len(receive') <= QueueSize
    BY <1>0, <1>5, Appended DEF TypeOK, QueueArtifact
  <2> QED
    BY <1>0, <1>5, <2>1 DEF TypeOK, QueueArtifact
<1>6. ASSUME NEW s \in Stream, ToBytes(s) PROVE TypeOK'
  <2>1. /\ closer' \in [Stream -> {"empty", "close", "disconnect"}]
        /\ unread' \in [Stream -> BOOLEAN]
    BY <1>0, <1>6, FinalizeType DEF ToBytes
  <2> QED
    BY <1>0, <1>6, <2>1 DEF TypeOK, ToBytes
<1>7. ASSUME NEW s \in Stream, Forward(s) PROVE TypeOK'
  <2>1. checksum[s] \in Checksum
    BY <1>0, <1>7 DEF Announced, Forward, OneReader, Reading
  <2>2. send' \in Seq((Stream \union {None}) \X Checksum) /\ Len(send') <= QueueSize
    BY <1>0, <1>7, <2>1, Appended DEF TypeOK, Forward
  <2> QED
    BY <1>0, <1>7, <2>2 DEF TypeOK, Forward
<1>8. ASSUME NEW c \in Checksum, SendOwn(c) PROVE TypeOK'
  <2>1. send' \in Seq((Stream \union {None}) \X Checksum) /\ Len(send') <= QueueSize
    BY <1>0, <1>8, Appended DEF TypeOK, SendOwn
  <2> QED
    BY <1>0, <1>8, <2>1 DEF TypeOK, SendOwn
<1>9. ASSUME TakeReceived PROVE TypeOK'
  <2>1. /\ Head(receive) \in Stream /\ receive' \in Seq(Stream)
        /\ Len(receive') = Len(receive) - 1 /\ Len(receive) \in Nat
    BY <1>0, <1>9, Heads DEF TypeOK, TakeReceived
  <2>2. Len(receive') <= QueueSize
    BY <1>0, <2>1 DEF TypeOK
  <2> QED
    BY <1>0, <1>9, <2>1, <2>2 DEF TypeOK, TakeReceived
<1>10. ASSUME StartBroadcast PROVE TypeOK'
  <2> DEFINE s == Head(send)[1]
             c == Head(send)[2]
  <2>1. /\ Head(send) \in (Stream \union {None}) \X Checksum
        /\ send' \in Seq((Stream \union {None}) \X Checksum)
        /\ Len(send') = Len(send) - 1 /\ Len(send) \in Nat
    BY <1>0, <1>10, Heads DEF TypeOK, StartBroadcast
  <2>2. Len(send') <= QueueSize
    BY <1>0, <2>1 DEF TypeOK
  <2>3. s \in Stream \union {None} /\ c \in Checksum
    BY <2>1
  <2>4. /\ artifactCache' = AddArtifact(c) /\ witnessCache' = Refreshed(c)
        /\ outgoing' = <<s, c, WitnessesOf(c)>> /\ admitted' = Kept(admitted, artifactCache')
        /\ UNCHANGED <<pc, checksum, witnesses, lock, receive, app, closer, unread, closed,
                        seen, forgotten>>
    BY <1>10 DEF StartBroadcast
  <2> HIDE DEF s, c
  <2>5. /\ artifactCache' \in Seq(Checksum) /\ Len(artifactCache') <= ArtifactCacheSize
        /\ witnessCache' \in Seq(Checksum \X SUBSET Peer) /\ Len(witnessCache') <= WitnessCacheSize
        /\ WitnessesOf(c) \in SUBSET Peer
    BY <1>0, <2>3, <2>4, ArtifactCacheType, RefreshedType, WitnessCacheType
  <2>6. outgoing' \in (Stream \union {None}) \X Checksum \X SUBSET Peer
    BY <2>3, <2>4, <2>5
  <2>7. admitted' \in SUBSET Checksum
    BY <1>0, <2>4 DEF Kept, TypeOK
  <2> QED
    BY <1>0, <2>1, <2>2, <2>4, <2>5, <2>6, <2>7 DEF TypeOK
<1>11. ASSUME EndBroadcast PROVE TypeOK'
  <2>1. /\ closer' \in [Stream -> {"empty", "close", "disconnect"}]
        /\ unread' \in [Stream -> BOOLEAN]
    BY <1>0, <1>11, FinalizeType DEF EndBroadcast, TypeOK
  <2> QED
    BY <1>0, <1>11, <2>1 DEF TypeOK, EndBroadcast
<1>12. ASSUME UNCHANGED vars PROVE TypeOK'
  BY <1>0, <1>12 DEF vars, TypeOK
<1> QED
  BY <1>1, <1>2, <1>3, <1>4, <1>5, <1>6, <1>7, <1>8, <1>9, <1>10, <1>11, <1>12 DEF Next

-----------------------------------------------------------------------------
(* What the goroutines know *)

LEMMA AnnouncedStep == IInv /\ [Next]_vars => Announced'
<1> SUFFICES ASSUME IInv, [Next]_vars PROVE Announced'
  OBVIOUS
<1> USE DEF caches, queues, history, Announced
<1>0. TypeOK /\ Announced
  BY DEF IInv
<1>1. ASSUME NEW s \in Stream,
             \/ Start(s) \/ PeerCloses(s) \/ Break(s) \/ CheckCache(s) \/ Discard(s)
             \/ AddToCache(s) \/ UpdateWitnesses(s) \/ QueueArtifact(s) \/ Wait(s)
             \/ ToBytes(s) \/ Forward(s)
      PROVE  Announced'
  BY <1>0, <1>1 DEF TypeOK, Start, PeerCloses, Break, CheckCache, Discard, AddToCache,
     UpdateWitnesses, QueueArtifact, Wait, ToBytes, Forward
<1>2. ASSUME NEW s \in Stream, NEW c \in Checksum, ReadMetadata(s, c) PROVE Announced'
  BY <1>0, <1>2 DEF TypeOK, ReadMetadata
<1>3. ASSUME \/ \E c \in Checksum : SendOwn(c)
             \/ TakeReceived \/ StartBroadcast \/ EndBroadcast \/ UNCHANGED vars
      PROVE  Announced'
  BY <1>0, <1>3 DEF SendOwn, TakeReceived, StartBroadcast, EndBroadcast, vars
<1> QED
  BY <1>1, <1>2, <1>3 DEF Next

LEMMA LockingStep == IInv /\ [Next]_vars => Locking'
<1> SUFFICES ASSUME IInv, [Next]_vars PROVE Locking'
  OBVIOUS
<1> USE DEF caches, queues, history, Locking
<1>0. TypeOK /\ Locking /\ None \notin Stream
  BY ProcessAssumption DEF IInv, ProcessAssumption
<1>1. ASSUME NEW s \in Stream,
             \/ Start(s) \/ PeerCloses(s) \/ Break(s) \/ CheckCache(s) \/ Discard(s)
             \/ AddToCache(s) \/ UpdateWitnesses(s) \/ QueueArtifact(s) \/ Wait(s)
             \/ ToBytes(s) \/ Forward(s)
      PROVE  Locking'
  BY <1>0, <1>1 DEF TypeOK, Start, PeerCloses, Break, CheckCache, Discard, AddToCache,
     UpdateWitnesses, QueueArtifact, Wait, ToBytes, Forward
<1>2. ASSUME NEW s \in Stream, NEW c \in Checksum, ReadMetadata(s, c) PROVE Locking'
  BY <1>0, <1>2 DEF TypeOK, ReadMetadata
<1>3. ASSUME \/ \E c \in Checksum : SendOwn(c)
             \/ TakeReceived \/ StartBroadcast \/ EndBroadcast \/ UNCHANGED vars
      PROVE  Locking'
  BY <1>0, <1>3 DEF SendOwn, TakeReceived, StartBroadcast, EndBroadcast, vars
<1> QED
  BY <1>1, <1>2, <1>3 DEF Next

-----------------------------------------------------------------------------
(* What was admitted is cached *)

LEMMA AdmittedStep == IInv /\ [Next]_vars => AdmittedCached' /\ NoDuplicates'
<1> SUFFICES ASSUME IInv, [Next]_vars PROVE AdmittedCached' /\ NoDuplicates'
  OBVIOUS
<1> USE DEF caches, queues, history, AdmittedCached, NoDuplicates
<1>0. TypeOK /\ AdmittedCached /\ NoDuplicates /\ Locking
  BY DEF IInv
<1>1. ASSUME NEW s \in Stream, CheckCache(s) PROVE AdmittedCached' /\ NoDuplicates'
  <2>1. AdmittedCached'
    BY <1>0, <1>1 DEF CheckCache, Cached, ArtifactAt
  <2>2. pc'[s] = "adding" => checksum[s] \notin admitted
    BY <1>0, <1>1 DEF CheckCache, TypeOK
  <2> QED
    BY <1>0, <1>1, <2>1, <2>2 DEF CheckCache, TypeOK
<1>2. ASSUME NEW s \in Stream, AddToCache(s) PROVE AdmittedCached' /\ NoDuplicates'
  <2>1. AdmittedCached'
    BY <1>2 DEF AddToCache, Kept, Cached, ArtifactAt
  <2>2. \A t \in Stream : pc'[t] # "adding"
    BY <1>0, <1>2 DEF AddToCache, Locking, TypeOK
  <2> QED
    BY <2>1, <2>2
<1>3. ASSUME StartBroadcast PROVE AdmittedCached' /\ NoDuplicates'
  <2>1. admitted' = Kept(admitted, artifactCache') /\ UNCHANGED <<pc, checksum>>
    BY <1>3 DEF StartBroadcast
  <2>2. AdmittedCached'
    BY <2>1 DEF Kept, Cached, ArtifactAt
  <2>3. admitted' \subseteq admitted
    BY <2>1 DEF Kept
  <2> QED
    BY <1>0, <2>1, <2>2, <2>3
<1>4. ASSUME NEW s \in Stream,
             \/ Start(s) \/ PeerCloses(s) \/ Break(s) \/ Discard(s)
             \/ UpdateWitnesses(s) \/ QueueArtifact(s) \/ Wait(s)
             \/ ToBytes(s) \/ Forward(s) \/ \E c \in Checksum : ReadMetadata(s, c)
      PROVE  AdmittedCached' /\ NoDuplicates'
  <2>1. UNCHANGED <<artifactCache, admitted>>
    BY <1>4 DEF Start, PeerCloses, Break, Discard, UpdateWitnesses, QueueArtifact, Wait,
       ToBytes, Forward, ReadMetadata
  <2>2. AdmittedCached'
    BY <1>0, <2>1 DEF Cached, ArtifactAt
  <2>3. \A t \in Stream : pc'[t] = "adding" => pc[t] = "adding" /\ checksum'[t] = checksum[t]
    BY <1>0, <1>4 DEF TypeOK, Start, PeerCloses, Break, Discard, UpdateWitnesses,
       QueueArtifact, Wait, ToBytes, Forward, ReadMetadata
  <2> QED
    BY <1>0, <2>1, <2>2, <2>3
<1>5. ASSUME (\E c \in Checksum : SendOwn(c)) \/ TakeReceived \/ EndBroadcast \/ UNCHANGED vars
      PROVE  AdmittedCached' /\ NoDuplicates'
  <2>1. UNCHANGED <<artifactCache, admitted, pc, checksum>>
    BY <1>5 DEF SendOwn, TakeReceived, EndBroadcast, vars
  <2>2. AdmittedCached'
    BY <1>0, <2>1 DEF Cached, ArtifactAt
  <2> QED
    BY <1>0, <2>1, <2>2
<1> QED
  BY <1>1, <1>2, <1>3, <1>4, <1>5 DEF Next

-----------------------------------------------------------------------------
(* Who reads a stream *)

\* Where the members of a queue are after one was taken or one was added.
LEMMA TailPlaces ==
  ASSUME NEW T, NEW q \in Seq(T), q # <<>>
  PROVE  /\ DOMAIN q = 1 .. Len(q) /\ DOMAIN Tail(q) = 1 .. Len(q) - 1 /\ Len(q) \in Nat \ {0}
         /\ Head(q) = q[1] /\ 1 \in DOMAIN q
         /\ \A i \in DOMAIN Tail(q) : i + 1 \in DOMAIN q /\ i + 1 # 1 /\ Tail(q)[i] = q[i + 1]
OBVIOUS

LEMMA AppendPlaces ==
  ASSUME NEW T, NEW q \in Seq(T), NEW x \in T
  PROVE  /\ DOMAIN q = 1 .. Len(q) /\ Len(q) \in Nat
         /\ DOMAIN Append(q, x) = DOMAIN q \union {Len(q) + 1} /\ Len(q) + 1 \notin DOMAIN q
         /\ Append(q, x)[Len(q) + 1] = x
         /\ \A i \in DOMAIN q : Append(q, x)[i] = q[i]
OBVIOUS

\* While every artifact stays where it is, only the goroutines must be looked at.
LEMMA StaysStep ==
  ASSUME IInv, UNCHANGED queues,
         \A s \in Stream : pc[s] = "waiting" /\ closer[s] = "empty"
                             => pc'[s] = "waiting" /\ closer'[s] = "empty",
         \A s \in Stream : pc'[s] = "metadata" => ~unread'[s],
         \A s \in Stream : pc'[s] = "waiting" /\ closer'[s] = "close" => ~unread'[s]
  PROVE  OnePlace' /\ OneReader' /\ Finalized'
BY DEF queues, IInv, OnePlace, InReceive, InSend, InBroadcast, OneReader, Reading, Finalized
LEMMA ReaderStep == IInv /\ [Next]_vars => OnePlace' /\ OneReader' /\ Finalized'
<1> SUFFICES ASSUME IInv, [Next]_vars PROVE OnePlace' /\ OneReader' /\ Finalized'
  OBVIOUS
<1> USE DEF caches, queues, history
<1>0. /\ TypeOK /\ OnePlace /\ OneReader /\ Finalized
      /\ \A s \in Stream : s # None
      /\ send \in Seq((Stream \union {None}) \X Checksum) /\ receive \in Seq(Stream)
  BY ProcessAssumption DEF IInv, ProcessAssumption, TypeOK
<1>1. ASSUME NEW s \in Stream,
             \/ Start(s) \/ PeerCloses(s) \/ Break(s) \/ CheckCache(s) \/ Discard(s)
             \/ AddToCache(s) \/ UpdateWitnesses(s) \/ Wait(s)
             \/ \E c \in Checksum : ReadMetadata(s, c)
      PROVE  OnePlace' /\ OneReader' /\ Finalized'
  <2>1. UNCHANGED queues
    BY <1>1 DEF Start, PeerCloses, Break, CheckCache, Discard, AddToCache, UpdateWitnesses,
       Wait, ReadMetadata
  <2> DEFINE P == /\ \A t \in Stream : pc[t] = "waiting" /\ closer[t] = "empty"
                                         => pc'[t] = "waiting" /\ closer'[t] = "empty"
                  /\ \A t \in Stream : pc'[t] = "metadata" => ~unread'[t]
                  /\ \A t \in Stream : pc'[t] = "waiting" /\ closer'[t] = "close" => ~unread'[t]
  <2>2. /\ pc \in [Stream -> States] /\ unread \in [Stream -> BOOLEAN]
        /\ closer \in [Stream -> {"empty", "close", "disconnect"}]
        /\ \A t \in Stream : pc[t] = "metadata" => ~unread[t]
        /\ \A t \in Stream : pc[t] = "waiting" /\ closer[t] = "close" => ~unread[t]
    BY <1>0 DEF TypeOK, OneReader, Finalized
  <2>3. ASSUME Start(s) \/ PeerCloses(s) \/ Break(s) PROVE P
    BY <2>2, <2>3 DEF Start, PeerCloses, Break
  <2>4. ASSUME CheckCache(s) \/ AddToCache(s) \/ UpdateWitnesses(s) PROVE P
    BY <2>2, <2>4 DEF CheckCache, AddToCache, UpdateWitnesses
  <2>5. ASSUME Discard(s) \/ Wait(s) PROVE P
    BY <2>2, <2>5 DEF Discard, Wait
  <2>6. ASSUME \E c \in Checksum : ReadMetadata(s, c) PROVE P
    BY <2>2, <2>6 DEF ReadMetadata
  <2>7. P
    BY <1>1, <2>3, <2>4, <2>5, <2>6
  <2> QED
    BY <2>1, <2>7, StaysStep
<1>2. ASSUME NEW s \in Stream, QueueArtifact(s) PROVE OnePlace' /\ OneReader' /\ Finalized'
  <2>1. ~InReceive(s) /\ s \notin app /\ ~InSend(s) /\ ~InBroadcast(s)
    BY <1>0, <1>2 DEF OneReader, Reading, InReceive, InSend, InBroadcast, QueueArtifact
  <2>2. receive' = Append(receive, s) /\ UNCHANGED <<app, send, outgoing, unread>>
    BY <1>2 DEF QueueArtifact
  <2>3. \A t \in Stream : InReceive(t)' <=> InReceive(t) \/ t = s
    BY <1>0, <2>2, AppendPlaces DEF InReceive
  <2>4. \A i, j \in DOMAIN receive' : receive'[i] = receive'[j] => i = j
    BY <1>0, <2>1, <2>2, AppendPlaces DEF InReceive, OnePlace
  <2>5. \A t \in Stream : (InSend(t)' <=> InSend(t)) /\ (InBroadcast(t)' <=> InBroadcast(t))
    BY <2>2 DEF InSend, InBroadcast
  <2>6. OnePlace'
    BY <1>0, <2>1, <2>2, <2>3, <2>4, <2>5 DEF OnePlace
  <2>7. \A t \in Stream : Reading(t)' => Reading(t) \/ t = s
    BY <2>2, <2>3, <2>5 DEF Reading, InReceive, InSend, InBroadcast
  <2>8. OneReader' /\ Finalized'
    BY <1>0, <1>2, <2>2, <2>7 DEF QueueArtifact, OneReader, Finalized, TypeOK
  <2> QED
    BY <2>6, <2>8
<1>3. ASSUME TakeReceived PROVE OnePlace' /\ OneReader' /\ Finalized'
  <2> DEFINE s == Head(receive)
  <2>1. /\ receive # <<>> /\ receive' = Tail(receive) /\ app' = app \union {s}
        /\ UNCHANGED <<pc, send, outgoing, closer, unread>>
    BY <1>3 DEF TakeReceived
  <2>2. s \in Stream /\ InReceive(s)
    BY <1>0, <2>1, TailPlaces, Heads DEF InReceive
  <2>3. /\ \A t \in Stream : InReceive(t)' => InReceive(t) /\ t # s
        /\ \A i, j \in DOMAIN receive' : receive'[i] = receive'[j] => i = j
    BY <1>0, <2>1, TailPlaces DEF InReceive, OnePlace
  <2> HIDE DEF s
  <2>4. \A t \in Stream : (InSend(t)' <=> InSend(t)) /\ (InBroadcast(t)' <=> InBroadcast(t))
    BY <2>1 DEF InSend, InBroadcast
  <2>5. OnePlace'
    BY <1>0, <2>1, <2>2, <2>3, <2>4 DEF OnePlace
  <2>6. \A t \in Stream : Reading(t)' => Reading(t)
    BY <2>1, <2>2, <2>3, <2>4 DEF Reading, InReceive, InSend, InBroadcast
  <2>7. OneReader' /\ Finalized'
    BY <1>0, <2>1, <2>6 DEF OneReader, Finalized
  <2> QED
    BY <2>5, <2>7
<1>4. ASSUME NEW s \in Stream, ToBytes(s) PROVE OnePlace' /\ OneReader' /\ Finalized'
  <2>1. /\ s \in app /\ app' = app \ {s} /\ Finalize(s)
        /\ UNCHANGED <<pc, receive, send, outgoing>>
    BY <1>4 DEF ToBytes
  <2>2. \A t \in Stream : /\ InReceive(t)' <=> InReceive(t)
                          /\ InSend(t)' <=> InSend(t)
                          /\ InBroadcast(t)' <=> InBroadcast(t)
    BY <2>1 DEF InReceive, InSend, InBroadcast
  <2>3. OnePlace'
    BY <1>0, <2>1, <2>2 DEF OnePlace
  <2>4. \A t \in Stream : Reading(t)' => Reading(t) /\ t # s
    BY <1>0, <2>1, <2>2 DEF OnePlace, Reading, InReceive, InSend, InBroadcast
  <2>5. pc[s] = "waiting"
    BY <1>0, <2>1 DEF OneReader, Reading
  <2>6. OneReader' /\ Finalized'
    BY <1>0, <2>1, <2>4, <2>5 DEF OneReader, Finalized, Finalize, TypeOK
  <2> QED
    BY <2>3, <2>6
<1>5. ASSUME NEW s \in Stream, Forward(s) PROVE OnePlace' /\ OneReader' /\ Finalized'
  <2>1. /\ s \in app /\ app' = app \ {s} /\ send' = Append(send, <<s, checksum[s]>>)
        /\ UNCHANGED <<pc, receive, outgoing, closer, unread>>
    BY <1>5 DEF Forward
  <2>2. ~InReceive(s) /\ ~InSend(s) /\ ~InBroadcast(s)
    BY <1>0, <2>1 DEF OnePlace
  <2>3. /\ <<s, checksum[s]>> \in (Stream \union {None}) \X Checksum
    BY <1>0, <2>1 DEF IInv, Announced, OneReader, Reading
  <2>4. /\ \A t \in Stream : InSend(t)' <=> InSend(t) \/ t = s
        /\ \A i, j \in DOMAIN send' : send'[i][1] = send'[j][1] /\ send'[i][1] # None => i = j
    BY <1>0, <2>1, <2>2, <2>3, AppendPlaces DEF InSend, OnePlace
  <2>5. \A t \in Stream : (InReceive(t)' <=> InReceive(t)) /\ (InBroadcast(t)' <=> InBroadcast(t))
    BY <2>1 DEF InReceive, InBroadcast
  <2>6. OnePlace'
    BY <1>0, <2>1, <2>2, <2>4, <2>5 DEF OnePlace
  <2>7. \A t \in Stream : Reading(t)' => Reading(t)
    BY <2>1, <2>4, <2>5 DEF Reading, InReceive, InSend, InBroadcast
  <2>8. OneReader' /\ Finalized'
    BY <1>0, <2>1, <2>7 DEF OneReader, Finalized
  <2> QED
    BY <2>6, <2>8
<1>6. ASSUME NEW c \in Checksum, SendOwn(c) PROVE OnePlace' /\ OneReader' /\ Finalized'
  <2>1. /\ send' = Append(send, <<None, c>>)
        /\ UNCHANGED <<pc, receive, app, outgoing, closer, unread>>
    BY <1>6 DEF SendOwn
  <2>2. <<None, c>> \in (Stream \union {None}) \X Checksum /\ <<None, c>>[1] = None
    OBVIOUS
  <2>3. /\ \A t \in Stream : InSend(t)' <=> InSend(t)
        /\ \A i, j \in DOMAIN send' : send'[i][1] = send'[j][1] /\ send'[i][1] # None => i = j
    BY <1>0, <2>1, <2>2, AppendPlaces DEF InSend, OnePlace
  <2>4. \A t \in Stream : (InReceive(t)' <=> InReceive(t)) /\ (InBroadcast(t)' <=> InBroadcast(t))
    BY <2>1 DEF InReceive, InBroadcast
  <2>5. OnePlace'
    BY <1>0, <2>1, <2>3, <2>4 DEF OnePlace
  <2>6. \A t \in Stream : Reading(t)' => Reading(t)
    BY <2>1, <2>3, <2>4 DEF Reading, InReceive, InSend, InBroadcast
  <2>7. OneReader' /\ Finalized'
    BY <1>0, <2>1, <2>6 DEF OneReader, Finalized
  <2> QED
    BY <2>5, <2>7
<1>7. ASSUME StartBroadcast PROVE OnePlace' /\ OneReader' /\ Finalized'
  <2> DEFINE s == Head(send)[1]
  <2>1. /\ outgoing = None /\ send # <<>> /\ send' = Tail(send)
        /\ outgoing' = <<s, Head(send)[2], WitnessesOf(Head(send)[2])>>
        /\ UNCHANGED <<pc, receive, app, closer, unread>>
    BY <1>7 DEF StartBroadcast
  <2>2. outgoing'[1] = s
    BY <2>1
  <2>3. \A t \in Stream : t = s => InSend(t)
    BY <1>0, <2>1, TailPlaces DEF InSend
  <2>4. /\ \A t \in Stream : InSend(t)' => InSend(t) /\ t # s
        /\ \A i, j \in DOMAIN send' : send'[i][1] = send'[j][1] /\ send'[i][1] # None => i = j
    BY <1>0, <2>1, TailPlaces DEF InSend, OnePlace
  <2> HIDE DEF s
  <2>5. \A t \in Stream : (InReceive(t)' <=> InReceive(t)) /\ (InBroadcast(t)' => t = s)
    BY <2>1, <2>2 DEF InReceive, InBroadcast
  <2>6. OnePlace'
    BY <1>0, <2>1, <2>3, <2>4, <2>5 DEF OnePlace
  <2>7. \A t \in Stream : Reading(t)' => Reading(t)
    BY <2>1, <2>3, <2>4, <2>5 DEF Reading, InReceive, InSend, InBroadcast
  <2>8. OneReader' /\ Finalized'
    BY <1>0, <2>1, <2>7 DEF OneReader, Finalized
  <2> QED
    BY <2>6, <2>8
<1>8. ASSUME EndBroadcast PROVE OnePlace' /\ OneReader' /\ Finalized'
  <2> DEFINE s == outgoing[1]
  <2>1. /\ outgoing # None /\ outgoing' = None /\ UNCHANGED <<pc, receive, app, send>>
        /\ (s \in Stream /\ Finalize(s)) \/ (s = None /\ UNCHANGED <<closer, unread>>)
    BY <1>8 DEF EndBroadcast
  <2>2. \A t \in Stream : (InReceive(t)' <=> InReceive(t)) /\ (InSend(t)' <=> InSend(t)) /\ ~InBroadcast(t)'
    BY <2>1 DEF InReceive, InSend, InBroadcast
  <2>3. OnePlace'
    BY <1>0, <2>1, <2>2 DEF OnePlace
  <2>4. s \in Stream => InBroadcast(s) /\ pc[s] = "waiting"
    BY <1>0, <2>1 DEF InBroadcast, OneReader, Reading
  <2>5. \A t \in Stream : Reading(t)' => Reading(t) /\ t # s
    BY <1>0, <2>1, <2>2, <2>4 DEF OnePlace, Reading, InReceive, InSend, InBroadcast
  <2>6. OneReader' /\ Finalized'
    <3>1. CASE s \in Stream /\ Finalize(s)
      BY <1>0, <2>1, <2>4, <2>5, <3>1 DEF OneReader, Finalized, Finalize, TypeOK
    <3>2. CASE s = None /\ UNCHANGED <<closer, unread>>
      BY <1>0, <2>1, <2>5, <3>2 DEF OneReader, Finalized
    <3> QED
      BY <2>1, <3>1, <3>2
  <2> QED
    BY <2>3, <2>6
<1>9. ASSUME UNCHANGED vars PROVE OnePlace' /\ OneReader' /\ Finalized'
  <2>1. UNCHANGED <<queues, pc, closer, unread>>
    BY <1>9 DEF vars
  <2> QED
    BY <1>0, <2>1, StaysStep DEF OneReader, Finalized
<1> QED
  BY <1>1, <1>2, <1>3, <1>4, <1>5, <1>6, <1>7, <1>8, <1>9 DEF Next

-----------------------------------------------------------------------------
(* Theorems *)

LEMMA InvStep == IInv /\ [Next]_vars => IInv'
<1> SUFFICES ASSUME IInv, [Next]_vars PROVE IInv'
  OBVIOUS
<1> QED
  BY TypeStep, AnnouncedStep, LockingStep, AdmittedStep, ReaderStep DEF IInv

\* IInv holds of every reachable state.
THEOREM ProcessInvariance == SafeSpec => []IInv
BY InitInv, InvStep, PTL DEF SafeSpec

\* Every variable keeps its type, and no cache and no queue outgrows its size.
THEOREM ProcessTypeCorrect == SafeSpec => []TypeOK
<1>1. IInv => TypeOK
  BY DEF IInv
<1> QED
  BY <1>1, ProcessInvariance, PTL

\* The bytes of a stream are read by one goroutine at a time.
THEOREM ReaderAlone == SafeSpec => []OneReader
<1>1. IInv => OneReader
  BY DEF IInv
<1> QED
  BY <1>1, ProcessInvariance, PTL

\* No artifact is delivered twice while the cache keeps it.
THEOREM DeliversOnce == SafeSpec => []NoDuplicates
<1>1. IInv => NoDuplicates
  BY DEF IInv
<1> QED
  BY <1>1, ProcessInvariance, PTL

-----------------------------------------------------------------------------
(* Whom a broadcast spares *)

\* One entry for an artifact; the peer that sent one that is queued is in it,
\* unless it was evicted; an artifact waiting to be sent is the one its stream
\* announced last.
OneEntry == \A i, j \in DOMAIN witnessCache : witnessCache[i][1] = witnessCache[j][1] => i = j
SenderWitnessed ==
  \A s \in Stream : pc[s] \in {"queueing", "waiting"} =>
    PeerOf[s] \in WitnessesOf(checksum[s]) \/ s \in forgotten
SendsAnnounced == \A i \in DOMAIN send : send[i][1] \in Stream => checksum[send[i][1]] = send[i][2]

SInv == OneEntry /\ SenderWitnessed /\ SendsAnnounced /\ SenderSpared

\* The witnesses of an artifact are those of its entry.
LEMMA OneSet ==
  ASSUME OneEntry, NEW i \in DOMAIN witnessCache
  PROVE  WitnessesOf(witnessCache[i][1]) = witnessCache[i][2]
<1>1. WitnessesAt(witnessCache[i][1]) = {i}
  BY DEF OneEntry, WitnessesAt
<1> QED
  BY <1>1 DEF WitnessesOf

\* Besides the new entry, the others stay, or all but the oldest of them if the
\* cache was full and had no entry to replace.
LEMMA AddWitnessesPlaces ==
  ASSUME TypeOK, OneEntry, NEW c \in Checksum, NEW ps \in SUBSET Peer,
         witnessCache' = AddWitnesses(c, ps)
  PROVE  \E n \in DOMAIN witnessCache' :
           /\ witnessCache'[n] = <<c, ps>>
           /\ \A i \in DOMAIN witnessCache' \ {n} : witnessCache'[i][1] # c
           /\ \A i \in DOMAIN witnessCache' \ {n} : \E k \in DOMAIN witnessCache :
                witnessCache'[i] = witnessCache[k]
           /\ \A i, j \in DOMAIN witnessCache' \ {n} :
                witnessCache'[i][1] = witnessCache'[j][1] => i = j
           /\ Witnessed(c) => \A k \in DOMAIN witnessCache : witnessCache[k][1] # c =>
                \E i \in DOMAIN witnessCache' \ {n} : witnessCache'[i] = witnessCache[k]
<1> DEFINE T == Checksum \X SUBSET Peer
           I == WitnessesAt(c)
           others == Without(witnessCache, I)
           entry == <<c, ps>>
           rest == IF Len(others) = WitnessCacheSize THEN Tail(others) ELSE others
           n == Len(rest) + 1
<1>1. /\ witnessCache \in Seq(T) /\ entry \in T /\ WitnessCacheSize \in Nat \ {0}
      /\ Len(witnessCache) <= WitnessCacheSize /\ Len(witnessCache) \in Nat
      /\ I \in SUBSET DOMAIN witnessCache /\ \A i, j \in I : i = j
  BY ProcessAssumption DEF TypeOK, OneEntry, WitnessesAt, ProcessAssumption
<1>2. \A i \in DOMAIN witnessCache : i \in I <=> witnessCache[i][1] = c
  BY DEF WitnessesAt
<1>3. witnessCache' = Append(rest, entry) /\ (Witnessed(c) => I # {})
  BY DEF AddWitnesses, Added, Witnessed
<1> HIDE DEF I, T
<1>4. /\ others \in Seq(T)
      /\ I # {} => Len(others) < Len(witnessCache)
      /\ \A j \in DOMAIN others : Place(I, j) \in DOMAIN witnessCache \ I
                                  /\ others[j] = witnessCache[Place(I, j)]
      /\ \A j, k \in DOMAIN others : Place(I, j) = Place(I, k) => j = k
      /\ \A i \in DOMAIN witnessCache \ I : \E j \in DOMAIN others : Place(I, j) = i
  BY <1>1, WithoutEntry
<1> HIDE DEF others
<1>5. /\ \A j \in DOMAIN others : others[j][1] # c /\ \E k \in DOMAIN witnessCache : others[j] = witnessCache[k]
      /\ \A j, k \in DOMAIN others : others[j][1] = others[k][1] => j = k
      /\ \A k \in DOMAIN witnessCache : witnessCache[k][1] # c =>
           \E j \in DOMAIN others : others[j] = witnessCache[k]
  BY <1>2, <1>4 DEF OneEntry
<1>6. /\ rest \in Seq(T)
      /\ \A j \in DOMAIN rest : rest[j][1] # c /\ \E k \in DOMAIN witnessCache : rest[j] = witnessCache[k]
      /\ \A j, k \in DOMAIN rest : rest[j][1] = rest[k][1] => j = k
  <2>1. CASE Len(others) = WitnessCacheSize
    <3>1. others # <<>> /\ rest = Tail(others)
      BY <1>1, <1>4, <2>1
    <3>2. /\ rest \in Seq(T)
          /\ \A j \in DOMAIN rest : j + 1 \in DOMAIN others /\ rest[j] = others[j + 1] /\ j \in Int
      BY <1>4, <3>1
    <3> QED
      BY <1>5, <3>2
  <2>2. CASE Len(others) # WitnessCacheSize
    BY <1>4, <1>5, <2>2
  <2> QED
    BY <2>1, <2>2
<1>7. Witnessed(c) => rest = others
  BY <1>1, <1>3, <1>4
<1> HIDE DEF entry, rest
<1>8. /\ DOMAIN witnessCache' = DOMAIN rest \union {n} /\ n \notin DOMAIN rest
      /\ witnessCache'[n] = entry
      /\ \A i \in DOMAIN rest : witnessCache'[i] = rest[i]
  BY <1>1, <1>3, <1>6, AppendPlaces
<1> HIDE DEF n
<1>9. DOMAIN witnessCache' \ {n} = DOMAIN rest /\ n \in DOMAIN witnessCache'
  BY <1>8
<1>10. Witnessed(c) => \A k \in DOMAIN witnessCache : witnessCache[k][1] # c =>
         \E i \in DOMAIN rest : witnessCache'[i] = witnessCache[k]
  BY <1>5, <1>7, <1>8
<1>11. witnessCache'[n] = <<c, ps>>
  BY <1>8 DEF entry
<1> QED
  BY <1>6, <1>8, <1>9, <1>10, <1>11

\* The new entry takes the place of the earlier one; the witnesses of another
\* artifact stay what they were or were evicted, and with an entry to replace
\* nothing is evicted.
LEMMA AddWitnessesSets ==
  ASSUME TypeOK, OneEntry, NEW c \in Checksum, NEW ps \in SUBSET Peer,
         witnessCache' = AddWitnesses(c, ps)
  PROVE  /\ OneEntry'
         /\ \A d \in Checksum : IF d = c THEN WitnessesOf(d)' = ps ELSE
              \/ WitnessesOf(d)' = WitnessesOf(d)
              \/ ~Witnessed(c) /\ Witnessed(d) /\ \A i \in DOMAIN witnessCache' : witnessCache'[i][1] # d
<1>1. PICK n \in DOMAIN witnessCache' :
        /\ witnessCache'[n] = <<c, ps>>
        /\ \A i \in DOMAIN witnessCache' \ {n} : witnessCache'[i][1] # c
        /\ \A i \in DOMAIN witnessCache' \ {n} : \E k \in DOMAIN witnessCache :
             witnessCache'[i] = witnessCache[k]
        /\ \A i, j \in DOMAIN witnessCache' \ {n} :
             witnessCache'[i][1] = witnessCache'[j][1] => i = j
        /\ Witnessed(c) => \A k \in DOMAIN witnessCache : witnessCache[k][1] # c =>
             \E i \in DOMAIN witnessCache' \ {n} : witnessCache'[i] = witnessCache[k]
  BY AddWitnessesPlaces
<1>2. witnessCache'[n][1] = c /\ witnessCache'[n][2] = ps
  BY <1>1
<1>3. OneEntry'
  BY <1>1, <1>2 DEF OneEntry
<1>4. ASSUME NEW d, NEW i \in DOMAIN witnessCache', witnessCache'[i][1] = d
      PROVE  WitnessesOf(d)' = witnessCache'[i][2]
  <2>1. {j \in DOMAIN witnessCache' : witnessCache'[j][1] = d} = {i}
    BY <1>3, <1>4 DEF OneEntry
  <2> QED
    BY <2>1 DEF WitnessesOf, WitnessesAt
<1>5. \A d \in Checksum : d = c => WitnessesOf(d)' = ps
  BY <1>2, <1>4
<1>6. ASSUME NEW d \in Checksum \ {c}
      PROVE  \/ WitnessesOf(d)' = WitnessesOf(d)
             \/ ~Witnessed(c) /\ Witnessed(d) /\ \A i \in DOMAIN witnessCache' : witnessCache'[i][1] # d
  <2>1. CASE \E i \in DOMAIN witnessCache' : witnessCache'[i][1] = d
    <3>1. PICK i \in DOMAIN witnessCache' : witnessCache'[i][1] = d
      BY <2>1
    <3>2. PICK k \in DOMAIN witnessCache : witnessCache'[i] = witnessCache[k]
      BY <1>1, <1>2, <1>6, <3>1
    <3>3. WitnessesOf(d)' = witnessCache'[i][2]
      BY <1>4, <3>1
    <3>4. WitnessesOf(d) = witnessCache[k][2]
      BY <3>1, <3>2, OneSet
    <3> QED
      BY <3>2, <3>3, <3>4
  <2>2. CASE ~Witnessed(d) /\ \A i \in DOMAIN witnessCache' : witnessCache'[i][1] # d
    <3>1. WitnessesOf(d) = {}
      BY <2>2 DEF Witnessed, WitnessesOf
    <3>2. WitnessesOf(d)' = {}
      BY <2>2 DEF WitnessesAt, WitnessesOf
    <3> QED
      BY <3>1, <3>2
  <2>3. Witnessed(c) /\ Witnessed(d) => \E i \in DOMAIN witnessCache' : witnessCache'[i][1] = d
    BY <1>1, <1>6 DEF Witnessed, WitnessesAt
  <2> QED
    BY <2>1, <2>2, <2>3
<1> QED
  BY <1>3, <1>5, <1>6

LEMMA InitSpared == Init => SInv
<1> SUFFICES ASSUME Init PROVE SInv
  OBVIOUS
<1>1. DOMAIN <<>> = {} /\ outgoing = None /\ \A s \in Stream : pc[s] = "ended"
  BY DEF Init
<1>2. OneEntry /\ SendsAnnounced
  BY <1>1 DEF Init, OneEntry, SendsAnnounced
<1>3. SenderWitnessed /\ SenderSpared
  BY <1>1 DEF SenderWitnessed, SenderSpared
<1> QED
  BY <1>2, <1>3 DEF SInv

LEMMA SparedStep ==
  ASSUME IInv, IInv', SInv, [Next]_vars
  PROVE  SInv'
<1> USE DEF caches, queues, history
<1>0. /\ TypeOK /\ Announced /\ OneReader /\ SInv /\ \A s \in Stream : s # None /\ PeerOf[s] \in Peer
      /\ send \in Seq((Stream \union {None}) \X Checksum)
  BY ProcessAssumption DEF IInv, ProcessAssumption, TypeOK
<1>1. \A i \in DOMAIN send : send[i][1] \in Stream => pc[send[i][1]] = "waiting"
  BY <1>0 DEF OneReader, Reading
<1>2. ASSUME NEW s \in Stream, UpdateWitnesses(s) PROVE SInv'
  <2> DEFINE c == checksum[s]
             ps == witnesses'[s] \union {PeerOf[s]}
  <2>1. c \in Checksum /\ ps \in SUBSET Peer /\ witnessCache' = AddWitnesses(c, ps)
    <3>1. c \in Checksum /\ witnessCache' = AddWitnesses(c, ps)
      BY <1>0, <1>2 DEF UpdateWitnesses, Announced
    <3>2. witnesses'[s] \in SUBSET Peer
      BY DEF IInv, TypeOK
    <3> QED
      BY <1>0, <3>1, <3>2
  <2>2. Witnessed(c) => WitnessesOf(c) \subseteq ps
    BY <1>0, <1>2 DEF UpdateWitnesses, TypeOK
  <2>3. ~Witnessed(c) => WitnessesOf(c) = {}
    BY DEF Witnessed, WitnessesOf
  <2>4. /\ OneEntry'
        /\ \A d \in Checksum : IF d = c THEN WitnessesOf(d)' = ps ELSE
             \/ WitnessesOf(d)' = WitnessesOf(d)
             \/ Witnessed(d) /\ \A i \in DOMAIN witnessCache' : witnessCache'[i][1] # d
    BY <1>0, <2>1, AddWitnessesSets DEF SInv
  <2>5. /\ UNCHANGED <<checksum, send, outgoing>>
        /\ \A t \in Stream : pc'[t] = "queueing" => t = s \/ pc[t] = "queueing"
        /\ \A t \in Stream : pc'[t] = "waiting" => pc[t] = "waiting"
        /\ pc[s] = "witnessing"
        /\ forgotten' = (forgotten \ {s}) \union EvictedFrom(witnessCache')
    BY <1>0, <1>2 DEF UpdateWitnesses, TypeOK
  <2> HIDE DEF c, ps
  <2>6. PeerOf[s] \in ps /\ checksum[s] = c
    BY DEF c, ps
  <2>7. ASSUME NEW t \in Stream, pc'[t] \in {"queueing", "waiting"}
        PROVE  PeerOf[t] \in WitnessesOf(checksum[t])' \/ t \in forgotten'
    <3>1. CASE t = s
      BY <2>1, <2>4, <2>5, <2>6, <3>1
    <3>2. CASE t # s /\ t \in forgotten
      BY <2>5, <3>2
    <3>3. CASE t # s /\ PeerOf[t] \in WitnessesOf(checksum[t])
      <4>1. checksum[t] \in Checksum
        BY <1>0, <2>5, <2>7, <3>3 DEF Announced
      <4>2. CASE checksum[t] = c
        BY <2>1, <2>2, <2>3, <2>4, <2>5, <3>3, <4>2
      <4>3. CASE WitnessesOf(checksum[t])' = WitnessesOf(checksum[t])
        BY <3>3, <4>3
      <4>4. CASE Witnessed(checksum[t]) /\ \A i \in DOMAIN witnessCache' : witnessCache'[i][1] # checksum[t]
        BY <2>5, <4>4 DEF EvictedFrom
      <4>5. checksum[t] # c =>
              \/ WitnessesOf(checksum[t])' = WitnessesOf(checksum[t])
              \/ Witnessed(checksum[t]) /\ \A i \in DOMAIN witnessCache' : witnessCache'[i][1] # checksum[t]
        BY <2>4, <2>5, <4>1
      <4> QED
        BY <4>2, <4>3, <4>4, <4>5
    <3> QED
      BY <1>0, <2>5, <2>7, <3>1, <3>2, <3>3 DEF SInv, SenderWitnessed
  <2>8. SenderWitnessed'
    BY <2>7 DEF SenderWitnessed
  <2>9. SenderSpared'
    <3>1. \A t \in Stream : outgoing # None /\ outgoing[1] = t => t # s
      BY <1>0, <2>5 DEF OneReader, Reading
    <3> QED
      BY <1>0, <2>5, <3>1 DEF SInv, SenderSpared
  <2> QED
    BY <1>0, <2>4, <2>5, <2>8, <2>9 DEF SInv, SendsAnnounced
<1>3. ASSUME StartBroadcast PROVE SInv'
  <2> DEFINE s == Head(send)[1]
             c == Head(send)[2]
  <2>1. /\ send # <<>> /\ send' = Tail(send) /\ witnessCache' = Refreshed(c)
        /\ outgoing' = <<s, c, WitnessesOf(c)>> /\ UNCHANGED <<pc, checksum, forgotten>>
    BY <1>3 DEF StartBroadcast
  <2>2. /\ s \in Stream \union {None} /\ c \in Checksum
        /\ s \in Stream => pc[s] = "waiting" /\ checksum[s] = c
    BY <1>0, <1>1, <2>1, Heads, TailPlaces DEF SInv, SendsAnnounced
  <2>3. SendsAnnounced'
    BY <1>0, <2>1, TailPlaces DEF SInv, SendsAnnounced
  <2> HIDE DEF s, c
  <2>4. OneEntry' /\ \A d \in Checksum : WitnessesOf(d)' = WitnessesOf(d)
    <3>1. CASE Witnessed(c)
      <4>1. WitnessesOf(c) \in SUBSET Peer
        BY <1>0, <2>2, WitnessCacheType
      <4> QED
        BY <1>0, <2>1, <2>2, <3>1, <4>1, AddWitnessesSets DEF Refreshed, SInv
    <3>2. CASE ~Witnessed(c)
      BY <1>0, <2>1, <3>2 DEF Refreshed, SInv, OneEntry, WitnessesOf, WitnessesAt
    <3> QED
      BY <3>1, <3>2
  <2>5. SenderWitnessed'
    BY <1>0, <2>1, <2>4 DEF SenderWitnessed, SInv, Announced
  <2>6. outgoing'[1] = s /\ outgoing'[3] = WitnessesOf(c)
    BY <2>1
  <2>7. SenderSpared'
    BY <1>0, <2>1, <2>2, <2>6 DEF SenderSpared, SInv, SenderWitnessed
  <2> QED
    BY <2>3, <2>4, <2>5, <2>7 DEF SInv
<1>4. ASSUME UNCHANGED <<witnessCache, forgotten>>,
             \A t \in Stream : pc'[t] \in {"queueing", "waiting"}
                                 => pc[t] \in {"queueing", "waiting"} /\ checksum'[t] = checksum[t],
             \A t \in Stream : pc[t] = "waiting" => checksum'[t] = checksum[t]
      PROVE  OneEntry' /\ SenderWitnessed' /\ (UNCHANGED send => SendsAnnounced')
  BY <1>0, <1>1, <1>4 DEF SInv, OneEntry, SenderWitnessed, WitnessesOf, WitnessesAt, SendsAnnounced
<1>5. ASSUME NEW s \in Stream,
             \/ Start(s) \/ PeerCloses(s) \/ Break(s) \/ CheckCache(s) \/ Discard(s) \/ AddToCache(s)
             \/ QueueArtifact(s) \/ Wait(s) \/ ToBytes(s) \/ \E c \in Checksum : ReadMetadata(s, c)
      PROVE  SInv'
  <2>1. UNCHANGED <<witnessCache, forgotten, send, outgoing>>
    BY <1>5 DEF Start, PeerCloses, Break, CheckCache, Discard, AddToCache, QueueArtifact, Wait,
       ToBytes, ReadMetadata
  <2>2. /\ \A t \in Stream : pc'[t] \in {"queueing", "waiting"}
                               => pc[t] \in {"queueing", "waiting"} /\ checksum'[t] = checksum[t]
        /\ \A t \in Stream : pc[t] = "waiting" => checksum'[t] = checksum[t]
    BY <1>0, <1>5 DEF TypeOK, Start, PeerCloses, Break, CheckCache, Discard, AddToCache,
       QueueArtifact, Wait, ToBytes, ReadMetadata
  <2> QED
    BY <1>0, <1>4, <2>1, <2>2 DEF SInv, SenderSpared
<1>6. ASSUME NEW s \in Stream, Forward(s) PROVE SInv'
  <2>1. send' = Append(send, <<s, checksum[s]>>) /\ UNCHANGED <<witnessCache, forgotten, outgoing, pc, checksum>>
    BY <1>6 DEF Forward
  <2>2. <<s, checksum[s]>> \in (Stream \union {None}) \X Checksum
    BY <1>0, <1>6 DEF Forward, Announced, OneReader, Reading
  <2>3. SendsAnnounced'
    BY <1>0, <2>1, <2>2, AppendPlaces DEF SInv, SendsAnnounced
  <2> QED
    BY <1>0, <1>4, <2>1, <2>3 DEF SInv, SenderSpared
<1>7. ASSUME NEW c \in Checksum, SendOwn(c) PROVE SInv'
  <2>1. send' = Append(send, <<None, c>>) /\ UNCHANGED <<witnessCache, forgotten, outgoing, pc, checksum>>
    BY <1>7 DEF SendOwn
  <2>2. <<None, c>> \in (Stream \union {None}) \X Checksum
    OBVIOUS
  <2>3. SendsAnnounced'
    BY <1>0, <2>1, <2>2, AppendPlaces DEF SInv, SendsAnnounced
  <2> QED
    BY <1>0, <1>4, <2>1, <2>3 DEF SInv, SenderSpared
<1>8. ASSUME TakeReceived \/ EndBroadcast \/ UNCHANGED vars PROVE SInv'
  <2>1. UNCHANGED <<witnessCache, forgotten, pc, checksum, send>> /\ (UNCHANGED outgoing \/ outgoing' = None)
    BY <1>8 DEF TakeReceived, EndBroadcast, vars
  <2> QED
    BY <1>0, <1>4, <2>1 DEF SInv, SenderSpared
<1> QED
  BY <1>2, <1>3, <1>5, <1>6, <1>7, <1>8 DEF Next

\* An artifact is never sent back to the peer it came from, however small the
\* caches, unless its witnesses were evicted since they were updated.
THEOREM SparesSender == SafeSpec => []SenderSpared
<1>1. Init => SInv
  BY InitSpared
<1>2. IInv /\ IInv' /\ SInv /\ [Next]_vars => SInv'
  BY SparedStep
<1>3. SInv => SenderSpared
  BY DEF SInv
<1> QED
  BY <1>1, <1>2, <1>3, ProcessInvariance, PTL DEF SafeSpec
=============================================================================
