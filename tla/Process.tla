------------------------------ MODULE Process ------------------------------
(***************************************************************************)
(* Receiving artifacts: the goroutines of process in p2p/process.go, one   *)
(* for every stream, the caches of artifacts and of witnesses they share   *)
(* with the broadcast goroutine, the receive and send queues, and the      *)
(* channel by which whoever gets an artifact tells its goroutine that the  *)
(* artifact was read (artifact/artifact.go).                               *)
(*                                                                         *)
(* The payload of an artifact is read from the stream by the application,  *)
(* with ToBytes, or by broadcast when the application forwards it.  A list *)
(* of witnesses is the set of its members; the order of a cache is kept.   *)
(***************************************************************************)
EXTENDS Integers, Sequences, FiniteSets

CONSTANTS
  Peer,               \* peer identifiers
  Stream,             \* stream handles; a handle is reused after process ended
  PeerOf,             \* PeerOf[s]: the peer at the other end of stream s
  Checksum,           \* checksums of artifacts
  ArtifactCacheSize,  \* config.ArtifactCacheSize
  WitnessCacheSize,   \* config.WitnessCacheSize
  QueueSize,          \* config.ArtifactQueueSize
  None                \* nobody

ASSUME ProcessAssumption ==
  /\ PeerOf \in [Stream -> Peer]
  /\ ArtifactCacheSize \in Nat \ {0}
  /\ WitnessCacheSize \in Nat \ {0}
  /\ QueueSize \in Nat \ {0}
  /\ None \notin Stream \union Checksum

VARIABLES
  pc,             \* pc[s]: what the goroutine of s does next
  checksum,       \* checksum[s]: the checksum in the metadata it read last
  witnesses,      \* witnesses[s]: its variable of that name, kept between artifacts
  lock,           \* the stream whose goroutine holds artifactCacheLock
  artifactCache,  \* the checksums in the artifact cache, oldest first
  witnessCache,   \* <<checksum, peers>> in the witness cache, oldest first
  receive,        \* the receive queue: streams whose artifact is in it
  app,            \* streams whose artifact the application is holding
  send,           \* the send queue: <<stream or None, checksum>>
  outgoing,       \* <<stream or None, checksum, exclude list>> being broadcast
  closer,         \* closer[s]: what the channel of the artifact of s holds
  unread,         \* unread[s]: the payload announced on s was not read to its end
  closed,         \* closed[s]: the peer closed stream s
  seen,           \* seen[c]: peers that announced c (history)
  admitted,       \* checksums process added, not evicted since (history)
  forgotten       \* streams whose entry of witnesses was evicted since they
                  \* updated it (history)

caches == <<lock, artifactCache, witnessCache>>
queues == <<receive, app, send, outgoing>>
history == <<seen, admitted, forgotten>>
vars == <<pc, checksum, witnesses, caches, queues, closer, unread, closed, history>>

States == {"ended", "metadata", "checking", "adding", "discarding",
           "witnessing", "queueing", "waiting"}

TypeOK ==
  /\ pc \in [Stream -> States]
  /\ checksum \in [Stream -> Checksum \union {None}]
  /\ witnesses \in [Stream -> SUBSET Peer]
  /\ lock \in Stream \union {None}
  /\ artifactCache \in Seq(Checksum) /\ Len(artifactCache) <= ArtifactCacheSize
  /\ witnessCache \in Seq(Checksum \X SUBSET Peer)
  /\ Len(witnessCache) <= WitnessCacheSize
  /\ receive \in Seq(Stream) /\ Len(receive) <= QueueSize
  /\ app \in SUBSET Stream
  /\ send \in Seq((Stream \union {None}) \X Checksum) /\ Len(send) <= QueueSize
  /\ outgoing \in ((Stream \union {None}) \X Checksum \X SUBSET Peer) \union {None}
  /\ closer \in [Stream -> {"empty", "close", "disconnect"}]
  /\ unread \in [Stream -> BOOLEAN]
  /\ closed \in [Stream -> BOOLEAN]
  /\ seen \in [Checksum -> SUBSET Peer]
  /\ admitted \in SUBSET Checksum
  /\ forgotten \in SUBSET Stream

Init ==
  /\ pc = [s \in Stream |-> "ended"]
  /\ checksum = [s \in Stream |-> None]
  /\ witnesses = [s \in Stream |-> {}]
  /\ lock = None
  /\ artifactCache = <<>>
  /\ witnessCache = <<>>
  /\ receive = <<>>
  /\ app = {}
  /\ send = <<>>
  /\ outgoing = None
  /\ closer = [s \in Stream |-> "empty"]
  /\ unread = [s \in Stream |-> FALSE]
  /\ closed = [s \in Stream |-> TRUE]
  /\ seen = [c \in Checksum |-> {}]
  /\ admitted = {}
  /\ forgotten = {}

-----------------------------------------------------------------------------
(* The caches (hashicorp/golang-lru) *)

\* A cache without the entry at the place in I, if there is one.
Without(cache, I) ==
  LET i == CHOOSE k \in I : TRUE IN
  IF I = {} THEN cache
            ELSE [j \in 1 .. Len(cache) - 1 |-> cache[IF j < i THEN j ELSE j + 1]]

\* Add, to a cache that has the others besides: the entry becomes the newest;
\* past size the oldest is evicted.
Added(others, entry, size) ==
  Append(IF Len(others) = size THEN Tail(others) ELSE others, entry)

\* Where c is in the artifact cache.
ArtifactAt(c) == {i \in DOMAIN artifactCache : artifactCache[i] = c}
Cached(c) == ArtifactAt(c) # {}

AddArtifact(c) == Added(Without(artifactCache, ArtifactAt(c)), c, ArtifactCacheSize)

\* The checksums of C that a cache holds.
Kept(C, cache) == {c \in C : \E i \in DOMAIN cache : cache[i] = c}

\* Get: the peers the witness cache has for c, none if there is no entry.
WitnessesAt(c) == {i \in DOMAIN witnessCache : witnessCache[i][1] = c}
Witnessed(c) == WitnessesAt(c) # {}
WitnessesOf(c) == UNION {witnessCache[i][2] : i \in WitnessesAt(c)}

AddWitnesses(c, ps) ==
  Added(Without(witnessCache, WitnessesAt(c)), <<c, ps>>, WitnessCacheSize)

\* The streams whose checksum had an entry and has none in cache.
EvictedFrom(cache) ==
  {s \in Stream : /\ Witnessed(checksum[s])
                  /\ \A i \in DOMAIN cache : cache[i][1] # checksum[s]}

\* Get makes the entry it finds the newest.
Refreshed(c) == IF Witnessed(c) THEN AddWitnesses(c, WitnessesOf(c)) ELSE witnessCache

-----------------------------------------------------------------------------
(* process *)

\* pair or pairHandler starts the goroutine of a new stream.
Start(s) ==
  /\ pc[s] = "ended"
  /\ pc' = [pc EXCEPT ![s] = "metadata"]
  /\ closed' = [closed EXCEPT ![s] = FALSE]
  /\ unread' = [unread EXCEPT ![s] = FALSE]
  /\ witnesses' = [witnesses EXCEPT ![s] = {}]
  /\ UNCHANGED <<checksum, caches, queues, closer, history>>

PeerCloses(s) ==
  /\ ~closed[s]
  /\ closed' = [closed EXCEPT ![s] = TRUE]
  /\ UNCHANGED <<pc, checksum, witnesses, caches, queues, closer, unread, history>>

\* The peer announces an artifact, small enough to be buffered.
ReadMetadata(s, c) ==
  /\ pc[s] = "metadata"
  /\ ~closed[s]
  /\ pc' = [pc EXCEPT ![s] = "checking"]
  /\ checksum' = [checksum EXCEPT ![s] = c]
  /\ unread' = [unread EXCEPT ![s] = TRUE]
  /\ seen' = [seen EXCEPT ![c] = @ \union {PeerOf[s]}]
  /\ UNCHANGED <<witnesses, caches, queues, closer, closed, admitted, forgotten>>

\* No metadata to be had, or an artifact that is too big: process ends.
Break(s) ==
  /\ pc[s] = "metadata"
  /\ pc' = [pc EXCEPT ![s] = "ended"]
  /\ UNCHANGED <<checksum, witnesses, caches, queues, closer, unread, closed, history>>

\* The lock makes the check and the addition one step for the other streams;
\* the broadcast goroutine adds to the cache without it.
CheckCacheUnlocked(s) ==  \* mutated form: the lock is released in between
  /\ pc[s] = "checking"
  /\ lock = None
  /\ pc' = [pc EXCEPT ![s] = IF Cached(checksum[s]) THEN "discarding" ELSE "adding"]
  /\ UNCHANGED <<checksum, witnesses, caches, queues, closer, unread, closed, history>>
CheckCache(s) ==
  /\ pc[s] = "checking"
  /\ lock = None
  /\ \/ /\ Cached(checksum[s])
        /\ pc' = [pc EXCEPT ![s] = "discarding"]
        /\ UNCHANGED lock
     \/ /\ ~Cached(checksum[s])
        /\ pc' = [pc EXCEPT ![s] = "adding"]
        /\ lock' = s
  /\ UNCHANGED <<checksum, witnesses, artifactCache, witnessCache, queues, closer,
                 unread, closed, history>>

\* The payload of an artifact already received is read and thrown away.
DiscardRetries(s) ==  \* mutated form: a failed read is tried again
  /\ pc[s] = "discarding"
  /\ ~closed[s]
  /\ pc' = [pc EXCEPT ![s] = "metadata"]
  /\ unread' = [unread EXCEPT ![s] = FALSE]
  /\ UNCHANGED <<checksum, witnesses, caches, queues, closer, closed, history>>
Discard(s) ==
  /\ pc[s] = "discarding"
  /\ \/ /\ ~closed[s]
        /\ pc' = [pc EXCEPT ![s] = "metadata"]
        /\ unread' = [unread EXCEPT ![s] = FALSE]
     \/ /\ pc' = [pc EXCEPT ![s] = "ended"]
        /\ UNCHANGED unread
  /\ UNCHANGED <<checksum, witnesses, caches, queues, closer, closed, history>>

AddToCache(s) ==
  /\ pc[s] = "adding"
  /\ pc' = [pc EXCEPT ![s] = "witnessing"]
  /\ artifactCache' = AddArtifact(checksum[s])
  /\ admitted' = Kept(admitted \union {checksum[s]}, artifactCache')
  /\ lock' = None
  /\ UNCHANGED <<checksum, witnesses, witnessCache, queues, closer, unread, closed,
                 seen, forgotten>>

\* The variable witnesses keeps its value when the cache has no entry, also the
\* value an earlier artifact of the stream gave it.
UpdateWitnessesAlone(s) ==  \* mutated form: the earlier witnesses are dropped
  LET c == checksum[s] IN
  /\ pc[s] = "witnessing"
  /\ pc' = [pc EXCEPT ![s] = "queueing"]
  /\ witnessCache' = AddWitnesses(c, {PeerOf[s]})
  /\ forgotten' = (forgotten \ {s}) \union EvictedFrom(witnessCache')
  /\ UNCHANGED <<checksum, witnesses, lock, artifactCache, queues, closer, unread,
                 closed, seen, admitted>>
UpdateWitnesses(s) ==
  LET c == checksum[s] IN
  /\ pc[s] = "witnessing"
  /\ pc' = [pc EXCEPT ![s] = "queueing"]
  /\ witnesses' = [witnesses EXCEPT ![s] = IF Witnessed(c) THEN WitnessesOf(c) ELSE @]
  /\ witnessCache' = AddWitnesses(c, witnesses'[s] \union {PeerOf[s]})
  /\ forgotten' = (forgotten \ {s}) \union EvictedFrom(witnessCache')
  /\ UNCHANGED <<checksum, lock, artifactCache, queues, closer, unread, closed,
                 seen, admitted>>

\* The artifact, with a new closer, enters the receive queue unless it is full.
QueueArtifact(s) ==
  /\ pc[s] = "queueing"
  /\ Len(receive) < QueueSize
  /\ pc' = [pc EXCEPT ![s] = "waiting"]
  /\ receive' = Append(receive, s)
  /\ closer' = [closer EXCEPT ![s] = "empty"]
  /\ UNCHANGED <<checksum, witnesses, caches, app, send, outgoing, unread, closed, history>>

WaitIgnored(s) ==  \* mutated form: the outcome is not looked at
  /\ pc[s] = "waiting"
  /\ closer[s] # "empty"
  /\ closer' = [closer EXCEPT ![s] = "empty"]
  /\ pc' = [pc EXCEPT ![s] = "metadata"]
  /\ UNCHANGED <<checksum, witnesses, caches, queues, unread, closed, history>>
Wait(s) ==
  /\ pc[s] = "waiting"
  /\ closer[s] # "empty"
  /\ closer' = [closer EXCEPT ![s] = "empty"]
  /\ pc' = [pc EXCEPT ![s] = IF closer[s] = "close" THEN "metadata" ELSE "ended"]
  /\ UNCHANGED <<checksum, witnesses, caches, queues, unread, closed, history>>

-----------------------------------------------------------------------------
(* The application and the broadcast goroutine *)

\* Receive
TakeReceived ==
  /\ receive # <<>>
  /\ receive' = Tail(receive)
  /\ app' = app \union {Head(receive)}
  /\ UNCHANGED <<pc, checksum, witnesses, caches, send, outgoing, closer, unread,
                 closed, history>>

\* The payload of s is read, then Close is called; or reading it fails, for
\* good if the peer closed the stream, then Disconnect is called.
Finalize(s) ==
  \/ /\ ~closed[s]
     /\ unread' = [unread EXCEPT ![s] = FALSE]
     /\ closer' = [closer EXCEPT ![s] = "close"]
  \/ /\ closer' = [closer EXCEPT ![s] = "disconnect"]
     /\ UNCHANGED unread

\* ToBytes
ToBytes(s) ==
  /\ s \in app
  /\ app' = app \ {s}
  /\ Finalize(s)
  /\ UNCHANGED <<pc, checksum, witnesses, caches, receive, send, outgoing, closed, history>>

\* Send, of an artifact received before or of one the application made.
Forward(s) ==
  /\ s \in app
  /\ Len(send) < QueueSize
  /\ app' = app \ {s}
  /\ send' = Append(send, <<s, checksum[s]>>)
  /\ UNCHANGED <<pc, checksum, witnesses, caches, receive, outgoing, closer, unread,
                 closed, history>>

SendOwn(c) ==
  /\ Len(send) < QueueSize
  /\ send' = Append(send, <<None, c>>)
  /\ UNCHANGED <<pc, checksum, witnesses, caches, receive, app, outgoing, closer,
                 unread, closed, history>>

\* The artifact enters the cache, without the lock, and its witnesses become
\* the exclude list of the broadcast.
StartBroadcast ==
  LET s == Head(send)[1]
      c == Head(send)[2] IN
  /\ outgoing = None
  /\ send # <<>>
  /\ send' = Tail(send)
  /\ artifactCache' = AddArtifact(c)
  /\ witnessCache' = Refreshed(c)
  /\ outgoing' = <<s, c, WitnessesOf(c)>>
  /\ admitted' = Kept(admitted, artifactCache')
  /\ UNCHANGED <<pc, checksum, witnesses, lock, receive, app, closer, unread, closed,
                 seen, forgotten>>

\* All chunks were read, or one could not be read.
EndBroadcast ==
  /\ outgoing # None
  /\ outgoing' = None
  /\ \/ outgoing[1] \in Stream /\ Finalize(outgoing[1])
     \/ outgoing[1] = None /\ UNCHANGED <<closer, unread>>
  /\ UNCHANGED <<pc, checksum, witnesses, caches, receive, app, send, closed, history>>

-----------------------------------------------------------------------------
(* Specification *)

Next ==
  \/ \E s \in Stream :
       \/ Start(s) \/ PeerCloses(s) \/ Break(s) \/ CheckCache(s) \/ Discard(s)
       \/ AddToCache(s) \/ UpdateWitnesses(s) \/ QueueArtifact(s) \/ Wait(s)
       \/ ToBytes(s) \/ Forward(s)
       \/ \E c \in Checksum : ReadMetadata(s, c)
  \/ \E c \in Checksum : SendOwn(c)
  \/ TakeReceived \/ StartBroadcast \/ EndBroadcast

SafeSpec == Init /\ [][Next]_vars

\* The goroutines, where they cannot be held up for ever.  Nothing bounds a read
\* of metadata or payload from a stream that stays open, by process, by broadcast
\* or by the application; from a stream that was closed it fails.
process(s) ==
  \/ CheckCache(s) \/ AddToCache(s) \/ UpdateWitnesses(s) \/ QueueArtifact(s) \/ Wait(s)
  \/ closed[s] /\ (Break(s) \/ Discard(s))
activateBroadcast ==
  \/ StartBroadcast
  \/ outgoing # None /\ (outgoing[1] = None \/ closed[outgoing[1]]) /\ EndBroadcast

\* Goroutines run, and those waiting for the lock or for room in a queue get it
\* in the end.  The application takes an artifact when it holds none, and forwards
\* or finalizes it, which may have to wait for room in the send queue.
Fairness ==
  /\ \A s \in Stream :
       /\ SF_vars(process(s))
       /\ SF_vars(closed[s] /\ Len(send) < QueueSize /\ (ToBytes(s) \/ Forward(s)))
  /\ WF_vars(activateBroadcast)
  /\ WF_vars(app = {} /\ TakeReceived)

Spec == SafeSpec /\ Fairness

-----------------------------------------------------------------------------
(* Properties *)

\* Whoever has the artifact of stream s and has not finalized it.
Reading(s) ==
  \/ \E i \in DOMAIN receive : receive[i] = s
  \/ s \in app
  \/ \E i \in DOMAIN send : send[i][1] = s
  \/ outgoing # None /\ outgoing[1] = s

\* The bytes of a stream are read by one goroutine at a time, and process reads
\* metadata only where a payload ended: while an artifact waits in a queue or
\* is held by the application or by broadcast, its goroutine waits with it.
OneReader ==
  \A s \in Stream :
    /\ Reading(s) => pc[s] = "waiting" /\ closer[s] = "empty"
    /\ pc[s] = "metadata" => ~unread[s]

\* An artifact is never sent back to the peer it came from, however often it
\* is received again meanwhile (the order of process: witnesses first, then the
\* receive queue), unless the witness cache evicted its witnesses on the way.
SenderSpared ==
  \A s \in Stream :
    outgoing # None /\ outgoing[1] = s => PeerOf[s] \in outgoing[3] \/ s \in forgotten

\* No artifact is delivered twice, though several streams announce it at the
\* same time and broadcast fills the cache meanwhile: process never adds one
\* that it added before and that the cache has kept (TestDuplication).
NoDuplicates == \A s \in Stream : pc[s] = "adding" => checksum[s] \notin admitted

\* What the comment in broadcast says: the metadata goes to those who have not
\* seen the artifact, so that only peers that have seen it are excluded.
ExcludedHaveSeen == outgoing # None => outgoing[3] \subseteq seen[outgoing[2]]

\* process ends once its peer closed the stream, whatever it was doing and
\* however full the queues are, and the stream is then removed from the store,
\* provided that no payload is awaited for ever from a stream that stays open:
\* that read has no timeout, all artifacts behind it wait, and the goroutines of
\* their streams with them, those of closed streams included.
Awaited(s) == (s \in app \/ (outgoing # None /\ outgoing[1] = s)) /\ ~closed[s]
ProcessEnds ==
  (\A s \in Stream : []<>~Awaited(s)) => \A s \in Stream : closed[s] ~> (pc[s] = "ended")
=============================================================================
