----------------------------- MODULE Broadcast -----------------------------
(***************************************************************************)
(* The broadcast goroutine of p2p/broadcast.go on top of the stream store: *)
(* artifacts go out one after the other, each as one transaction for its   *)
(* metadata and one for every chunk, and the query of a chunk waits for    *)
(* the result of the previous one before it writes.  Transactions of an    *)
(* artifact may still be queued when the next artifact begins.             *)
(*                                                                         *)
(* Streamstore's actions are used as they are, its queries given their     *)
(* meaning.  The environment adds and removes streams at any time.         *)
(***************************************************************************)
EXTENDS Streamstore

CONSTANTS
  Artifacts,   \* bound of the model: how many artifacts are sent
  Chunks,      \* transactions per artifact: the metadata and the chunks of data
  Witnesses    \* the exclude lists an artifact may come with

Last == Chunks - 1

ASSUME BroadcastAssumption ==
  /\ Artifacts \in Nat
  /\ Chunks \in Nat \ {0}
  /\ Tx = (1 .. Artifacts) \X (0 .. Last)
  /\ Witnesses \subseteq SUBSET Peer

VARIABLES
  sender,      \* what the broadcast goroutine is at
  art,         \* the artifact it is sending, or sent last
  chunk,       \* the transaction of that artifact it is at
  exclude,     \* exclude[a]: the witnesses of artifact a
  collecting,  \* <<artifact, peer>> of the goroutines waiting for a last result
  last,        \* last[s]: the frame written last to stream s, or None
  received     \* received[p]: the frames written to streams of p

senderVars == <<sender, art, chunk, exclude>>
wireVars == <<last, received>>
broadcastVars == <<senderVars, collecting, wireVars>>
allVars == <<vars, broadcastVars>>

BroadcastTypeOK ==
  /\ sender \in {"idle", "sending", "stopped"}
  /\ art \in 0 .. Artifacts
  /\ chunk \in 0 .. Last
  /\ exclude \in [1 .. Artifacts -> SUBSET Peer]
  /\ collecting \in SUBSET ((1 .. Artifacts) \X Peer)
  /\ last \in [Stream -> Tx \union {None}]
  /\ received \in [Peer -> SUBSET Tx]

BroadcastInit ==
  /\ Init
  /\ sender = "idle"
  /\ art = 0
  /\ chunk = 0
  /\ exclude = [a \in 1 .. Artifacts |-> {}]
  /\ collecting = {}
  /\ last = [s \in Stream |-> None]
  /\ received = [p \in Peer |-> {}]

-----------------------------------------------------------------------------
(* The broadcast goroutine *)

\* An artifact is taken from the send queue; its witnesses are excluded.
TakeArtifact ==
  /\ sender = "idle"
  /\ art < Artifacts
  /\ sender' = "sending"
  /\ art' = art + 1
  /\ chunk' = 0
  /\ \E w \in Witnesses : exclude' = [exclude EXCEPT ![art'] = w]
  /\ UNCHANGED <<vars, collecting, wireVars>>

StopSender ==
  /\ sender = "idle"
  /\ sender' = "stopped"
  /\ UNCHANGED <<vars, art, chunk, exclude, collecting, wireVars>>

\* The metadata, or the chunk just read, is handed to the stream store, which
\* asks for a new recommendation every time.
ApplyChunkToAll ==  \* mutated form: the exclude list is left out
  /\ sender = "sending"
  /\ Apply(<<art, chunk>>, {})
  /\ UNCHANGED broadcastVars
ApplyChunk ==
  /\ sender = "sending"
  /\ Apply(<<art, chunk>>, exclude[art])
  /\ UNCHANGED broadcastVars

ChunkApplied == sender = "sending" /\ phase[<<art, chunk>>] = "returned"

NextChunk ==
  /\ ChunkApplied
  /\ chunk < Last
  /\ chunk' = chunk + 1
  /\ UNCHANGED <<vars, sender, art, exclude, collecting, wireVars>>

\* The next chunk cannot be read: the artifact is given up, and nobody waits
\* for the results so far.
ReadFails ==
  /\ ChunkApplied
  /\ chunk < Last
  /\ sender' = "idle"
  /\ UNCHANGED <<vars, art, chunk, exclude, collecting, wireVars>>

\* One goroutine for every result of the last chunk.
FinishArtifact ==
  /\ ChunkApplied
  /\ chunk = Last
  /\ sender' = "idle"
  /\ collecting' = collecting \union
                     {<<art, p>> : p \in {q \in Peer : result[<<art, chunk>>][q] # "none"}}
  /\ UNCHANGED <<vars, art, chunk, exclude, wireVars>>

\* Such a goroutine removes a peer that failed to receive the artifact.
CollectLast(a, p) ==
  LET outcome == result[<<a, Last>>][p] IN
  /\ <<a, p>> \in collecting
  /\ outcome # "pending"
  /\ collecting' = collecting \ {<<a, p>>}
  /\ \/ outcome = "ok" /\ UNCHANGED vars
     \/ outcome # "ok" /\ Remove(p)
  /\ UNCHANGED <<senderVars, wireVars>>

-----------------------------------------------------------------------------
(* The queries the workers run *)

\* What the query finds of the previous transaction of the same artifact for
\* peer p; metadata has none and is written without a condition.
PreviousOfLoop(t, p) ==  \* mutated form: errors[i-1] is read when i has moved on
  IF t[2] = 0 THEN "ok" ELSE result[t][p]
Previous(t, p) == IF t[2] = 0 THEN "ok" ELSE result[<<t[1], t[2] - 1>>][p]

\* The write succeeds only on a stream that is not closed.
QueryWritesAnyway(s) ==  \* mutated form: the previous error is not looked at
  LET t == worker[s]
      p == owner[s] IN
  /\ t # None
  /\ open[s]
  /\ Previous(t, p) \in {"ok", "error", "full"}
  /\ FinishTx(s, "ok")
  /\ last' = [last EXCEPT ![s] = t]
  /\ received' = [received EXCEPT ![p] = @ \union {t}]
  /\ UNCHANGED <<senderVars, collecting>>
QueryWrites(s) ==
  LET t == worker[s]
      p == owner[s] IN
  /\ t # None
  /\ open[s]
  /\ Previous(t, p) = "ok"
  /\ FinishTx(s, "ok")
  /\ last' = [last EXCEPT ![s] = t]
  /\ received' = [received EXCEPT ![p] = @ \union {t}]
  /\ UNCHANGED <<senderVars, collecting>>

\* The write times out, but its goroutine goes on and the frame still goes out,
\* before any later frame of the stream: the stream takes writes one by one.
QueryTimesOut(s) ==
  LET t == worker[s]
      p == owner[s] IN
  /\ t # None
  /\ open[s]
  /\ Previous(t, p) = "ok"
  /\ FinishTx(s, "error")
  /\ last' = [last EXCEPT ![s] = t]
  /\ received' = [received EXCEPT ![p] = @ \union {t}]
  /\ UNCHANGED <<senderVars, collecting>>

\* The write fails, or the previous transaction had failed.
QueryFailsWritten(s) ==  \* mutated form: a refused transaction has no result
  /\ worker[s] # None
  /\ Previous(worker[s], owner[s]) \in {"ok", "error"}
  /\ FinishTx(s, "error")
  /\ UNCHANGED broadcastVars
QueryFails(s) ==
  /\ worker[s] # None
  /\ Previous(worker[s], owner[s]) \in {"ok", "error", "full"}
  /\ FinishTx(s, "error")
  /\ UNCHANGED broadcastVars

\* The peer was not asked for the previous transaction: the query writes
\* nothing and reports success.
QuerySkips(s) ==
  /\ worker[s] # None
  /\ Previous(worker[s], owner[s]) = "none"
  /\ FinishTx(s, "ok")
  /\ UNCHANGED broadcastVars

\* A query whose predecessor is "pending" waits for it.
Query(s) == QueryWrites(s) \/ QueryTimesOut(s) \/ QueryFails(s) \/ QuerySkips(s)

-----------------------------------------------------------------------------
(* The streams *)

AddStream ==
  \E p \in Peer, dir \in BOOLEAN :
    \/ AddRejected(p, dir) /\ UNCHANGED broadcastVars
    \/ \E s \in Stream : /\ AddAccepted(p, s, dir)
                         /\ last' = [last EXCEPT ![s] = None]
                         /\ UNCHANGED <<senderVars, collecting, received>>

\* The steps of the store itself.
StoreStep ==
  /\ \/ \E p \in Peer : AddReturns(p) \/ Remove(p)
     \/ \E t \in Tx : ApplyStart(t) \/ ApplyReturns(t)
     \/ \E t \in Tx, p \in Peer, s \in Stream \union {None} : QueueTx(t, p, s)
     \/ \E s \in Stream : TakeTx(s) \/ WorkerExit(s)
  /\ UNCHANGED broadcastVars

-----------------------------------------------------------------------------
(* Specification *)

BroadcastNext ==
  \/ TakeArtifact \/ StopSender
  \/ ApplyChunk \/ NextChunk \/ ReadFails \/ FinishArtifact
  \/ \E a \in 1 .. Artifacts, p \in Peer : CollectLast(a, p)
  \/ \E s \in Stream : Query(s)
  \/ AddStream
  \/ StoreStep

BroadcastSafeSpec == BroadcastInit /\ [][BroadcastNext]_allVars

\* The goroutine is in io.ReadFull.  Nothing bounds that read when the artifact is
\* one that is forwarded and its payload still to come from a peer's stream.
AwaitsPayload == ChunkApplied /\ chunk < Last

\* As for the store; the goroutines of the broadcast run, but for that read, and a
\* query ends once the one it waits for has ended.
BroadcastFairness ==
  /\ StoreFairness
  /\ \A s \in Stream : WF_allVars(Query(s))
  /\ WF_allVars(ApplyChunk \/ FinishArtifact)

BroadcastSpec == BroadcastSafeSpec /\ BroadcastFairness

-----------------------------------------------------------------------------
(* Properties *)

\* Frame t comes before frame u.
Before(t, u) == t[1] < u[1] \/ (t[1] = u[1] /\ t[2] < u[2])

\* Frames go out on a stream in the order of artifacts and chunks, none twice,
\* though every frame is queued by a goroutine of its own and artifacts overlap.
FramesInOrder ==
  [][\A s \in Stream :
       last'[s] # last[s] /\ last'[s] # None /\ last[s] # None
         => Before(last[s], last'[s])]_allVars

\* The worker of s waits for the result of an earlier transaction.
Waits(s) == worker[s] # None /\ Previous(worker[s], owner[s]) = "pending"

\* Queries receive from one another's result channels without a timeout, and
\* transactions queue up behind them, on several workers of one peer when its stream
\* is replaced: wherever an answer is owed, some worker of that peer can go on.
NoCircularWait ==
  \A p \in Peer :
    (\E t \in Tx : result[t][p] = "pending") =>
      \E s \in Stream : /\ owner[s] = p /\ ~Waits(s)
                        /\ worker[s] # None \/ queue[s] # <<>>

\* A peer asked for every transaction of an artifact up to a chunk it received
\* also received all of them: a failed, refused or lost chunk stops those after
\* it, through every replacement of the peer's stream.
NoGapIfAsked ==
  \A p \in Peer : \A t \in received[p] :
    (\A i \in 0 .. t[2] : result[<<t[1], i>>][p] # "none")
      => \A i \in 0 .. t[2] : <<t[1], i>> \in received[p]

\* No witness of an artifact receives any of it, from its own or a later place
\* in the queue of its stream.
WitnessesSpared ==
  \A p \in Peer : \A t \in received[p] : p \notin exclude[t[1]]

\* Every artifact taken from the send queue is done with, unless its payload is
\* awaited for ever: the stream store never holds the broadcast up, whatever
\* becomes of the peers that the artifact is sent to.
ArtifactsEnd == []<>~AwaitsPayload => ((sender = "sending") ~> (sender # "sending"))
=============================================================================
