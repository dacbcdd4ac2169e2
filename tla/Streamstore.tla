---------------------------- MODULE Streamstore ----------------------------
(***************************************************************************)
(* The stream store of streamstore/streamstore.go: the map from peers to   *)
(* stream contexts, the worker goroutine of every context, the buffered    *)
(* transaction queue between them, the store's lock, and the routing table *)
(* kept beside the map.                                                    *)
(*                                                                         *)
(* The lock is explicit only where an operation gives other goroutines     *)
(* something to see while it holds it: during the latency probe of Add and *)
(* during the fan-out of apply.  Remove and Purge are one step each.       *)
(*                                                                         *)
(* The callers are the environment: Add, Remove, Purge, Apply and ApplyAll *)
(* may be called at any time with any argument.  Of the routing table only *)
(* the set of known peers is kept; module RoutingTable has the rest.       *)
(***************************************************************************)
EXTENDS Integers, Sequences, FiniteSets

CONSTANTS
  Peer,              \* peer identifiers
  Stream,            \* stream handles; a handle is reused once its worker ended
  Tx,                \* transactions; one per concurrent call of Apply, reused
  InboundCapacity,   \* inboundCapacity
  OutboundCapacity,  \* outboundCapacity
  TxQueueSize,       \* txQueueSize, the buffer of every transaction queue
  None               \* no stream, no transaction, nobody

\* config.validate refuses sizes that are not positive.
ASSUME StoreAssumption ==
  /\ IsFiniteSet(Peer)
  /\ InboundCapacity \in Nat \ {0}
  /\ OutboundCapacity \in Nat \ {0}
  /\ TxQueueSize \in Nat \ {0}
  /\ None \notin Peer \union Stream \union Tx
  /\ Peer \intersect Tx = {}

VARIABLES
  lock,      \* the peer whose Add, or the transaction whose apply, holds the lock
  peers,     \* peers[p]: the stream registered for p, or None
  owner,     \* owner[s]: the peer whose worker goroutine serves s, or None
  outbound,  \* outbound[s]: the direction s was added with
  open,      \* open[s]: neither the queue nor the stream of s has been closed
  queue,     \* queue[s]: transactions waiting for the worker of s
  worker,    \* worker[s]: the transaction the worker of s is running, or None
  table,     \* the peers in the routing table
  phase,     \* phase[t]: how far the call that runs transaction t is
  picked,    \* picked[t]: the peers chosen before the lock was taken
  sends,     \* sends[t]: <<peer, context>> of the goroutines still to queue t
  result     \* result[t][p]: the result channel of p in the map of t

storeVars == <<peers, owner, outbound, open, table>>
workVars  == <<queue, worker>>
txVars    == <<phase, picked, sends, result>>
vars == <<lock, storeVars, workVars, txVars>>

Phases  == {"idle", "picked", "sending", "returned"}
\* "none": no channel; "pending": an empty channel; the rest: the value in it.
Results == {"none", "pending", "ok", "error", "full"}

TypeOK ==
  /\ lock \in Peer \union Tx \union {None}
  /\ peers \in [Peer -> Stream \union {None}]
  /\ owner \in [Stream -> Peer \union {None}]
  /\ outbound \in [Stream -> BOOLEAN]
  /\ open \in [Stream -> BOOLEAN]
  /\ queue \in [Stream -> Seq(Tx)]
  /\ \A s \in Stream : Len(queue[s]) <= TxQueueSize
  /\ worker \in [Stream -> Tx \union {None}]
  /\ table \in SUBSET Peer
  /\ phase \in [Tx -> Phases]
  /\ picked \in [Tx -> SUBSET Peer]
  /\ sends \in [Tx -> SUBSET (Peer \X (Stream \union {None}))]
  /\ result \in [Tx -> [Peer -> Results]]

NoResults == [p \in Peer |-> "none"]

Init ==
  /\ lock = None
  /\ peers = [p \in Peer |-> None]
  /\ owner = [s \in Stream |-> None]
  /\ outbound = [s \in Stream |-> FALSE]
  /\ open = [s \in Stream |-> FALSE]
  /\ queue = [s \in Stream |-> <<>>]
  /\ worker = [s \in Stream |-> None]
  /\ table = {}
  /\ phase = [t \in Tx |-> "idle"]
  /\ picked = [t \in Tx |-> {}]
  /\ sends = [t \in Tx |-> {}]
  /\ result = [t \in Tx |-> NoResults]

-----------------------------------------------------------------------------
(* Reading the map *)

\* The peers of map m whose registered stream has direction dir.
Having(m, dir) == {p \in Peer : m[p] # None /\ outbound[m[p]] = dir}

inboundSize(m) == Cardinality(Having(m, FALSE))
outboundSize(m) == Cardinality(Having(m, TRUE))

-----------------------------------------------------------------------------
(* Changing the map: Add, Remove, Purge *)

\* What is still open once the contexts registered for the peers in P are
\* closed, queue and stream.
StillOpenLeaking(P) == open  \* mutated form: forgotten without being closed
StillOpen(P) == [s \in Stream |-> open[s] /\ ~ \E p \in P : peers[p] = s]

\* The capacity test of Add on the map m without the peer's previous context.
HasRoomOffByOne(m, dir) ==  \* mutated form
  /\ dir => outboundSize(m) <= OutboundCapacity
  /\ ~dir => inboundSize(m) <= InboundCapacity
HasRoom(m, dir) ==
  /\ dir => outboundSize(m) < OutboundCapacity
  /\ ~dir => inboundSize(m) < InboundCapacity

Without(p) == [peers EXCEPT ![p] = None]

\* Add finds no room: the previous context of p is gone all the same, and p
\* stays in the routing table.
AddRejected(p, dir) ==
  /\ lock = None
  /\ ~HasRoom(Without(p), dir)
  /\ open' = StillOpen({p})
  /\ peers' = Without(p)
  /\ UNCHANGED <<lock, owner, outbound, table, workVars, txVars>>

\* Add registers stream s and starts its worker; the lock is kept while the
\* routing table probes the latency of p.
AddAccepted(p, s, dir) ==
  /\ lock = None
  /\ owner[s] = None
  /\ HasRoom(Without(p), dir)
  /\ open' = [StillOpen({p}) EXCEPT ![s] = TRUE]
  /\ peers' = [peers EXCEPT ![p] = s]
  /\ owner' = [owner EXCEPT ![s] = p]
  /\ outbound' = [outbound EXCEPT ![s] = dir]
  /\ lock' = p
  /\ UNCHANGED <<table, workVars, txVars>>

\* The probe ends.  A peer already known is not probed; one whose probe fails
\* is not entered in the routing table, and its stream stays registered.
AddReturns(p) ==
  /\ lock = p
  /\ lock' = None
  /\ \/ table' = table \union {p}
     \/ p \notin table /\ UNCHANGED table
  /\ UNCHANGED <<peers, owner, outbound, open, workVars, txVars>>

Remove(p) ==
  /\ lock = None
  /\ open' = StillOpen({p})
  /\ peers' = Without(p)
  /\ table' = table \ {p}
  /\ UNCHANGED <<lock, owner, outbound, workVars, txVars>>

\* Purge leaves the routing table alone.
Purge ==
  /\ lock = None
  /\ open' = StillOpen(Peer)
  /\ peers' = [p \in Peer |-> None]
  /\ UNCHANGED <<lock, owner, outbound, table, workVars, txVars>>

-----------------------------------------------------------------------------
(* Applying a function to streams: Apply, ApplyAll, apply *)

\* int(math.Sqrt(float64(InboundCapacity + OutboundCapacity)))
Fanout == CHOOSE n \in 0 .. (InboundCapacity + OutboundCapacity) :
  /\ n * n <= InboundCapacity + OutboundCapacity
  /\ (n + 1) * (n + 1) > InboundCapacity + OutboundCapacity

Pick(t, sel) ==
  /\ phase[t] = "idle"
  /\ phase' = [phase EXCEPT ![t] = "picked"]
  /\ picked' = [picked EXCEPT ![t] = sel]
  /\ UNCHANGED <<lock, storeVars, workVars, sends, result>>

\* Apply asks the routing table before it takes the lock: what it is told may
\* be out of date when the lock is granted.
Apply(t, exclude) ==
  \E sel \in SUBSET (table \ exclude) :
    Cardinality(sel) <= Fanout /\ Pick(t, sel)

\* ApplyAll reads the map without the lock.
ApplyAll(t, exclude) == Pick(t, {p \in Peer : peers[p] # None} \ exclude)

\* apply takes the lock and starts one goroutine per peer, with the context the
\* map has for the peer: the zero context, whose queue is nil, if there is none.
ApplyStart(t) ==
  /\ phase[t] = "picked"
  /\ lock = None
  /\ lock' = t
  /\ phase' = [phase EXCEPT ![t] = "sending"]
  /\ picked' = [picked EXCEPT ![t] = {}]
  /\ sends' = [sends EXCEPT ![t] = {<<p, peers[p]>> : p \in picked[t]}]
  /\ UNCHANGED <<storeVars, workVars, result>>

\* A send on queue s would not block: false for the nil queue of no context.
WouldAccept(s) == s # None /\ Len(queue[s]) < TxQueueSize

Accept(t, p, s) ==
  /\ queue' = [queue EXCEPT ![s] = Append(@, t)]
  /\ result' = [result EXCEPT ![t][p] = "pending"]

\* One of apply's goroutines: makes the result channel of p, then queues the
\* transaction or records that it could not.
QueueTxBlocking(t, p, s) ==  \* mutated form: a plain send, without default
  /\ <<p, s>> \in sends[t]
  /\ sends' = [sends EXCEPT ![t] = @ \ {<<p, s>>}]
  /\ WouldAccept(s) /\ Accept(t, p, s)
  /\ UNCHANGED <<lock, storeVars, worker, phase, picked>>
QueueTx(t, p, s) ==
  /\ <<p, s>> \in sends[t]
  /\ sends' = [sends EXCEPT ![t] = @ \ {<<p, s>>}]
  /\ \/ WouldAccept(s) /\ Accept(t, p, s)
     \/ /\ ~WouldAccept(s)
        /\ result' = [result EXCEPT ![t][p] = "full"]
        /\ UNCHANGED queue
  /\ UNCHANGED <<lock, storeVars, worker, phase, picked>>

\* group.Wait is over: apply releases the lock and returns the map of results.
ApplyReturnsEarly(t) ==  \* mutated form: without group.Wait
  /\ phase[t] = "sending"
  /\ lock' = None
  /\ phase' = [phase EXCEPT ![t] = "returned"]
  /\ UNCHANGED <<storeVars, workVars, picked, sends, result>>
ApplyReturns(t) ==
  /\ phase[t] = "sending"
  /\ sends[t] = {}
  /\ lock' = None
  /\ phase' = [phase EXCEPT ![t] = "returned"]
  /\ UNCHANGED <<storeVars, workVars, picked, sends, result>>

\* The caller has received from every channel and drops the map.
Collect(t) ==
  /\ phase[t] = "returned"
  /\ \A p \in Peer : result[t][p] # "pending"
  /\ phase' = [phase EXCEPT ![t] = "idle"]
  /\ result' = [result EXCEPT ![t] = NoResults]
  /\ UNCHANGED <<lock, storeVars, workVars, picked, sends>>

-----------------------------------------------------------------------------
(* The worker goroutine of a context *)

\* A closed queue still yields what was queued before it was closed.
TakeTx(s) ==
  /\ owner[s] # None
  /\ worker[s] = None
  /\ queue[s] # <<>>
  /\ worker' = [worker EXCEPT ![s] = Head(queue[s])]
  /\ queue' = [queue EXCEPT ![s] = Tail(@)]
  /\ UNCHANGED <<lock, storeVars, txVars>>

\* The query returned err; the send on the result channel, of capacity one,
\* blocks unless the channel is empty.
FinishTx(s, err) ==
  LET t == worker[s] IN
  /\ t # None
  /\ result[t][owner[s]] = "pending"
  /\ result' = [result EXCEPT ![t][owner[s]] = err]
  /\ worker' = [worker EXCEPT ![s] = None]
  /\ UNCHANGED <<lock, storeVars, queue, phase, picked, sends>>

\* The worker ends when its queue is closed and empty.
WorkerExitUndrained(s) ==  \* mutated form: as soon as the queue is closed
  /\ owner[s] # None
  /\ ~open[s]
  /\ worker[s] = None
  /\ owner' = [owner EXCEPT ![s] = None]
  /\ queue' = [queue EXCEPT ![s] = <<>>]
  /\ UNCHANGED <<lock, peers, outbound, open, table, worker, txVars>>
WorkerExitNever(s) ==  \* mutated form: ok is not tested, the loop spins
  /\ owner[s] # None
  /\ ~open[s]
  /\ UNCHANGED vars
WorkerExit(s) ==
  /\ owner[s] # None
  /\ ~open[s]
  /\ worker[s] = None
  /\ queue[s] = <<>>
  /\ owner' = [owner EXCEPT ![s] = None]
  /\ UNCHANGED <<lock, peers, outbound, open, table, workVars, txVars>>

-----------------------------------------------------------------------------
(* Specification *)

Next ==
  \/ \E p \in Peer, dir \in BOOLEAN :
       \/ AddRejected(p, dir)
       \/ \E s \in Stream : AddAccepted(p, s, dir)
  \/ \E p \in Peer : AddReturns(p) \/ Remove(p)
  \/ Purge
  \/ \E t \in Tx, ex \in SUBSET Peer : Apply(t, ex) \/ ApplyAll(t, ex)
  \/ \E t \in Tx : ApplyStart(t) \/ ApplyReturns(t) \/ Collect(t)
  \/ \E t \in Tx, p \in Peer, s \in Stream \union {None} : QueueTx(t, p, s)
  \/ \E s \in Stream, err \in {"ok", "error"} : FinishTx(s, err)
  \/ \E s \in Stream : TakeTx(s) \/ WorkerExit(s)

SafeSpec == Init /\ [][Next]_vars

\* The goroutines of the store run; a latency probe ends, because its reads and
\* writes have timeouts; a caller waiting for the lock gets it in the end, though
\* others take it in between (sync.RWMutex starves nobody).  Whether a query ends
\* depends on the query: see module Broadcast.
StoreFairness ==
  /\ \A p \in Peer : WF_vars(AddReturns(p))
  /\ \A t \in Tx : SF_vars(ApplyStart(t)) /\ WF_vars(ApplyReturns(t))
  /\ \A t \in Tx, p \in Peer, s \in Stream \union {None} : WF_vars(QueueTx(t, p, s))
  /\ \A s \in Stream : WF_vars(TakeTx(s)) /\ WF_vars(WorkerExit(s))

-----------------------------------------------------------------------------
(* Properties *)

\* The store never holds more streams in a direction than its capacity, though
\* Add replaces streams and a peer changes direction when it is added again
\* (the tests of Add before it registers a context).
Capacity ==
  /\ inboundSize(peers) <= InboundCapacity
  /\ outboundSize(peers) <= OutboundCapacity

\* A context is open exactly while it is registered, and then under the peer
\* its worker serves: no registered context is closed (a second Close would
\* panic) and none is dropped from the map without being closed (its worker and
\* its stream would live forever).
RegisteredIffOpen ==
  /\ \A p \in Peer : peers[p] # None => open[peers[p]] /\ owner[peers[p]] = p
  /\ \A s \in Stream : open[s] => owner[s] # None /\ peers[owner[s]] = s

\* No goroutine of apply is left to send on a closed queue, which panics: the
\* lock is kept until group.Wait returns and contexts are closed under it.
NoSendOnClosed ==
  \A t \in Tx : \A send \in sends[t] : send[2] # None => open[send[2]]

\* Where the answer of peer p to transaction t is being prepared: in the hand
\* of a worker (place 0) or at a place of a queue.
Holds(t, s, i) == IF i = 0 THEN worker[s] = t
                           ELSE i <= Len(queue[s]) /\ queue[s][i] = t

Owing(t, p) == {o \in Stream \X (0 .. TxQueueSize) :
                  owner[o[1]] = p /\ Holds(t, o[1], o[2])}

\* An empty result channel has exactly one sender to come, also after the
\* context was replaced or closed; a full or absent one has none.  With none a
\* caller would wait forever, with two the worker would block holding the
\* transaction's mutex, and apply with it.
OneAnswerOwed ==
  \A t \in Tx, p \in Peer :
    /\ (result[t][p] = "pending") <=> (Owing(t, p) # {})
    /\ \A o1, o2 \in Owing(t, p) : o1 = o2

\* The worker of a closed context ends: no goroutine is leaked.
WorkersEnd ==
  \A s \in Stream : (owner[s] # None /\ ~open[s]) ~> (owner[s] = None)

\* What the contract knows of a peer's stream.
Direction(p) == IF peers[p] = None THEN "none"
                ELSE IF outbound[peers[p]] THEN "out" ELSE "in"

Contract == INSTANCE StreamstoreContract WITH
  held <- [p \in Peer |-> Direction(p)], answer <- result

\* Every step of the store is one its interface allows, or changes nothing that
\* its callers can see (Add, Remove, Purge, apply and the workers).
ContractSafe == Contract!SafeSpec

\* And every accepted transaction is answered, also by the worker of a context
\* that was closed with the transaction still queued, and though the queries of
\* broadcast wait for the answers to earlier ones.
ContractSpec == Contract!Spec

-----------------------------------------------------------------------------
(* The inductive invariant *)

\* A handle no worker serves is closed and has no work.
FreeHandlesIdle ==
  \A s \in Stream : owner[s] = None => /\ ~open[s]
                                       /\ queue[s] = <<>>
                                       /\ worker[s] = None

\* The lock is held by the one transaction whose goroutines are running.
SendingHoldsLock == \A t \in Tx : (phase[t] = "sending") <=> (lock = t)

\* What apply's goroutines still have to do concerns the current contexts.
SendsCurrent ==
  \A t \in Tx : \A send \in sends[t] :
    phase[t] = "sending" /\ send[2] = peers[send[1]]

\* A peer not yet asked has no result channel.
NotAskedYet ==
  \A t \in Tx, p \in Peer :
    (phase[t] \in {"idle", "picked"} \/ \E send \in sends[t] : send[1] = p)
      => result[t][p] = "none"

\* Everything the safety properties rest on: the lock ties the sends of apply
\* to registered, hence open, contexts; with it each accepted transaction has
\* one place in one queue or worker, and no closing or replacing moves it.
IInv ==
  /\ TypeOK
  /\ RegisteredIffOpen
  /\ FreeHandlesIdle
  /\ Capacity
  /\ SendingHoldsLock
  /\ SendsCurrent
  /\ NotAskedYet
  /\ OneAnswerOwed
=============================================================================
