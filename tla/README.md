# Verification of go-revolver

TLA+ specifications of the go-revolver peer-to-peer client, the TLC
configurations that check them on small instances, and theorems about them
that TLAPS proves for every size. Paths are relative to the repository; `lines`
are those of the commit the project was written against. `PROJECT.json` maps
every definition to the code it models.

## 1. The system

A client keeps a handful of long-lived streams to other clients and broadcasts
artifacts over them. Everything below runs in one process, on goroutines.

| Component | Code | State | Operations |
| --- | --- | --- | --- |
| Stream store | `src/streamstore/streamstore.go` | map from peer to context (stream, direction, transaction queue), a lock, one worker goroutine per context | `Add`, `Remove`, `Purge`, `Apply`, `ApplyAll`, the getters |
| Routing table | `src/routingtable/rings.go` | known peers, latency rings, smoothed latencies, a refresh goroutine | `Add`, `Remove`, `Recommend`, `Shutdown` |
| Broadcast | `src/p2p/broadcast.go` | send queue, result maps of each chunk | the goroutine of `activateBroadcast`, its queries, removal of peers that failed |
| Receiving | `src/p2p/process.go` | artifact cache, witness cache, their locks, receive queue | `process`, one goroutine per stream |
| Artifacts | `src/artifact/` | payload reader, `closer` channel | `ToBytes`, `Close`, `Disconnect`, compression, metadata encoding |
| Pairing | `src/p2p/pair.go` | none of its own | `pair`, `pairHandler` |
| Stream discovery | `src/p2p/connect.go` | none of its own | `discoverStreams`, `replenishStreamstore` |
| Request handlers | `src/p2p/commit.go`, `challenge.go`, `prove.go`, `verify.go`, part of `client.go` | a request queue and an `unset...Handler` per kind | registration, requests, sending and receiving the messages |
| Authentication | `src/p2p/authenticate.go` | the spammer cache | `auth`, `authHandler` |
| Client | `src/p2p/client.go` | owns all of the above | construction, `Send`, `Receive`, shutdown |
| Peer discovery | `src/p2p/discover.go`, `sample.go`, `ping.go` | k-bucket table, peer store | `discoverPeers`, `replenishRoutingTable`, `sample`, `sampleHandler`, `probeLatency`, `ping`, `pingHandler` |
| Bootstrap | `src/p2p/bootstrap.go` | none of its own | `bootstrap`, the greeting of seed nodes, the order of shutdown |
| Timeouts and integers | `src/util/util.go` | a goroutine, a timer and a channel per call | reads and writes with timeouts, big-endian integers |
| Configuration, analytics, NAT monitor, inspector, example | `src/p2p/config.go` and others | none that others read | see section 8 |

How they interact:

- `pair` and `pairHandler` put a stream into the **stream store** and start
  `process` on it. `Add` of the store calls `Add` of the **routing table** while
  it holds the store's lock, and that probes the peer's latency over the network.
- **Broadcast** calls `Apply`, which asks the routing table for peers, *then*
  takes the store's lock and hands one transaction to the queue of each peer's
  context. The worker goroutine of the context runs the query and puts its
  result in a channel, and the query of the next chunk receives from that
  channel.
- **process** shares the artifact and witness caches with broadcast, hands an
  artifact to the application through the receive queue, and waits on the
  artifact's `closer` until its payload was read. The application reads the
  payload itself, or forwards the artifact, and then broadcast reads it.
- Whoever finds a peer failing (broadcast, process, `pairHandler`) calls
  `Remove(peer)`, which closes whatever stream is registered for that peer *by
  then*.
- **authHandler** asks the application through the request queues.
- **bootstrap** greets the seed nodes and starts **peer discovery**, which samples
  the k-bucket tables of random peers and pings whom it finds; the handlers of
  both services enter the asking client in their own table. `pair` takes its
  peers from that table, and every part removes a peer it cannot connect to.
- All of them read and write streams through the **timeouts** of `util.go`.

What is hard: the lock of the store is held across a network probe and a
fan-out; contexts are replaced and closed while transactions are queued on
them; recommendations, peer lists and stream counts are read before a lock or a
wait and used after it; peers are removed by identifier, not by stream; queues
and caches are bounded; a write that timed out may still go out; the two ends
of a stream disagree about whether it was accepted; handlers are replaced while
requests wait. `PROJECT.json` lists each of these at its line, with the
properties that would catch it going wrong.

## 2. The modules

| Module | Models | Composes |
| --- | --- | --- |
| `StreamstoreContract` | what the `Streamstore` interface promises | |
| `Streamstore` | the store: map, contexts, workers, lock | implements `StreamstoreContract` |
| `RoutingTable` | peers, rings, latencies, the refresh, `Recommend` | |
| `RoutingTableProofs` | theorems about it | |
| `Broadcast` | the broadcast goroutine and its queries | extends `Streamstore` |
| `Process` | `process`, caches, queues, `closer` | |
| `Pairing` | several clients: `pair`, `pairHandler`, `replenishStreamstore` | |
| `Handlers` | registration and serving of handlers, requests, shutdown | |
| `Authentication` | both sides of the protocol, the spammer cache | |
| `Discovery` | greeting of seeds, sampling, pings, k-bucket table and peer store of several clients | |
| `TimedCalls` | what a call of `ReadWithTimeout` or `WriteWithTimeout` promises | |
| `Timeouts` | those calls, their goroutines, timers and channels, and the integers they carry | implements `TimedCalls` |
| `BroadcastProofs` | theorems about `Streamstore` and `Broadcast` | what is proved of the store carries over to broadcast |
| `ProcessProofs`, `HandlersProofs`, `PairingProofs`, `AuthenticationProofs`, `DiscoveryProofs`, `TimeoutsProofs` | theorems about these | |
| `MC...` | an instance of each: symmetry sets, constant functions | |

A definition whose comment says *mutated form* is not part of the system. It is
the definition after it with one plausible mistake, and TLC must find the
property named for it in `PROJECT.json` violated when it takes the place of
that definition: each property can fail, and on the instance that is run.

### Streamstore

`peers` is the map `peers`; a context is a stream handle `s` with `owner[s]`
(the `peerId` its worker closes over), `outbound[s]`, `queue[s]` (the channel
`queue`), and `open[s]` (`peerctx.Close`, which closes both the queue and the
stream, was not called). A handle is used again once its worker has
ended. `worker[s]` is the transaction between the receive from the queue and
the send on its result channel. For each transaction, `phase`, `picked`,
`sends` and `result` follow one call of `Apply`: peers picked before the lock,
goroutines still to queue it, the map of result channels.

| Action | Code |
| --- | --- |
| `AddRejected`, `AddAccepted`, `AddReturns` | `Add`: the context that was there is closed first; then refused, or registered with a worker; the lock is held until the routing table has probed the peer. The capacity is tested as in the code, on the map without the previous context. |
| `Remove`, `Purge` | under the lock, one step |
| `Apply`, `ApplyAll` | the choice of peers, before the lock |
| `ApplyStart`, `QueueTx`, `ApplyReturns` | `apply`: lock, one goroutine per peer with its `select`/`default`, `group.Wait`, unlock |
| `TakeTx`, `FinishTx`, `WorkerExit` | the worker: receive, query and send, end of a closed and drained queue |
| `Collect` | the caller has received all results |

The lock appears only where something can be seen while it is held: `Add`'s
probe and `apply`'s fan-out. `sync.RWMutex` readers hold it for one read only
and are part of the step that reads.

`StreamstoreContract` knows neither queues nor lock: a peer has a stream in one
direction or none, never more than the capacities; a transaction is accepted
only for a peer that has a stream, and is answered exactly once whatever happens
to that stream. The refinement maps `held` to the direction of the registered
context and `answer` to `result`.

### RoutingTable

Each critical section of `rings.go` is a step, so a caller of `Add` is between
its check and its insertion while it probes (`adding`). `Recommend` is an
operator: the set of all recommendations the random draws can produce, each the
set of its entries tagged by where they came from, so that naming a peer twice
shows. `Shutdown` closes a channel; closing it again panics. `metrics` models
`go-libp2p-peerstore`, which is not in the repository: the first latency is kept, a later one moves the mean anywhere between the two.
In the code the stream store's lock lets one `Add` run at a time; the module
has a constant number of callers, so that both cases are covered.

### Broadcast

Extends `Streamstore` and uses its actions unchanged. A transaction is
`<<artifact, chunk>>`, chunk 0 being the metadata. `FinishTx` gets its meaning
here: `QueryWrites`, `QueryTimesOut` (an error is reported although the frame
still goes out), `QueryFails`, `QuerySkips` (the peer was not asked for the
previous chunk: the query writes nothing and returns nil); a query whose
predecessor is still pending is not enabled, as it waits on the channel.
`CollectLast` is the goroutine that removes a peer that failed. While
`AwaitsPayload` holds the goroutine is in `io.ReadFull` (`NextChunk` or
`ReadFails`, or neither for ever).

### Process

One goroutine per stream, its program counter `pc` at the lock, the caches, the
receive queue and the closer. The caches are LRU caches with eviction
(`Added`). The variable `witnesses` of the Go function is declared outside its
loop and is modelled so. The application takes artifacts, reads them with
`ToBytes` or forwards them; broadcast takes them from the send queue, enters
them in the cache without the lock and reads the exclude list.
`forgotten` records the streams whose witnesses the witness cache evicted since
their goroutine updated them.
Lists of witnesses are sets: order and repetition do not matter to anyone who
reads them. That `append` may write to an array two lists share is thereby left
out (listed as a hazard).

### Pairing

Several clients, each the peer of the others, with the two ends of each stream:
`stage[s][n]` is where client `n` is with its end, `reg[n][m]` the stream
registered for `m` in `n`'s store, `closed[s]` who closed its end. Of the stores
only the map and the capacities are kept, and `Add` is one step, which is what
`Streamstore` guarantees about it. `round[n]` is where `replenishStreamstore` is: it
counts the streams it needs, lists the inbound peers and lists the outbound peers,
each under the lock anew, and then pairs with one peer after the other, each of
which may take a timeout. `process` is reading, or waiting for an artifact
of its stream to be read, as long as the end is at stage `processing`; it ends when
it sees that the other side closed the stream (`SeesEnd`), or for a reason of its own.

### Handlers

The code for the five kinds of handler is the same five times, and so is the
model: `Kinds` with `SetHandler(k, l)` and a named action per kind. Registration
is two steps under `unsetHandlerLock` (`setting` is the critical section); the
shutdown function takes no lock and its five calls are five steps. The goroutine
of a handler chooses between its two cases whenever both are ready.

### Authentication

Each side is a script of steps `send`, `receive`, `verify`, `admit`, executed
by the same actions; the scripts are the order of calls in `auth` and
`authHandler`. A message has its kind and whether its size is allowed. A peer
may vanish without closing its stream; then only timeouts end the other side.

### Timeouts

One direction of a stream, written at one end and read at the other. A call has
its caller (`selecting` between channel and timer, `expired` between the timer
and the error it offers, `receiving` what is in the channel) and the goroutine
that transfers byte by byte and then sends its outcome on the channel of capacity
one. A goroutine whose caller has given up goes on, and a later call's goroutine
waits behind it, since the stream serves calls in order. Integers are encoded by
shifts and decoded by sums as in the code, unsigned and two's complement; `Base` is
the number of values of a byte. `TimedCalls` is what `Broadcast` (`QueryTimesOut`), `Pairing` and
`Authentication` take a read or a write to be; the refinement shows the functions
are that: nil only after all bytes were transferred, and after an error
anything, also later.

### Discovery

`table[n]` is the k-bucket table of client `n` and `book[n][m]` the address its
peer store has of `m`, for a time or for good. A request of one client to another
is one step of the one that asks, except that the handler's last step, the
`Update` of its own table, may come later (`owing`, `HandlerUpdates`). Every
request may be impossible (a host is down) or lost (`Mishaps`), each with its own
outcome: no connection forgets address and entry, no answer forgets neither.

| Action | Code |
| --- | --- |
| `Start`, `Greeted`, `NotGreeted`, `GreetingEnds` | `bootstrap`: five attempts for each seed, each a ping with a temporary address; a seed that answers is added for good |
| `Wake`, `Drop`, `Sampled`, `SampleFails`, `SampleRefused` | a round of `replenishRoutingTable`: a permutation of the table, peers without address removed, others asked for a sample until `SampleSize` queries are spent |
| `FoundAnswers`, `FoundSilent` | the pings of the peers of a sample |
| `RoundEnds`, `Stop` | end of a round, the notification; the host is closed at once |
| `Expire`, `ContactFails` | addresses that expire, and other parts of the client that fail to connect |

## 3. The runs

Bounds are in the `.cfg` files. The longest run takes about two minutes on two
cores.

| Run | Instance | States | What it shows |
| --- | --- | --- | --- |
| `table` | 3 peers, 3 rings, latencies 0..3 | 9,678 | `RingsConsistent`, `PlacedByLatency`, and that a recommendation names known peers, each once, and none excluded |
| `table_ranges` | as `table` | | the first divergence of section 7 |
| `broadcast_safety` | 2 peers, 2 handles, 2 artifacts of 2 transactions | 1.39 M | `FramesInOrder`, `NoCircularWait`, `NoGapIfAsked`, `WitnessesSpared` |
| `broadcast_liveness` | 2 peers, 2 handles, 1 artifact of 2 transactions | 114,552 | of the store `RegisteredIffOpen`, `NoSendOnClosed`, `OneAnswerOwed`, that each step is one of the contract (which has the capacities in it), and the whole contract, so that each transaction is answered though queries wait for each other; each worker of a closed context ends; the artifact is done with unless its payload is awaited for ever |
| `process_safety` | streams of 2 peers, 2 checksums, all caches and queues 1 | 3.44 M | `OneReader`, `SenderSpared`, `NoDuplicates`, while both caches evict |
| `process_ends` | 2 streams of one peer, 2 checksums, queues 1, caches 2 | 196,576 | `process` ends when its stream does, unless a payload is awaited for ever |
| `process_unseen` | as `process_safety`, witness cache 2 | | the second divergence of section 7 |
| `handlers` | 2 handler goroutines, 2 requests, all kinds, 11 pairs of goroutine and kind | 83,767 | `OneCurrent`, `NoPanicBeforeShutdown`, `QueuedOnce`; requests are answered, replaced handlers end |
| `auth` | 2 sessions of one peer or two, spammer cache 1 | 236,476 | `RevealsToVerified`, `SuccessIsMutual`, `InStep`, `SessionsEnd`, also when the client crashes in between |
| `pairing` | 3 clients, 2 of which discover streams, 2 handles, capacities 1 | 198,048 | `OpenIsOwned`, `RegisteredIsRead`, and `PairFindsRoom`: requests are refused, but `pair` never opens a stream it has no room for; every pairing ends; a stream given up at one end leaves the other if `process` reads again |
| `timeouts` | an unsigned and a signed integer of two bytes, a byte of two values, a stream that takes two bytes | 138,963 | an integer read without an error is the one written, whatever timed out before; the goroutine of a call given up ends with its stream; the contract `TimedCalls` |
| `discovery` | a seed and two clients that discover peers, samples of 1, 2 attempts, 1 mishap, 1 client stopped | 98,869 | `OnlyMet`; clients linked somehow get to know each other all; stopped ones are forgotten for good; rounds end |

Why the bounds reach the interesting cases:

- *Capacities and queues of one* are full after one element, so refusals,
  evictions by capacity and full queues occur everywhere. Two handles let a stream
  be replaced while the worker of its predecessor still drains its queue, and two
  peers with a stream each need more than there is room for.
- *The store is run under broadcast*, its only caller, which begins one transaction
  after the other. That its invariants and its contract hold for any number of
  callers at once, and with `ApplyAll`, which nobody calls, is proved.
- *Two artifacts of two transactions* on one stream overlap in its queue. The
  second peer is a witness of both, so that it takes room in the store, and adding
  a stream may be refused, but receives nothing; the first is a witness of one,
  of both or of none. For the store and for liveness one artifact is enough: a query
  waits only for its own artifact's previous transaction, and with two handles that
  one may be queued at the stream that was replaced.
- *One caller of `Add`* in `table`, because the store's lock allows no more and
  `PlacedByLatency` holds for one only. That the rings stay consistent with any
  number of callers is a theorem.
- *Two streams* in `Process` are the least to announce one artifact at once, and
  two checksums the least to fill a queue and to evict. With caches of one entry
  each, as in `process_safety`, every other checksum evicts. `ProcessEnds` does not depend
  on what is evicted, so the caches hold both in `process_ends`.
- *Three clients* are needed for a refusal, and *two that discover streams* to pair
  with each other at once; the third only accepts.
- *`MaxLatency` 3* with ranges from 0, 1 and 2 has latencies on each boundary,
  between them, and above the last.
- *`Artifacts` and `Chunks`* bound how much is sent. *`Used`* says which goroutine
  serves and which asks for which kind: kinds share nothing but the lock and the
  shutdown, so the goroutines meet at commitments and proofs, and the other kinds
  have one each.
- *Two integers* are enough in `timeouts` for a late transfer to meet the next
  call, one of them signed; with a byte of two values (`Base` 2) and two bytes each,
  every integer of the width is written and each boundary of the codec occurs.
- *One mishap* in `discovery` lets a seed be missed, an address expire, a handler's
  update come late or a contact fail, at each point; as nothing needs to be lost,
  behaviours without one are in it, too. *Two attempts* are a first and a last one.
  The third client learns of the second only by a sample of the seed's table.

Symmetry is used in safety runs only, over sets whose elements no definition
distinguishes (`PeerOf` and `Tx` of the broadcast are not symmetric and are not
permuted). The `VIEW` of `process_safety` leaves out the history variable
`seen`, which no guard and no property of that run reads, and of `forgotten`
the streams without an artifact on its way, which are forgotten anew, or not, before
`SenderSpared` reads them again; so states that differ in these only have the same
behaviours. That of `broadcast_safety` leaves
out the direction of closed contexts and the last frame of ended ones, which nothing
reads before the handle is used again and both are set anew.

`CHECK_DEADLOCK FALSE` is given where the system may stop: the program may panic
(`Handlers`, `RoutingTable`), sessions are finite (`Authentication`), discovery is stopped
and streams run out (`Pairing`), all integers are read (`Timeouts`), clients are stopped
and nothing more can be lost (`Discovery`).

## 4. Fairness

Weak fairness is assumed of goroutines that are able to run, and of the
network operations that `ReadWithTimeout` and `WriteWithTimeout` bound: the
probe in `Add`, queries, receives, handshakes. Beyond that:

- `ApplyStart` is *strongly* fair (`StoreFairness` in `Streamstore`), and so are `process(s)`
  in `Process` and `Send` in `Handlers`: others may take the lock or the slot of
  the queue in between, but `sync.RWMutex`, `sync.Mutex` and the queue of
  blocked senders of a channel serve each waiter in the end.
- `Stop` and `Take` in `Handlers` are strongly fair: `select` picks at random
  among ready cases, so a case ready again and again is taken at some time.
- The application takes an artifact when it holds none, and reads (`ToBytes`) or
  forwards what it holds; with a stream that was closed it does so in the end, for
  then the read fails. It answers the requests it is handed.
- In `Discovery` the visits of a round are strongly fair for each peer: the
  permutation is random, so a peer that may be next again and again is next at some
  time. Requests end, as their timeouts make them. Nothing need be lost.
- In `Timeouts` timers fire, callers and goroutines run, and a transfer on a closed
  stream fails. No transfer need take place.
- Nothing is assumed of callers, of peers, or of streams that are opened: no
  stream needs to come or go, no artifact needs to be sent, no peer need answer.

*Reads without a timeout are not fair* while their stream stays open. `process`
reads metadata and, of a duplicate, the payload so (`Break`, `Discard`); the
application reads a payload (`ToBytes`); and `io.ReadFull` at `broadcast.go:94` reads
the payload of an artifact that is forwarded. If the peer announces a payload and
then stalls, the broadcast goroutine hangs, with it every `process` whose artifact is
queued behind that one (`process.go:91`), those of closed streams included, and a
stream that the other side gave up stays registered. Three liveness properties
therefore have a premise, and each is violated without it:

| Property | holds provided that |
| --- | --- |
| `ProcessEnds` | no payload is awaited for ever from a stream that stays open: for each stream, again and again, it is closed, or neither the application nor broadcast has its artifact (`Awaited`) |
| `ArtifactsEnd` | the broadcast goroutine is not in that read for ever (`AwaitsPayload`) |
| `HalfOpenHeals` | `process` reads again once the other side closed the stream (`ProcessReads`) |

The premise of the last is the conclusion of the first, for both ends of a stream.
`WorkersEnd` and `ContractSpec` need none: a chunk that was never read is in no queue.

## 5. What is proved

`BroadcastProofs` first proves of the store, for any finite set of peers, any sets of handles and
transactions and any capacities and queue sizes greater than zero
(`StoreAssumption`; `config.validate` refuses others):

- `Invariance`: `SafeSpec => []IInv`;
- `TypeCorrect`, `CapacityKept`, `ContextsKept`, `NoSendPanics`, `AnswersOwed`:
  types, capacities and the invariants of the store that the run
  `broadcast_liveness` checks, from it;
- `ImplementsContract`: every step of the store is a step of
  `StreamstoreContract` or invisible to its callers.

None of the properties is inductive by itself. That no goroutine sends on a
closed queue (`NoSendOnClosed`) rests on `SendingHoldsLock` (the lock belongs to
the one transaction that is sending) and `SendsCurrent` (what it still has to
send goes to the contexts registered now): every action that closes a context
needs the lock, so none can run in between. `OneAnswerOwed` counts the places
where an answer to a pending result is being prepared. `QueueTx` makes a place
and the result pending together, `NotAskedYet` shows the result was empty
before, `TakeTx` moves a place, `FinishTx` removes it with the answer, and
`WorkerExit` may drop nothing because the queue is empty; `FreeHandlesIdle`
covers the handle that is used again. `Capacity` needs that `Add` tests the map
*without* the previous context and adds one context to that same map, which is
a lemma about cardinalities; it also needs `RegisteredIffOpen`, to know that
a handle that is used again was registered for nobody.

`RoutingTableProofs` proves `TableTypeCorrect`, `RingsAlwaysConsistent` and
`RecommendationsSound` for any numbers of peers, callers, rings, samples and
any growth of the ranges, and `PlacedAlways` under `OneCaller`: the mean latency of a
sorted peer stays between the two bounds of its ring. That rests on `PlacedInv`: rings
stay empty until the goroutine has refreshed, and a caller probes a peer that is unknown, hence in no ring. Neither half alone is
enough, and with two callers the second fails.

It then proves for any number of artifacts and chunks that a behaviour of
`Broadcast` is one of the store (`BroadcastIsOfStore`): each of its steps is a
step of the store or leaves the store alone, and for that `ApplyChunk` must name a
transaction and an exclude list that exist, hence the types. So everything proved of
the store, its contract included, holds while artifacts are broadcast
(`BroadcastKeepsContract`). `WitnessesAlwaysSpared` and `NoGaps` follow from `BInv`.
`Sequential` says that each transaction of an artifact returned before the next
one began; a result that says a peer was not asked is then final, and the query that
trusts it is right. `Spared` follows a peer from the recommendation through
the goroutines of `apply` to the result; it survives the next artifact since nobody
was chosen yet for a transaction that is idle. `Delivered` links what a result
says with what was received.

`FramesAlwaysInOrder` rests on `OInv`. `Ordered` says of each stream that the frame
written last, the transaction its worker has and those in its queue follow one
another; a transaction is appended by a goroutine of its own, so this needs
`Current`: only the present transaction of the broadcast goroutine can be on its way
into a queue, and it comes after all that were begun. `LastAsked` excludes that it is
already the frame written last: its result would not be empty. `NeverACircle`
follows from `Ordered` and `OneAnswerOwed`: of the transactions a peer has not
answered, the earliest (there is one, by well-foundedness) is in a worker whose
query waits for nobody, or in a queue whose worker is free, since whatever were in
front of it would be earlier.

`ProcessProofs`: `ReaderAlone` rests on `OnePlace` (the artifact of a stream is in the
receive queue, with the application, in the send queue or being broadcast, and
once) and on `Finalized` (who closes an artifact has read all of it).
`DeliversOnce` rests on `Locking` (who adds to the cache holds the lock) and
`AdmittedCached`. `SparesSender` holds for caches of any sizes, and so has to say when
a sender is not spared: only if its witnesses were evicted (`forgotten`) between
`UpdateWitnesses` and the broadcast. It needs that the cache has one entry per checksum,
that a peer once in an entry stays in it although others update the same entry, and
that nothing but an eviction makes an entry disappear: neither a refresh by
`broadcast` nor the replacement of an entry does (`AddWitnessesPlaces`).

`HandlersProofs`: `OneCurrentAlways` and `NoPanicAlways` rest on `Registration`: the
lock admits one registration at a time, and a handler that was told to end is
registered only while its successor is about to take its place. `QueuedOnceAlways`
rests on `Queues`.

`PairingProofs`: `NoStreamLeaks` and `RegisteredAlwaysRead` are inductive together with
`Shape` (which end may be at which stage); each step is shown to be one
`EndChange`, a change of one end by its owner. `PairAlwaysFindsRoom` rests on
`Counted`: streams in use, the one asked for and those still needed are never more
than the capacity, because only `pair` of the client itself adds outbound streams.

`AuthenticationProofs`: the invariant `SessionInv` says what has been sent and
received at each step of the scripts. `Expected` makes each message in flight the one
the receiver's script has next, as long as it runs (`AlwaysInStep`); `Reserved` lets
the handler have sent one message at most before it verified the initiator, so that
the initiator cannot have got far enough to succeed (`SuccessAlwaysMutual`).

`DiscoveryProofs`: `OnlyMetAlways` needs that the handlers about to update a table
enter peers that ran (`Met`).

`TimeoutsProofs`: `CodecRoundTrip` is about the codec alone. Its functions are
recursive, so the proof is by induction over the bytes, which is stated of sets of
numbers (`Induction`, from well-foundedness) and not of predicates; `Recursion`
gives the function the definition describes. `UnsignedRoundTrip` says that what is
decoded after `i` bytes is what the encoder has left after all shifts but `i`.
`NumbersAlwaysArrive` rests on `TInv`. `Conveyed` walks along the wire: each end is at
a place (a call and a byte of it), bytes on the wire are those of the places from
the reading to the writing end, and a place is followed by the next byte of the
same call, or by the first of the next call once that one is full. `InOrder` keeps
calls from overlapping: a write goes out only after all earlier ones, which are full
unless the stream was closed, and then nothing is written any more; a read begins
only after all earlier ones succeeded. So the bytes of a read are those of its
counterpart (`Copied`), these are the encoded integer (`Encoded`), and the codec does
the rest. `CallsKeepContract` shows each step to be one of `TimedCalls` or invisible to
the caller.

Each of these modules also proves the types of its component (`...TypeCorrect`); they
are therefore not among the invariants of its run. Sizes, capacities and sets are
any that the `...Assumption` of the module admits, and TLC evaluates each of these
assumptions in a run.

## 6. What is only model-checked

Liveness under fairness, which this prover does not do, and with it the liveness of
the contracts (`ContractSpec`, `KeepsContract`). Its safety half is proved, and
`NeverACircle` proves what the liveness of broadcast needs most, that no circle of
waiting queries forms. All invariants and action properties of the runs are theorems.

## 7. Where code and comments disagree

`table_ranges` finds `InLatencyRange` violated. The comment on `latRanges` gives the
nth ring the latencies from `latRanges[n]`, inclusive, to `latRanges[n+1]`,
exclusive; `populateRings` compares with `>`, so that a latency on a boundary goes
one ring down, and one of zero into none (`RingOf`). `PlacedByLatency` and its
theorem are about the ranges that the code has: open below, closed above.

`process_unseen` finds `ExcludedHaveSeen` violated. In `process` the variable
`witnesses` is declared outside the loop and is only assigned when the cache has
witnesses of the present artifact; otherwise the value an earlier artifact gave
it stays, is extended and is stored for the present one. Peers that never saw the
artifact are then excluded from its broadcast, which by the comment in `broadcast`
goes "to those who have not seen it".

The models contain these disagreements too, as the code has them; a run for each
is left for later:

- `Recommend` draws peers first and drops repeated and excluded ones afterwards,
  so with populated rings it may return fewer than requested though enough are
  known. The test that says it returns enough never populates the rings (`Filled`).
- The "periodic" refresh has no loop and runs once (`RefreshEnds`).
- Each chunk of a broadcast has a new recommendation, and a query whose peer was
  not asked for the previous chunk skips with success, so that the next chunk is
  written: the peer gets the third transaction without the first two (`QuerySkips`).
  `NoGapIfAsked` is what remains true.
- The sender of an artifact that is already cached is not made a witness, and may
  be sent the artifact (`CheckCache`, `Discard`).
- `authHandler` stores `time.Now` instead of `time.Now()` in the spammer cache, so
  the second request of a peer panics (`Admit`).
- A comment in `bootstrap.go` (line 212) says a seed node is added "permanently". Any
  failed connection removes its address and its entry all the same, and a later use
  of the peer gives it a temporary address (`NotConnected`, `FoundAnswers`); a
  seed is never greeted again.
- `sample` returns a nil error for a sample it refused as too big, which counts as a
  query with an empty sample (`SampleRefused`).
- `discoverPeers` looks for the notification before it sleeps, so that it may begin
  a whole round after the host was closed (`Wake`).
- A client's own identifier may be in its table. `replenishRoutingTable` skips it, but
  `replenishStreamstore` does not, and the failed dial removes the client's own
  addresses and its entry; `Discovery` and `Pairing` leave that entry out.
- `replenishStreamstore` lists the connected peers once and then makes calls of
  `pair` that may each wait for a timeout; a peer that connected meanwhile is paired
  with again, and its stream is replaced (`Pair`).

## 8. What is not modelled

- *Bootstrap*: setting up host, keys and NAT mapping, and parsing addresses. What is
  modelled are the greeting of seeds, the goroutines it starts and their end. A
  bootstrap that fails half-way leaves its host and the goroutine of the NAT
  monitor behind; a module for that would have no other component to meet.
- *Encoding*: protobuf metadata, compression, addresses. The models treat a message
  as its kind, or as an artifact's checksum; integers are in `Timeouts`.
- *Chunk counts* (`broadcast.go:55`): `Chunks` is a constant of `Broadcast`, so the sum
  that wraps for artifacts close to 4 GiB is not in it.
- *Configuration*: defaults and range checks; they are the assumptions on constants.
- *Analytics* and the *NAT monitor* read state or the network and change nothing
  the other components read. *Inspector* and *example* are separate programs.
- *`deal` and `difference`* in `connect.go` keep no state and only tests call
  them.
- In `Pairing`, `Add` does not hold the lock during its probe. It delays others
  and changes nothing they could see but the routing table, which here decides
  nondeterministically (`Pair` may try any peer left).
- In `Discovery`, the k-bucket table is never full and no peer is too slow for it; the
  library's eviction from a full bucket is left out.
- In `Streamstore`, the latency probe that `Add` starts may fail unnoticed; the
  model has that outcome and no property is about it, as no comment says what
  should follow.
- `ApplyAll` reads the map without the lock while `Add` may write it. The Go
  runtime may stop the program at that; the model reads the map in one step.
  `ApplyAll` has no caller.

## 9. Plan

Done, in the order of what matters most to the system: the store and its contract,
the routing table, broadcast on top of the store, receiving, handlers,
authentication, pairing, timeouts and their contract, peer discovery; the theorems of
section 5.

To come:

1. Runs that hold the single refresh of the rings (`rings.go:126`), recommendations
   that come out short (`rings_test.go:31`), chunks that skip their predecessors
   (`broadcast.go:101`) and the other disagreements of section 7 against what comments
   and tests say.
2. `Numbers`: chunk counts with 32-bit wrap-around, `deal`, `difference`, as functions
   against reference definitions.
3. A contract for artifact exchange that `Broadcast`, `Timeouts` and `Process` together
   implement: what one client reads is a prefix of what the other wrote.
4. A larger instance of `Pairing` (two clients, four handles).
