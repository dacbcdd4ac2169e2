----------------------------- MODULE Discovery -----------------------------
(***************************************************************************)
(* Peer discovery of several clients: the greeting of the seed nodes when  *)
(* a client starts (p2p/bootstrap.go), the goroutine that samples the      *)
(* routing tables of random peers (p2p/discover.go, sample.go), the pings  *)
(* that decide who is entered (p2p/ping.go), and what the handlers of both *)
(* services do to the client they run in.                                  *)
(*                                                                         *)
(* A request of one client to another is one step of the client that asks; *)
(* the handler's own last step, Update of its routing table, may be late.  *)
(* Of libp2p: an address is known for a time or for good; a client that is *)
(* contacted learns the address of the one that contacts it (the identify  *)
(* service); the k-bucket table is not full and no peer too slow for it.   *)
(* A client's entry of itself is left out: whoever reads a table skips it. *)
(***************************************************************************)
EXTENDS Integers, FiniteSets

CONSTANTS
  Node,         \* clients
  Seeds,        \* config.SeedNodes, the same for all
  Discovering,  \* those whose config does not disable peer discovery
  Attempts,     \* pings of a seed node before it is given up, 5 in the code
  SampleSize,   \* config.SampleSize
  Mishaps,      \* bound of the model: how often something is lost or late
  Stops         \* bound of the model: how many clients are stopped

ASSUME DiscoveryAssumption ==
  /\ IsFiniteSet(Node)
  /\ Seeds \subseteq Node /\ Discovering \subseteq Node
  /\ Attempts \in Nat \ {0}
  /\ SampleSize \in Nat \ {0}
  /\ Mishaps \in Nat /\ Stops \in Nat

VARIABLES
  life,      \* life[n]: "down", "greeting" the seeds, "running", "stopped"
  table,     \* table[n]: the peers in the routing table of n
  book,      \* book[n][m]: the address of m in the peer store of n, if any
  attempts,  \* attempts[n][m]: pings left to greet seed m with
  round,     \* round[n]: where n is in replenishRoutingTable
  owing,     \* <<n, m>>: a handler of n answered m and will update its table
  mishaps    \* things lost or late so far

vars == <<life, table, book, attempts, round, owing, mishaps>>

Rounds == [at : {"asleep", "sampling", "ended"}, left : SUBSET Node,
           queries : 0 .. SampleSize, found : SUBSET Node]

TypeOK ==
  /\ life \in [Node -> {"down", "greeting", "running", "stopped"}]
  /\ table \in [Node -> SUBSET Node]
  /\ book \in [Node -> [Node -> {"none", "temporary", "permanent"}]]
  /\ attempts \in [Node -> [Seeds -> 0 .. Attempts]]
  /\ round \in [Node -> Rounds]
  /\ owing \in SUBSET (Node \X Node)
  /\ mishaps \in 0 .. Mishaps

Asleep == [at |-> "asleep", left |-> {}, queries |-> 0, found |-> {}]

Init ==
  /\ life = [n \in Node |-> "down"]
  /\ table = [n \in Node |-> {}]
  /\ book = [n \in Node |-> [m \in Node |-> "none"]]
  /\ attempts = [n \in Node |-> [m \in Seeds |-> 0]]
  /\ round = [n \in Node |-> Asleep]
  /\ owing = {}
  /\ mishaps = 0

-----------------------------------------------------------------------------
(* One client contacts another *)

Serving(n) == life[n] \in {"greeting", "running"}

\* Both hosts are up.  A client cannot dial itself.
CanMeet(n, m) == n # m /\ Serving(n) /\ Serving(m)

Lost == mishaps < Mishaps /\ mishaps' = mishaps + 1

\* Something is amiss, or is lost.
Fails(possible) ==
  \/ ~possible /\ UNCHANGED mishaps
  \/ possible /\ Lost

\* They are connected: n knows the address of m for a, and m knows that of n.
Connect(n, m, a) ==
  LET known == [book EXCEPT ![n][m] = a] IN
  book' = [known EXCEPT ![m][n] = IF @ = "none" THEN "temporary" ELSE @]

\* m answers, and n enters the peers in new.  pingHandler and sampleHandler of m
\* update its table, now or after n went on.
Answered(n, m, a, new) ==
  LET entered == [table EXCEPT ![n] = @ \union new] IN
  /\ Connect(n, m, a)
  /\ \/ /\ table' = [entered EXCEPT ![m] = @ \union {n}]
        /\ UNCHANGED <<owing, mishaps>>
     \/ /\ Lost
        /\ table' = entered
        /\ owing' = owing \union {<<m, n>>}

HandlerUpdates(n, m) ==
  /\ <<n, m>> \in owing
  /\ owing' = owing \ {<<n, m>>}
  /\ table' = [table EXCEPT ![n] = @ \union {m}]
  /\ UNCHANGED <<life, book, attempts, round, mishaps>>

\* NewStream fails: n forgets the address, and the peer.
NotConnected(n, m) ==
  /\ book' = [book EXCEPT ![n][m] = "none"]
  /\ table' = [table EXCEPT ![n] = @ \ {m}]
  /\ UNCHANGED owing

\* It succeeds and the request or the answer is lost: n keeps what it knows.
NotAnswered(n, m, a) ==
  /\ CanMeet(n, m) /\ Lost
  /\ Connect(n, m, a)
  /\ table' \in {table, [table EXCEPT ![m] = @ \union {n}]}
  /\ UNCHANGED owing

-----------------------------------------------------------------------------
(* Starting and stopping *)

\* bootstrap: services are registered and a goroutine greets every seed node.
Start(n) ==
  /\ life[n] = "down"
  /\ life' = [life EXCEPT ![n] = "greeting"]
  /\ attempts' = [attempts EXCEPT ![n] = [m \in Seeds |-> IF m = n THEN 0 ELSE Attempts]]
  /\ UNCHANGED <<table, book, round, owing, mishaps>>

\* hello: a seed node is given its address for a time, and pinged; it is kept
\* for good once it answered.
GreetedUnheard(n, m) ==  \* mutated form: the error of the ping is ignored
  /\ attempts[n][m] > 0
  /\ attempts' = [attempts EXCEPT ![n][m] = 0]
  /\ Answered(n, m, "permanent", {m})
  /\ UNCHANGED <<life, round>>
Greeted(n, m) ==
  /\ attempts[n][m] > 0
  /\ CanMeet(n, m)
  /\ attempts' = [attempts EXCEPT ![n][m] = 0]
  /\ Answered(n, m, "permanent", {m})
  /\ UNCHANGED <<life, round>>

NotGreeted(n, m) ==
  /\ attempts[n][m] > 0
  /\ \/ Fails(CanMeet(n, m)) /\ NotConnected(n, m)
     \/ NotAnswered(n, m, IF book[n][m] = "none" THEN "temporary" ELSE book[n][m])
  /\ attempts' = [attempts EXCEPT ![n][m] = @ - 1]
  /\ UNCHANGED <<life, round>>

\* Every goroutine has ended; peer discovery begins.
GreetingEnds(n) ==
  /\ life[n] = "greeting"
  /\ \A m \in Seeds : attempts[n][m] = 0
  /\ life' = [life EXCEPT ![n] = "running"]
  /\ UNCHANGED <<table, book, attempts, round, owing, mishaps>>

\* The shutdown function: the goroutine of discoverPeers is told, and the host
\* is closed at once.
Stop(n) ==
  /\ life[n] = "running"
  /\ Cardinality({m \in Node : life[m] = "stopped"}) < Stops
  /\ life' = [life EXCEPT ![n] = "stopped"]
  /\ UNCHANGED <<table, book, attempts, round, owing, mishaps>>

-----------------------------------------------------------------------------
(* The goroutine of discoverPeers *)

\* It sleeps after it looked for a notification, so that it may begin one round
\* after the client was stopped.
Wake(n) ==
  /\ n \in Discovering
  /\ life[n] \in {"running", "stopped"}
  /\ round[n].at = "asleep"
  /\ round' = [round EXCEPT ![n] = [at |-> "sampling", left |-> table[n],
                                    queries |-> SampleSize, found |-> {}]]
  /\ UNCHANGED <<life, table, book, attempts, owing, mishaps>>

\* What sampleHandler of m may send to n: it draws peers from its table until
\* the sample is full or the table is empty.
Eligible(m, n) == {p \in table[m] \ {n} : book[m][p] # "none"}
Samples(m, n) ==
  {S \in SUBSET Eligible(m, n) :
     \/ Cardinality(S) = SampleSize
     \/ Cardinality(S) < SampleSize /\ S = Eligible(m, n)}

\* The next peer of the permutation, once the peers found before were pinged.
MayVisit(n, m) ==
  /\ round[n].found = {}
  /\ round[n].queries > 0
  /\ m \in round[n].left

\* A peer without contact info is removed from the table.
Drop(n, m) ==
  /\ MayVisit(n, m)
  /\ book[n][m] = "none"
  /\ round' = [round EXCEPT ![n].left = @ \ {m}]
  /\ table' = [table EXCEPT ![n] = @ \ {m}]
  /\ UNCHANGED <<life, book, attempts, owing, mishaps>>

SampledUnused(n, m) ==  \* mutated form: the sample is not used
  /\ MayVisit(n, m)
  /\ book[n][m] # "none" /\ CanMeet(n, m)
  /\ round' = [round EXCEPT ![n].left = @ \ {m}, ![n].queries = @ - 1]
  /\ Answered(n, m, book[n][m], {})
  /\ UNCHANGED <<life, attempts>>
Sampled(n, m) ==
  /\ MayVisit(n, m)
  /\ book[n][m] # "none" /\ CanMeet(n, m)
  /\ \E S \in Samples(m, n) :
       round' = [round EXCEPT ![n].left = @ \ {m}, ![n].queries = @ - 1, ![n].found = S]
  /\ Answered(n, m, book[n][m], {})
  /\ UNCHANGED <<life, attempts>>

\* No connection: the peer is forgotten.  No answer: it is passed over.
SampleFails(n, m) ==
  /\ MayVisit(n, m)
  /\ book[n][m] # "none"
  /\ \/ Fails(CanMeet(n, m)) /\ NotConnected(n, m)
     \/ NotAnswered(n, m, book[n][m])
  /\ round' = [round EXCEPT ![n].left = @ \ {m}]
  /\ UNCHANGED <<life, attempts>>

\* A sample that is too big is refused, and taken for an empty one.
SampleRefused(n, m) ==
  /\ MayVisit(n, m)
  /\ book[n][m] # "none" /\ NotAnswered(n, m, book[n][m])
  /\ round' = [round EXCEPT ![n].left = @ \ {m}, ![n].queries = @ - 1]
  /\ UNCHANGED <<life, attempts>>

\* A peer of the sample is entered if it answers a ping.
FoundUnheard(n, m) ==  \* mutated form: the error of the ping is ignored
  /\ m \in round[n].found
  /\ round' = [round EXCEPT ![n].found = @ \ {m}]
  /\ Answered(n, m, "temporary", {m})
  /\ UNCHANGED <<life, attempts>>
FoundAnswers(n, m) ==
  /\ m \in round[n].found
  /\ CanMeet(n, m)
  /\ round' = [round EXCEPT ![n].found = @ \ {m}]
  /\ Answered(n, m, "temporary", {m})
  /\ UNCHANGED <<life, attempts>>

FoundSilent(n, m) ==
  /\ m \in round[n].found
  /\ \/ Fails(CanMeet(n, m)) /\ NotConnected(n, m)
     \/ NotAnswered(n, m, IF book[n][m] = "none" THEN "temporary" ELSE book[n][m])
  /\ round' = [round EXCEPT ![n].found = @ \ {m}]
  /\ UNCHANGED <<life, attempts>>

\* Every peer was visited, or enough of them answered.
RoundNeverEnds(n) ==  \* mutated form: the notification does not end the loop
  /\ round[n].at = "sampling" /\ round[n].found = {}
  /\ round[n].left = {} \/ round[n].queries = 0
  /\ round' = [round EXCEPT ![n] = Asleep]
  /\ UNCHANGED <<life, table, book, attempts, owing, mishaps>>
RoundEnds(n) ==
  /\ round[n].at = "sampling" /\ round[n].found = {}
  /\ round[n].left = {} \/ round[n].queries = 0
  /\ round' = [round EXCEPT ![n] =
       [Asleep EXCEPT !.at = IF life[n] = "stopped" THEN "ended" ELSE "asleep"]]
  /\ UNCHANGED <<life, table, book, attempts, owing, mishaps>>

-----------------------------------------------------------------------------
(* The rest of the client *)

\* An address that was not confirmed for long is forgotten.
Expire(n, m) ==
  /\ book[n][m] = "temporary" /\ Lost
  /\ book' = [book EXCEPT ![n][m] = "none"]
  /\ UNCHANGED <<life, table, attempts, round, owing>>

\* pair and the probes of the stream store contact peers of the table, too, and
\* forget those they cannot connect to.
ContactFails(n, m) ==
  /\ life[n] = "running" /\ m \in table[n]
  /\ Fails(CanMeet(n, m) /\ book[n][m] # "none") /\ NotConnected(n, m)
  /\ UNCHANGED <<life, attempts, round>>

-----------------------------------------------------------------------------
(* Specification *)

Next ==
  \/ \E n \in Node : Start(n) \/ GreetingEnds(n) \/ Stop(n) \/ Wake(n) \/ RoundEnds(n)
  \/ \E n \in Node, m \in Seeds : Greeted(n, m) \/ NotGreeted(n, m)
  \/ \E n, m \in Node :
       \/ HandlerUpdates(n, m)
       \/ Drop(n, m) \/ Sampled(n, m) \/ SampleFails(n, m) \/ SampleRefused(n, m)
       \/ FoundAnswers(n, m) \/ FoundSilent(n, m)
       \/ Expire(n, m) \/ ContactFails(n, m)

SafeSpec == Init /\ [][Next]_vars

\* Goroutines run and requests end or time out.  The permutation of the peers is
\* random, so that every peer that may be next time and again is next at some
\* time.  Clients need not start or stop, and nothing need be lost.
Visit(n, m) == Drop(n, m) \/ Sampled(n, m) \/ SampleFails(n, m)
bootstrap(n) == GreetingEnds(n) \/ \E m \in Seeds : Greeted(n, m) \/ NotGreeted(n, m)
discoverPeers(n) ==
  \/ Wake(n) \/ RoundEnds(n)
  \/ \E m \in Node : Visit(n, m) \/ FoundAnswers(n, m) \/ FoundSilent(n, m)
Fairness ==
  /\ \A n \in Node : WF_vars(bootstrap(n)) /\ WF_vars(\E m \in Node : HandlerUpdates(n, m))
  /\ \A n \in Discovering :
       /\ WF_vars(discoverPeers(n))
       /\ \A m \in Node \ {n} : SF_vars(Visit(n, m))

Spec == SafeSpec /\ Fairness

-----------------------------------------------------------------------------
(* Properties *)

\* A table names no client that never ran: seed nodes and peers of samples are
\* entered only after they answered, whoever else recommends them.
OnlyMet == \A n \in Node : \A m \in table[n] : life[m] # "down"

Knows(n, m) == m \in table[n] /\ book[n][m] # "none"

\* One of them knows the other and will tell it so.
Linked(n, m) == \/ n \in Discovering /\ Knows(n, m)
                \/ m \in Discovering /\ Knows(m, n)

\* Whether everyone is linked to everyone else, at least indirectly.
Connected == \A T \in SUBSET Node \ {{}, Node} : \E n \in T, m \in Node \ T : Linked(n, m)

\* Clients that are linked somehow get to know each other all, once nothing is
\* lost any more and none is started or stopped (TestMesh).
AllRun == \A n \in Node : life[n] = "running"
AllKnown == \A n \in Discovering, m \in Node : n # m => Knows(n, m)
KnowledgeSpreads == (AllRun /\ mishaps = Mishaps /\ Connected) ~> (AllKnown \/ ~AllRun)

\* In the end those that discover peers have forgotten all that stopped, for good,
\* though their samples keep naming them to each other for a while.
Forgotten(m) == \A n \in Discovering : m \in table[n] => life[n] # "running"
StoppedForgotten == <>[](\A m \in Node : life[m] = "stopped" => Forgotten(m))

\* Every round comes to an end, and with it the goroutine of a stopped client.
DiscoveryEnds == <>[](\A n \in Discovering : life[n] = "stopped" => round[n].at = "ended")
=============================================================================
