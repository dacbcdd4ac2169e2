-------------------------- MODULE DiscoveryProofs --------------------------
(***************************************************************************)
(* Proofs about Discovery for any number of clients, any seed nodes and    *)
(* any losses: only clients that ran enter a routing table.                *)
(***************************************************************************)
EXTENDS Discovery, TLAPS

-----------------------------------------------------------------------------
(* Types *)

Address == {"none", "temporary", "permanent"}

LEMMA InitType == Init => TypeOK
BY DiscoveryAssumption DEF Init, TypeOK, Rounds, Asleep, DiscoveryAssumption

LEMMA LostType == ASSUME TypeOK, Lost PROVE mishaps' \in 0 .. Mishaps
BY DiscoveryAssumption DEF TypeOK, Lost, DiscoveryAssumption

LEMMA ConnectType ==
  ASSUME TypeOK, NEW n \in Node, NEW m \in Node,
         NEW a \in Address, Connect(n, m, a)
  PROVE  book' \in [Node -> [Node -> Address]]
<1> DEFINE one == [book EXCEPT ![n][m] = a]
<1>1. one \in [Node -> [Node -> Address]]
  <2>1. [book[n] EXCEPT ![m] = a] \in [Node -> Address]
    BY DEF TypeOK, Address
  <2> QED
    BY <2>1 DEF TypeOK, Address
<1>2. book' = [one EXCEPT ![m][n] = IF @ = "none" THEN "temporary" ELSE @]
  BY DEF Connect
<1>3. [one[m] EXCEPT ![n] = IF @ = "none" THEN "temporary" ELSE @] \in [Node -> Address]
  BY <1>1 DEF Address
<1> QED
  BY <1>1, <1>2, <1>3

LEMMA AnsweredType ==
  ASSUME TypeOK, NEW n \in Node, NEW m \in Node, NEW a \in Address,
         NEW new \in SUBSET Node, Answered(n, m, a, new)
  PROVE  /\ book' \in [Node -> [Node -> Address]]
         /\ table' \in [Node -> SUBSET Node]
         /\ owing' \in SUBSET (Node \X Node) /\ mishaps' \in 0 .. Mishaps
<1>1. [table EXCEPT ![n] = @ \union new] \in [Node -> SUBSET Node]
  BY DEF TypeOK
<1>2. [[table EXCEPT ![n] = @ \union new] EXCEPT ![m] = @ \union {n}] \in [Node -> SUBSET Node]
  BY <1>1
<1>3. book' \in [Node -> [Node -> Address]]
  BY ConnectType DEF Answered
<1>4. UNCHANGED mishaps \/ Lost
  BY DEF Answered
<1>5. mishaps' \in 0 .. Mishaps
  BY <1>4, LostType DEF TypeOK
<1>6. table' \in [Node -> SUBSET Node]
  BY <1>1, <1>2 DEF Answered
<1>7. owing' \in SUBSET (Node \X Node)
  <2>1. owing \in SUBSET (Node \X Node) /\ owing' \in {owing, owing \union {<<m, n>>}}
    BY DEF Answered, TypeOK
  <2> QED
    BY <2>1
<1> QED
  BY <1>3, <1>5, <1>6, <1>7

LEMMA NotConnectedType ==
  ASSUME TypeOK, NEW n \in Node, NEW m \in Node, NotConnected(n, m)
  PROVE  /\ book' \in [Node -> [Node -> Address]]
         /\ table' \in [Node -> SUBSET Node] /\ owing' \in SUBSET (Node \X Node)
<1>1. [book[n] EXCEPT ![m] = "none"] \in [Node -> Address]
  BY DEF TypeOK, Address
<1> QED
  BY <1>1 DEF NotConnected, TypeOK, Address

LEMMA NotAnsweredType ==
  ASSUME TypeOK, NEW n \in Node, NEW m \in Node, NEW a \in Address,
         NotAnswered(n, m, a)
  PROVE  /\ book' \in [Node -> [Node -> Address]]
         /\ table' \in [Node -> SUBSET Node]
         /\ owing' \in SUBSET (Node \X Node) /\ mishaps' \in 0 .. Mishaps
<1>1. book' \in [Node -> [Node -> Address]] /\ mishaps' \in 0 .. Mishaps
  BY ConnectType, LostType DEF NotAnswered
<1>2. [table EXCEPT ![m] = @ \union {n}] \in [Node -> SUBSET Node]
  BY DEF TypeOK
<1>3. table' \in [Node -> SUBSET Node]
  BY <1>2 DEF NotAnswered, TypeOK
<1>4. owing' \in SUBSET (Node \X Node)
  BY DEF NotAnswered, TypeOK
<1> QED
  BY <1>1, <1>3, <1>4

\* A round that goes on with other peers left, fewer queries and other peers found.
LEMMA RoundType ==
  ASSUME NEW r \in Rounds, NEW q \in 0 .. SampleSize, NEW L \in SUBSET Node, NEW S \in SUBSET Node
  PROVE  /\ [r EXCEPT !.left = L, !.queries = q] \in Rounds
         /\ [r EXCEPT !.left = L, !.queries = q, !.found = S] \in Rounds
<1> DEFINE Queries == 0 .. SampleSize
<1>1. q \in Queries
  OBVIOUS
<1>2. Rounds = [at : {"asleep", "sampling", "ended"}, left : SUBSET Node,
                queries : Queries, found : SUBSET Node]
  BY DEF Rounds
<1> HIDE DEF Queries
<1> QED
  BY <1>1, <1>2

LEMMA TypeStep == TypeOK /\ [Next]_vars => TypeOK'
<1> SUFFICES ASSUME TypeOK, [Next]_vars PROVE TypeOK'
  OBVIOUS
<1> USE DEF Address
<1>1. \A n, m \in Node : book[n][m] \in Address /\ round[n] \in Rounds /\ table[n] \in SUBSET Node
  BY DEF TypeOK
<1>2. Seeds \subseteq Node /\ Attempts \in Nat /\ SampleSize \in Nat \ {0}
  BY DiscoveryAssumption DEF DiscoveryAssumption
<1>3. ASSUME NEW n \in Node, Start(n) \/ GreetingEnds(n) \/ Stop(n) PROVE TypeOK'
  <2>1. life' \in [Node -> {"down", "greeting", "running", "stopped"}]
    BY <1>3 DEF Start, GreetingEnds, Stop, TypeOK
  <2>2. attempts' \in [Node -> [Seeds -> 0 .. Attempts]]
    <3>1. [m \in Seeds |-> IF m = n THEN 0 ELSE Attempts] \in [Seeds -> 0 .. Attempts]
      BY <1>2
    <3> QED
      BY <1>3, <3>1 DEF Start, GreetingEnds, Stop, TypeOK
  <2> QED
    BY <1>3, <2>1, <2>2 DEF Start, GreetingEnds, Stop, TypeOK
<1>4. ASSUME NEW n \in Node, Wake(n) PROVE TypeOK'
  <2>1. [at |-> "sampling", left |-> table[n], queries |-> SampleSize, found |-> {}] \in Rounds
    BY <1>1, <1>2 DEF Rounds
  <2> QED
    BY <1>4, <2>1 DEF Wake, TypeOK
<1>5. ASSUME NEW n \in Node, RoundEnds(n) PROVE TypeOK'
  <2>1. [Asleep EXCEPT !.at = IF life[n] = "stopped" THEN "ended" ELSE "asleep"] \in Rounds
    BY <1>2 DEF Rounds, Asleep
  <2> QED
    BY <1>5, <2>1 DEF RoundEnds, TypeOK
<1>6. ASSUME NEW n \in Node, NEW m \in Seeds, Greeted(n, m) \/ NotGreeted(n, m) PROVE TypeOK'
  <2>1. m \in Node /\ attempts[n][m] \in 0 .. Attempts
    BY <1>2 DEF TypeOK
  <2>2. attempts' \in [Node -> [Seeds -> 0 .. Attempts]]
    <3>1. attempts[n][m] > 0 => attempts[n][m] - 1 \in 0 .. Attempts
      BY <1>2, <2>1
    <3>2. \A x \in 0 .. Attempts : [attempts[n] EXCEPT ![m] = x] \in [Seeds -> 0 .. Attempts]
      BY DEF TypeOK
    <3>3. 0 \in 0 .. Attempts
      BY <1>2
    <3>4. PICK x \in 0 .. Attempts : attempts' = [attempts EXCEPT ![n][m] = x]
      <4>1. CASE Greeted(n, m)
        BY <3>3, <4>1 DEF Greeted
      <4>2. CASE NotGreeted(n, m)
        <5>1. attempts' = [attempts EXCEPT ![n][m] = attempts[n][m] - 1] /\ attempts[n][m] > 0
          BY <4>2 DEF NotGreeted
        <5> QED
          BY <3>1, <5>1
      <4> QED
        BY <1>6, <4>1, <4>2
    <3>5. attempts \in [Node -> [Seeds -> 0 .. Attempts]]
      BY DEF TypeOK
    <3> QED
      BY <3>2, <3>4, <3>5
  <2>3. life' = life /\ round' = round
    BY <1>6 DEF Greeted, NotGreeted
  <2>4. CASE Greeted(n, m)
    BY <2>1, <2>2, <2>3, <2>4, AnsweredType DEF Greeted, TypeOK
  <2>5. CASE NotGreeted(n, m)
    <3>1. CASE Fails(CanMeet(n, m)) /\ NotConnected(n, m)
      BY <2>1, <2>2, <2>3, <3>1, NotConnectedType, LostType DEF Fails, TypeOK
    <3>2. CASE NotAnswered(n, m, IF book[n][m] = "none" THEN "temporary" ELSE book[n][m])
      BY <1>1, <2>1, <2>2, <2>3, <3>2, NotAnsweredType DEF TypeOK
    <3> QED
      BY <2>5, <3>1, <3>2 DEF NotGreeted
  <2> QED
    BY <1>6, <2>4, <2>5
<1>7. ASSUME NEW n \in Node, NEW m \in Node, HandlerUpdates(n, m) PROVE TypeOK'
  BY <1>7 DEF HandlerUpdates, TypeOK
<1>8. ASSUME NEW n \in Node, NEW m \in Node,
             Drop(n, m) \/ Sampled(n, m) \/ SampleFails(n, m) \/ SampleRefused(n, m)
      PROVE  round' \in [Node -> Rounds]
  <2>1. round[n].queries > 0 => round[n].queries - 1 \in 0 .. SampleSize
    BY <1>1, <1>2 DEF Rounds
  <2>2. \A S \in Samples(m, n) : S \in SUBSET Node
    BY <1>1 DEF Samples, Eligible
  <2>3. CASE Drop(n, m) \/ SampleFails(n, m)
    <3>1. [round[n] EXCEPT !.left = @ \ {m}] \in Rounds
      BY <1>1 DEF Rounds
    <3> QED
      BY <2>3, <3>1 DEF Drop, SampleFails, TypeOK
  <2>4. CASE Sampled(n, m)
    <3>1. PICK S \in Samples(m, n) :
            round' = [round EXCEPT ![n] = [round[n] EXCEPT !.left = @ \ {m}, !.queries = @ - 1, !.found = S]]
      BY <2>4 DEF Sampled, TypeOK
    <3>2. PICK q \in 0 .. SampleSize : q = round[n].queries - 1
      BY <2>1, <2>4 DEF Sampled, MayVisit
    <3>3. round[n].left \ {m} \in SUBSET Node /\ S \in SUBSET Node
      BY <1>1, <2>2 DEF Rounds
    <3>4. [round[n] EXCEPT !.left = round[n].left \ {m}, !.queries = q, !.found = S] \in Rounds
      BY <1>1, <3>3, RoundType
    <3> QED
      BY <3>1, <3>2, <3>4 DEF TypeOK
  <2>5. CASE SampleRefused(n, m)
    <3>1. PICK q \in 0 .. SampleSize : q = round[n].queries - 1
      BY <2>1, <2>5 DEF SampleRefused, MayVisit
    <3>2. round[n].left \ {m} \in SUBSET Node
      BY <1>1 DEF Rounds
    <3>3. [round[n] EXCEPT !.left = round[n].left \ {m}, !.queries = q] \in Rounds
      BY <1>1, <3>2, RoundType
    <3> QED
      BY <2>5, <3>1, <3>3 DEF SampleRefused, TypeOK
  <2> QED
    BY <1>8, <2>3, <2>4, <2>5
<1>9. ASSUME NEW n \in Node, NEW m \in Node,
             Drop(n, m) \/ Sampled(n, m) \/ SampleFails(n, m) \/ SampleRefused(n, m)
      PROVE  TypeOK'
  <2>1. life' = life /\ attempts' = attempts
    BY <1>9 DEF Drop, Sampled, SampleFails, SampleRefused
  <2>2. CASE Drop(n, m)
    BY <1>8, <2>1, <2>2 DEF Drop, TypeOK
  <2>3. CASE Sampled(n, m)
    <3>1. Answered(n, m, book[n][m], {})
      BY <2>3 DEF Sampled
    <3>2. round' \in [Node -> Rounds] /\ {} \in SUBSET Node /\ book[n][m] \in Address
      BY <1>1, <1>8, <1>9
    <3>3. /\ book' \in [Node -> [Node -> Address]] /\ table' \in [Node -> SUBSET Node]
          /\ owing' \in SUBSET (Node \X Node) /\ mishaps' \in 0 .. Mishaps
      BY <3>1, <3>2, AnsweredType
    <3> QED
      BY <2>1, <3>2, <3>3 DEF TypeOK
  <2>4. CASE Fails(CanMeet(n, m)) /\ NotConnected(n, m)
    BY <1>8, <1>9, <2>1, <2>4, NotConnectedType, LostType DEF Fails, TypeOK
  <2>5. CASE NotAnswered(n, m, book[n][m])
    <3>1. round' \in [Node -> Rounds] /\ book[n][m] \in Address
      BY <1>1, <1>8, <1>9
    <3>2. /\ book' \in [Node -> [Node -> Address]] /\ table' \in [Node -> SUBSET Node]
          /\ owing' \in SUBSET (Node \X Node) /\ mishaps' \in 0 .. Mishaps
      BY <2>5, <3>1, NotAnsweredType
    <3> QED
      BY <2>1, <3>1, <3>2 DEF TypeOK
  <2> QED
    BY <1>9, <2>2, <2>3, <2>4, <2>5 DEF SampleFails, SampleRefused
<1>10. ASSUME NEW n \in Node, NEW m \in Node, FoundAnswers(n, m) \/ FoundSilent(n, m)
       PROVE  TypeOK'
  <2>1. life' = life /\ attempts' = attempts
    BY <1>10 DEF FoundAnswers, FoundSilent
  <2>2. round' \in [Node -> Rounds]
    <3>1. [round[n] EXCEPT !.found = @ \ {m}] \in Rounds
      BY <1>1 DEF Rounds
    <3> QED
      BY <1>10, <3>1 DEF FoundAnswers, FoundSilent, TypeOK
  <2>3. CASE FoundAnswers(n, m)
    BY <2>1, <2>2, <2>3, AnsweredType DEF FoundAnswers, TypeOK
  <2>4. CASE Fails(CanMeet(n, m)) /\ NotConnected(n, m)
    BY <2>1, <2>2, <2>4, NotConnectedType, LostType DEF Fails, TypeOK
  <2>5. CASE NotAnswered(n, m, IF book[n][m] = "none" THEN "temporary" ELSE book[n][m])
    BY <1>1, <2>1, <2>2, <2>5, NotAnsweredType DEF TypeOK
  <2> QED
    BY <1>10, <2>3, <2>4, <2>5 DEF FoundSilent
<1>11. ASSUME NEW n \in Node, NEW m \in Node, Expire(n, m) \/ ContactFails(n, m) PROVE TypeOK'
  <2>1. CASE Expire(n, m)
    <3>1. [book[n] EXCEPT ![m] = "none"] \in [Node -> Address]
      BY DEF TypeOK
    <3> QED
      BY <2>1, <3>1, LostType DEF Expire, TypeOK
  <2>2. CASE ContactFails(n, m)
    BY <2>2, NotConnectedType, LostType DEF ContactFails, Fails, TypeOK
  <2> QED
    BY <1>11, <2>1, <2>2
<1>12. ASSUME UNCHANGED vars PROVE TypeOK'
  BY <1>12 DEF vars, TypeOK
<1> QED
  BY <1>3, <1>4, <1>5, <1>6, <1>7, <1>9, <1>10, <1>11, <1>12 DEF Next

-----------------------------------------------------------------------------
(* Who is entered, and who is pinged *)

\* Every peer of a table once ran, and whoever a handler is about to enter, too.
Met == OnlyMet /\ \A o \in owing : life[o[2]] # "down"

LEMMA MetStep == TypeOK /\ Met /\ [Next]_vars => Met'
<1> SUFFICES ASSUME TypeOK, Met, [Next]_vars PROVE Met'
  OBVIOUS
<1>1. \A n \in Node : life[n] # "down" => life'[n] # "down"
  <2>1. CASE \E n \in Node : Start(n) \/ GreetingEnds(n) \/ Stop(n)
    BY <2>1 DEF Start, GreetingEnds, Stop, TypeOK
  <2>2. ASSUME NEW n \in Node, Wake(n) \/ RoundEnds(n) PROVE life' = life
    BY <2>2 DEF Wake, RoundEnds
  <2>3. ASSUME NEW n \in Node, NEW m, Greeted(n, m) \/ NotGreeted(n, m) PROVE life' = life
    BY <2>3 DEF Greeted, NotGreeted
  <2>4. ASSUME NEW n \in Node, NEW m \in Node,
               \/ HandlerUpdates(n, m) \/ Expire(n, m) \/ ContactFails(n, m)
               \/ Drop(n, m) \/ Sampled(n, m) \/ SampleFails(n, m) \/ SampleRefused(n, m)
               \/ FoundAnswers(n, m) \/ FoundSilent(n, m)
        PROVE  life' = life
    BY <2>4 DEF HandlerUpdates, Drop, Sampled, SampleFails, SampleRefused, FoundAnswers,
                FoundSilent, Expire, ContactFails
  <2> QED
    BY <2>1, <2>2, <2>3, <2>4 DEF Next, vars
<1>2. ASSUME \A n \in Node : \A m \in table'[n] \ table[n] : life'[m] # "down",
             \A o \in owing' \ owing : life'[o[2]] # "down"
      PROVE  Met'
  <2>1. ASSUME NEW o \in owing PROVE life'[o[2]] # "down"
    BY <1>1 DEF Met, TypeOK
  <2> QED
    BY <1>1, <1>2, <2>1 DEF Met, OnlyMet, TypeOK
<1>3. ASSUME NEW n \in Node, NEW m \in Node, NEW a, NEW new \in SUBSET {m},
             CanMeet(n, m), Answered(n, m, a, new), life' = life
      PROVE  Met'
  <2>1. life'[n] # "down" /\ life'[m] # "down"
    BY <1>3 DEF CanMeet, Serving
  <2> DEFINE entered == [table EXCEPT ![n] = @ \union new]
  <2>2. entered \in [Node -> SUBSET Node] /\ \A i \in Node : entered[i] \ table[i] \subseteq {m}
    BY <1>3 DEF TypeOK
  <2>3. table' = entered \/ table' = [entered EXCEPT ![m] = @ \union {n}]
    BY <1>3 DEF Answered
  <2>4. \A i \in Node : table'[i] \ table[i] \subseteq {m, n}
    <3> HIDE DEF entered
    <3> QED
      BY <2>2, <2>3
  <2>5. owing' \ owing \subseteq {<<m, n>>}
    BY <1>3 DEF Answered
  <2>6. \A o \in owing' \ owing : life'[o[2]] # "down"
    BY <2>1, <2>5
  <2> QED
    BY <1>2, <2>1, <2>4, <2>6
<1>4. ASSUME NEW n \in Node, NEW m \in Node, NotConnected(n, m), life' = life PROVE Met'
  <2>1. \A i \in Node : table'[i] \subseteq table[i]
    BY <1>4 DEF NotConnected, TypeOK
  <2>2. owing' = owing
    BY <1>4 DEF NotConnected
  <2> QED
    BY <1>2, <2>1, <2>2
<1>5. ASSUME NEW n \in Node, NEW m \in Node, NEW a, NotAnswered(n, m, a), life' = life PROVE Met'
  <2>1. life'[n] # "down" /\ owing' = owing
    BY <1>5 DEF NotAnswered, CanMeet, Serving
  <2>2. \A i \in Node : table'[i] \ table[i] \subseteq {n}
    BY <1>5 DEF NotAnswered, TypeOK
  <2> QED
    BY <1>2, <2>1, <2>2
<1>6. CASE \E n \in Node : Start(n) \/ GreetingEnds(n) \/ Stop(n) \/ Wake(n) \/ RoundEnds(n)
  BY <1>2, <1>6 DEF Start, GreetingEnds, Stop, Wake, RoundEnds
<1>7. CASE \E n \in Node, m \in Seeds : Greeted(n, m) \/ NotGreeted(n, m)
  <2>1. Seeds \subseteq Node
    BY DiscoveryAssumption DEF DiscoveryAssumption
  <2> QED
    BY <1>3, <1>4, <1>5, <1>7, <2>1 DEF Greeted, NotGreeted
<1>8. ASSUME NEW n \in Node, NEW m \in Node,
             \/ Drop(n, m) \/ Sampled(n, m) \/ SampleFails(n, m) \/ SampleRefused(n, m)
             \/ FoundAnswers(n, m) \/ FoundSilent(n, m) \/ Expire(n, m) \/ ContactFails(n, m)
      PROVE  Met'
  <2>1. CASE Drop(n, m) \/ Expire(n, m)
    <3>1. owing' = owing /\ \A i \in Node : table'[i] \subseteq table[i]
      BY <2>1 DEF Drop, Expire, TypeOK
    <3> QED
      BY <1>2, <3>1
  <2>2. CASE Sampled(n, m)
    BY <1>3, <2>2 DEF Sampled
  <2>3. CASE FoundAnswers(n, m)
    BY <1>3, <2>3 DEF FoundAnswers
  <2>4. CASE SampleFails(n, m) \/ SampleRefused(n, m)
    BY <1>4, <1>5, <2>4 DEF SampleFails, SampleRefused
  <2>5. CASE FoundSilent(n, m) \/ ContactFails(n, m)
    BY <1>4, <1>5, <2>5 DEF FoundSilent, ContactFails
  <2> QED
    BY <1>8, <2>1, <2>2, <2>3, <2>4, <2>5
<1>9. ASSUME NEW n \in Node, NEW m \in Node, HandlerUpdates(n, m) PROVE Met'
  <2>1. life[m] # "down" /\ life' = life
    BY <1>9 DEF HandlerUpdates, Met
  <2> QED
    BY <1>2, <1>9, <2>1 DEF HandlerUpdates, TypeOK
<1>10. CASE UNCHANGED vars
  BY <1>10 DEF vars, Met, OnlyMet
<1> QED
  BY <1>6, <1>7, <1>8, <1>9, <1>10 DEF Next

-----------------------------------------------------------------------------
(* Theorems *)

\* The variables of peer discovery keep their types.
THEOREM DiscoveryTypeCorrect == SafeSpec => []TypeOK
BY InitType, TypeStep, PTL DEF SafeSpec

\* No routing table names a client that never ran, however many clients gossip.
THEOREM OnlyMetAlways == SafeSpec => []OnlyMet
<1>1. Init => TypeOK /\ Met
  BY InitType DEF Init, Met, OnlyMet
<1>2. Met => OnlyMet
  BY DEF Met
<1> QED
  BY <1>1, <1>2, TypeStep, MetStep, PTL DEF SafeSpec
=============================================================================
