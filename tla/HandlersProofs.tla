--------------------------- MODULE HandlersProofs ---------------------------
(***************************************************************************)
(* Proofs about Handlers for any sets of goroutines that serve handlers    *)
(* and that request something.                                             *)
(***************************************************************************)
EXTENDS Handlers, TLAPS

LEMMA NoneNoListener == None \notin Listener
BY HandlersAssumption DEF HandlersAssumption

\* unset...Handler notifies the listener it was made for.
LEMMA UnsetNotifies ==
  ASSUME TypeOK, NEW k \in Kinds, Unset(k)
  PROVE  /\ notified' \in SUBSET Listener /\ notified \subseteq notified'
         /\ notified' \subseteq notified \union {unset[k]}
         /\ unset[k] = None \/ unset[k] \in notified'
         /\ panicked' \in BOOLEAN
         /\ unset[k] \notin notified => panicked' = panicked
BY NoneNoListener DEF TypeOK, Unset

\* Shutdown goes through the kinds.
LEMMA ShutdownRange ==
  ASSUME TypeOK
  PROVE  /\ Len(ShutdownOrder) = 5
         /\ Shutdown => stopped' \in 1 .. 5 /\ ShutdownOrder[stopped'] \in Kinds
<1>1. Len(ShutdownOrder) = 5
  BY DEF ShutdownOrder
<1>2. \A i \in 1 .. 5 : ShutdownOrder[i] \in Kinds
  BY DEF ShutdownOrder, Kinds
<1>3. Shutdown => stopped' \in 1 .. 5
  BY <1>1 DEF Shutdown, TypeOK
<1> QED
  BY <1>1, <1>2, <1>3

-----------------------------------------------------------------------------
(* Types *)

LEMMA InitType == Init => TypeOK
<1> SUFFICES ASSUME Init PROVE TypeOK
  OBVIOUS
<1>1. \A k \in Kinds : queue[k] = <<>> /\ Len(queue[k]) <= QueueSize
  BY DEF Init, QueueSize
<1>2. queue \in [Kinds -> Seq(Request)] /\ stopped \in 0 .. Len(ShutdownOrder)
  BY DEF Init, ShutdownOrder
<1> QED
  BY <1>1, <1>2 DEF Init, TypeOK, Kinds

LEMMA TypeStep == TypeOK /\ [Next]_vars => TypeOK'
<1> SUFFICES ASSUME TypeOK, [Next]_vars PROVE TypeOK'
  OBVIOUS
<1>1. ASSUME NEW k \in Kinds, NEW l \in Listener, SetHandler(k, l) PROVE TypeOK'
  BY <1>1, UnsetNotifies DEF SetHandler, TypeOK
<1>2. ASSUME NEW k \in Kinds, NEW l \in Listener, HandlerSet(k, l) PROVE TypeOK'
  BY <1>2 DEF HandlerSet, TypeOK
<1>3. ASSUME Shutdown PROVE TypeOK'
  <2>1. stopped' \in 1 .. 5 /\ ShutdownOrder[stopped'] \in Kinds /\ Len(ShutdownOrder) = 5
    BY <1>3, ShutdownRange
  <2> QED
    BY <1>3, <2>1, UnsetNotifies DEF Shutdown, TypeOK
<1>4. ASSUME NEW l \in Listener, Stop(l) \/ HandlerReturns(l) PROVE TypeOK'
  BY <1>4 DEF Stop, HandlerReturns, TypeOK, Kinds
<1>5. ASSUME NEW l \in Listener, Take(l) PROVE TypeOK'
  <2>1. kindOf[l] \in Kinds
    BY DEF TypeOK
  <2>2. Tail(queue[kindOf[l]]) \in Seq(Request) /\ Len(Tail(queue[kindOf[l]])) <= QueueSize
    BY <1>5, <2>1 DEF Take, TypeOK, QueueSize
  <2> QED
    BY <1>5, <2>1, <2>2 DEF Take, TypeOK
<1>6. ASSUME NEW k \in Kinds, NEW r \in Request, request(k, r) PROVE TypeOK'
  BY <1>6 DEF request, TypeOK
<1>7. ASSUME NEW r \in Request, Send(r) PROVE TypeOK'
  <2>1. about[r] \in Kinds
    BY DEF TypeOK
  <2>2. Append(queue[about[r]], r) \in Seq(Request) /\ Len(Append(queue[about[r]], r)) <= QueueSize
    BY <1>7, <2>1 DEF Send, TypeOK, QueueSize
  <2> QED
    BY <1>7, <2>1, <2>2 DEF Send, TypeOK
<1>8. ASSUME NEW r \in Request, Answer(r) PROVE TypeOK'
  BY <1>8 DEF Answer, TypeOK, Kinds
<1>9. ASSUME UNCHANGED vars PROVE TypeOK'
  BY <1>9 DEF vars, TypeOK
<1> QED
  BY <1>1, <1>2, <1>3, <1>4, <1>5, <1>6, <1>7, <1>8, <1>9
  DEF Next, Step, Kinds, SetArtifactHandler, SetCommitmentHandler, SetChallengeHandler,
      SetProofHandler, SetVerificationHandler, requestCommitment, requestChallenge,
      requestProof, requestVerification

\* The variables keep their types, and no queue outgrows its buffer.
THEOREM HandlersTypeCorrect == SafeSpec => []TypeOK
BY InitType, TypeStep, PTL DEF SafeSpec

-----------------------------------------------------------------------------
(* Registration *)

\* One registration is under way at a time, its listener is nobody's current one
\* and the one it replaces was notified; listeners are current for one kind; and
\* until shutdown begins a notified listener is current only while replaced.
Registration ==
  /\ \A p, q \in setting : p = q
  /\ \A p \in setting :
       /\ serving[p[2]] = "off"
       /\ \A k \in Kinds : unset[k] # p[2]
       /\ unset[p[1]] = None \/ unset[p[1]] \in notified
  /\ \A j, k \in Kinds : unset[j] # None /\ unset[j] = unset[k] => j = k
  /\ stopped = 0 =>
       \A k \in Kinds : unset[k] \in notified => \E l \in Listener : <<k, l>> \in setting

RegistrationInv == TypeOK /\ Registration /\ OneCurrent /\ NoPanicBeforeShutdown

LEMMA InitRegistration == Init => RegistrationInv
BY InitType DEF Init, RegistrationInv, Registration, OneCurrent, NoPanicBeforeShutdown

LEMMA RegistrationStep == RegistrationInv /\ [Next]_vars => RegistrationInv'
<1> SUFFICES ASSUME TypeOK, Registration, OneCurrent, NoPanicBeforeShutdown, [Next]_vars
             PROVE  Registration' /\ OneCurrent' /\ NoPanicBeforeShutdown'
  BY TypeStep DEF RegistrationInv
<1>1. ASSUME NEW k \in Kinds, NEW l \in Listener, SetHandler(k, l)
      PROVE  Registration' /\ OneCurrent' /\ NoPanicBeforeShutdown'
  <2>1. /\ setting = {} /\ setting' = {<<k, l>>}
        /\ serving[l] = "off" /\ \A j \in Kinds : unset[j] # l
        /\ UNCHANGED <<unset, serving, kindOf, stopped>>
    BY <1>1 DEF SetHandler, Unused
  <2>2. /\ notified' \in SUBSET Listener /\ notified \subseteq notified'
        /\ notified' \subseteq notified \union {unset[k]}
        /\ unset[k] = None \/ unset[k] \in notified'
        /\ unset[k] \notin notified => panicked' = panicked
    BY <1>1, UnsetNotifies DEF SetHandler
  <2>3. stopped = 0 => \A j \in Kinds : unset[j] \notin notified
    BY <2>1 DEF Registration
  <2>4. Registration'
    <3>1. \A p \in setting' : p = <<k, l>>
      BY <2>1
    <3>2. \A i, j \in Kinds : unset'[i] # None /\ unset'[i] = unset'[j] => i = j
      BY <2>1 DEF Registration
    <3>3. ASSUME stopped = 0, NEW j \in Kinds, unset[j] \in notified'
          PROVE  j = k
      <4>1. unset[j] \in Listener /\ unset[j] = unset[k]
        BY <2>2, <2>3, <3>3
      <4> QED
        BY <4>1, NoneNoListener DEF Registration
    <3> QED
      BY <2>1, <2>2, <3>1, <3>2, <3>3 DEF Registration
  <2> QED
    BY <2>1, <2>2, <2>3, <2>4 DEF OneCurrent, NoPanicBeforeShutdown
<1>2. ASSUME NEW k \in Kinds, NEW l \in Listener, HandlerSet(k, l)
      PROVE  Registration' /\ OneCurrent' /\ NoPanicBeforeShutdown'
  <2>1. /\ setting = {<<k, l>>} /\ setting' = {}
        /\ serving[l] = "off" /\ \A j \in Kinds : unset[j] # l
        /\ unset[k] = None \/ unset[k] \in notified
    BY <1>2 DEF HandlerSet, Registration
  <2>2. /\ unset' = [unset EXCEPT ![k] = l] /\ notified' = notified \ {l}
        /\ serving' = [serving EXCEPT ![l] = "listening"]
        /\ kindOf' = [kindOf EXCEPT ![l] = k]
        /\ UNCHANGED <<stopped, panicked>>
    BY <1>2 DEF HandlerSet
  <2>3. \A j \in Kinds : unset'[j] = IF j = k THEN l ELSE unset[j]
    BY <2>2 DEF TypeOK
  <2>4. Registration'
    <3>1. \A i, j \in Kinds : unset'[i] # None /\ unset'[i] = unset'[j] => i = j
      BY <2>1, <2>3 DEF Registration
    <3>2. stopped' = 0 => \A j \in Kinds : unset'[j] \notin notified'
      BY <2>1, <2>2, <2>3 DEF Registration
    <3> QED
      BY <2>1, <3>1, <3>2 DEF Registration
  <2>5. ASSUME NEW m \in Listener, serving'[m] # "off", m \notin notified'
        PROVE  unset'[kindOf'[m]] = m
    <3>1. CASE m = l
      BY <2>2, <2>3, <3>1 DEF TypeOK
    <3>2. CASE m # l
      <4>1. serving[m] # "off" /\ m \notin notified /\ kindOf'[m] = kindOf[m] /\ kindOf[m] \in Kinds
        BY <2>2, <2>5, <3>2 DEF TypeOK
      <4>2. unset[kindOf[m]] = m
        BY <4>1 DEF OneCurrent
      <4>3. kindOf[m] # k
        BY <2>1, <4>1, <4>2, NoneNoListener
      <4> QED
        BY <2>3, <4>1, <4>2, <4>3
    <3> QED
      BY <3>1, <3>2
  <2> QED
    BY <2>2, <2>4, <2>5 DEF OneCurrent, NoPanicBeforeShutdown
<1>3. ASSUME Shutdown PROVE Registration' /\ OneCurrent' /\ NoPanicBeforeShutdown'
  <2>1. stopped' \in 1 .. 5 /\ ShutdownOrder[stopped'] \in Kinds
    BY <1>3, ShutdownRange
  <2>2. notified \subseteq notified' /\ UNCHANGED <<setting, unset, serving, kindOf>>
    BY <1>3, <2>1, UnsetNotifies DEF Shutdown
  <2> QED
    BY <2>1, <2>2 DEF Registration, OneCurrent, NoPanicBeforeShutdown
<1>4. ASSUME NEW l \in Listener, Stop(l) \/ Take(l) \/ HandlerReturns(l)
      PROVE  Registration' /\ OneCurrent' /\ NoPanicBeforeShutdown'
  <2>1. /\ UNCHANGED <<setting, unset, notified, stopped, panicked>>
        /\ serving[l] # "off"
        /\ \A m \in Listener \ {l} : serving'[m] = serving[m] /\ kindOf'[m] = kindOf[m]
        /\ serving'[l] = "off" \/ kindOf'[l] = kindOf[l]
    BY <1>4 DEF Stop, Take, HandlerReturns, TypeOK
  <2>2. Registration'
    BY <2>1 DEF Registration, TypeOK
  <2>3. OneCurrent'
    BY <2>1 DEF OneCurrent
  <2> QED
    BY <2>1, <2>2, <2>3 DEF NoPanicBeforeShutdown
<1>5. ASSUME UNCHANGED <<setting, unset, notified, serving, kindOf, stopped, panicked>>
      PROVE  Registration' /\ OneCurrent' /\ NoPanicBeforeShutdown'
  BY <1>5 DEF Registration, OneCurrent, NoPanicBeforeShutdown
<1> QED
  BY <1>1, <1>2, <1>3, <1>4, <1>5
  DEF Next, Step, vars, Kinds, SetArtifactHandler, SetCommitmentHandler, SetChallengeHandler,
      SetProofHandler, SetVerificationHandler, requestCommitment, requestChallenge,
      requestProof, requestVerification, request, Send, Answer

\* At most one handler of a kind stays registered, however many callers replace
\* handlers at once.
THEOREM OneCurrentAlways == SafeSpec => []OneCurrent
<1>1. RegistrationInv => OneCurrent
  BY DEF RegistrationInv
<1> QED
  BY <1>1, InitRegistration, RegistrationStep, PTL DEF SafeSpec

\* No channel is closed twice before shutdown begins.
THEOREM NoPanicAlways == SafeSpec => []NoPanicBeforeShutdown
<1>1. RegistrationInv => NoPanicBeforeShutdown
  BY DEF RegistrationInv
<1> QED
  BY <1>1, InitRegistration, RegistrationStep, PTL DEF SafeSpec

-----------------------------------------------------------------------------
(* The queues *)

\* What a queue holds is queued for it, and what is queued is in its queue.
Queues ==
  /\ \A k \in Kinds :
       \/ queue[k] = <<>>
       \/ \E r \in Request : queue[k] = <<r>> /\ asking[r] = "queued" /\ about[r] = k
  /\ \A r \in Request : asking[r] = "queued" => queue[about[r]] = <<r>>

LEMMA Singletons ==
  ASSUME NEW q, NEW r PROVE <<q>> # <<>> /\ (<<q>> = <<r>> => q = r) /\ Head(<<q>>) = q /\ Tail(<<q>>) = <<>>
<1>1. <<q>>[1] = q /\ <<r>>[1] = r /\ Len(<<q>>) = 1 /\ Len(<<>>) = 0
  OBVIOUS
<1>2. Head(<<q>>) = q /\ Tail(<<q>>) = <<>>
  OBVIOUS
<1> QED
  BY <1>1, <1>2

LEMMA Emptiness == ASSUME NEW S, NEW s \in Seq(S), Len(s) = 0 PROVE s = <<>>
OBVIOUS

LEMMA QueuesStep == TypeOK /\ Queues /\ [Next]_vars => Queues'
<1> SUFFICES ASSUME TypeOK, Queues, [Next]_vars PROVE Queues'
  OBVIOUS
<1>1. ASSUME NEW l \in Listener, Take(l) PROVE Queues'
  <2> DEFINE k == kindOf[l]
  <2>1. k \in Kinds /\ queue[k] # <<>>
    BY <1>1 DEF Take, TypeOK
  <2>2. PICK r \in Request : queue[k] = <<r>> /\ asking[r] = "queued" /\ about[r] = k
    BY <2>1 DEF Queues
  <2>3. /\ queue' = [queue EXCEPT ![k] = <<>>] /\ asking' = [asking EXCEPT ![r] = "taken"]
        /\ about' = about
    BY <1>1, <2>2, Singletons DEF Take
  <2>4. \A q \in Request \ {r} : asking[q] = "queued" => about[q] # k
    BY <2>2, Singletons DEF Queues
  <2>5. \A j \in Kinds : queue'[j] = IF j = k THEN <<>> ELSE queue[j]
    BY <2>3 DEF TypeOK
  <2>6. \A q \in Request : asking'[q] = IF q = r THEN "taken" ELSE asking[q]
    BY <2>3 DEF TypeOK
  <2>7. \A j \in Kinds \ {k} : queue[j] # <<>> =>
          \E q \in Request \ {r} : queue[j] = <<q>> /\ asking[q] = "queued" /\ about[q] = j
    BY <2>2 DEF Queues
  <2>8. \A q \in Request \ {r} : asking[q] = "queued" => about[q] \in Kinds \ {k} /\ queue[about[q]] = <<q>>
    BY <2>4 DEF Queues, TypeOK
  <2> QED
    BY <2>3, <2>5, <2>6, <2>7, <2>8 DEF Queues
<1>2. ASSUME NEW r \in Request, Send(r) PROVE Queues'
  <2> DEFINE k == about[r]
  <2>1. k \in Kinds /\ queue[k] \in Seq(Request) /\ Len(queue[k]) = 0 /\ asking[r] = "sending"
    BY <1>2 DEF Send, TypeOK, QueueSize
  <2>2. queue[k] = <<>> /\ Append(<<>>, r) = <<r>>
    BY <2>1, Emptiness
  <2>3. queue' = [queue EXCEPT ![k] = <<r>>] /\ asking' = [asking EXCEPT ![r] = "queued"] /\ about' = about
    BY <1>2, <2>2 DEF Send
  <2>4. ASSUME NEW q \in Request \ {r}, asking[q] = "queued"
        PROVE  about[q] \in Kinds \ {k} /\ queue[about[q]] = <<q>>
    <3>1. about[q] \in Kinds /\ queue[about[q]] = <<q>>
      BY <2>4 DEF Queues, TypeOK
    <3>2. <<q>> # <<>>
      BY Singletons
    <3> QED
      BY <2>2, <3>1, <3>2
  <2>5. \A j \in Kinds \ {k} : queue[j] # <<>> =>
          \E q \in Request \ {r} : queue[j] = <<q>> /\ asking[q] = "queued" /\ about[q] = j
    BY <2>1 DEF Queues
  <2>6. \A j \in Kinds : queue'[j] = IF j = k THEN <<r>> ELSE queue[j]
    BY <2>3 DEF TypeOK
  <2>7. \A q \in Request : asking'[q] = IF q = r THEN "queued" ELSE asking[q]
    BY <2>3 DEF TypeOK
  <2> QED
    BY <2>1, <2>3, <2>4, <2>5, <2>6, <2>7 DEF Queues
<1>3. ASSUME NEW r \in Request, Answer(r) \/ \E k \in Kinds : request(k, r) PROVE Queues'
  <2>1. /\ asking[r] # "queued" /\ asking'[r] # "queued" /\ queue' = queue
        /\ \A q \in Request \ {r} : asking'[q] = asking[q] /\ about'[q] = about[q]
    BY <1>3 DEF Answer, request, TypeOK
  <2>2. \A j \in Kinds : queue[j] # <<>> =>
          \E q \in Request \ {r} : queue[j] = <<q>> /\ asking[q] = "queued" /\ about[q] = j
    BY <2>1 DEF Queues
  <2> QED
    BY <2>1, <2>2 DEF Queues
<1>4. ASSUME UNCHANGED <<queue, asking, about>> PROVE Queues'
  BY <1>4 DEF Queues
<1> QED
  BY <1>1, <1>2, <1>3, <1>4
  DEF Next, Step, vars, Kinds, SetArtifactHandler, SetCommitmentHandler, SetChallengeHandler,
      SetProofHandler, SetVerificationHandler, requestCommitment, requestChallenge,
      requestProof, requestVerification, SetHandler, HandlerSet, Shutdown, Stop, HandlerReturns

\* No request is lost or served twice: it is in one place of the queue of its
\* kind while it is queued, and nowhere otherwise.
THEOREM QueuedOnceAlways == SafeSpec => []QueuedOnce
<1>1. Init => TypeOK /\ Queues
  BY InitType DEF Init, Queues
<1>2. TypeOK /\ Queues => QueuedOnce
  <2> SUFFICES ASSUME TypeOK, Queues, NEW r \in Request
               PROVE  Places(r) = IF asking[r] = "queued" THEN {<<about[r], 1>>} ELSE {}
    BY DEF QueuedOnce
  <2>1. ASSUME NEW k \in Kinds, queue[k] # <<>> PROVE Len(queue[k]) = 1
    <3>1. PICK q \in Request : queue[k] = <<q>>
      BY <2>1 DEF Queues
    <3> QED
      BY <3>1
  <2>2. ASSUME NEW k \in Kinds, queue[k] # <<>>, queue[k][1] = r
        PROVE  asking[r] = "queued" /\ about[r] = k
    <3>1. PICK q \in Request : queue[k] = <<q>> /\ asking[q] = "queued" /\ about[q] = k
      BY <2>2 DEF Queues
    <3> QED
      BY <2>2, <3>1
  <2>3. \A o \in Places(r) : o = <<about[r], 1>> /\ asking[r] = "queued"
    BY <2>1, <2>2 DEF Places, QueueSize
  <2>4. asking[r] = "queued" => about[r] \in Kinds /\ queue[about[r]] = <<r>>
    BY DEF Queues, TypeOK
  <2>5. asking[r] = "queued" => <<about[r], 1>> \in Places(r)
    BY <2>4 DEF Places, QueueSize
  <2> QED
    BY <2>3, <2>5
<1> QED
  BY <1>1, <1>2, TypeStep, QueuesStep, PTL DEF SafeSpec
=============================================================================
