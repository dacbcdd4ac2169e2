------------------------------ MODULE Handlers ------------------------------
(***************************************************************************)
(* Handlers of requests to the application: registration of a handler,     *)
(* the goroutine that serves it, the request queue of every kind, the      *)
(* goroutines of authentication that wait for answers, and shutdown.  The  *)
(* code is the same for every kind: p2p/commit.go, challenge.go, prove.go, *)
(* verify.go and, for artifacts, client.go.                                *)
(*                                                                         *)
(* Handlers are registered, and the client is shut down, at any time.      *)
(***************************************************************************)
EXTENDS Integers, Sequences, FiniteSets

CONSTANTS
  Listener,  \* goroutines that serve a handler; reused when they ended
  Request,   \* goroutines that request something; reused when answered
  Used,      \* bound of the model: <<kind, goroutine>> that may go together
  None       \* no listener

Kinds == {"artifact", "commitment", "challenge", "proof", "verification"}

ASSUME HandlersAssumption == None \notin Listener /\ Used \subseteq Kinds \X (Listener \union Request)

\* The order in which the shutdown function deregisters.
ShutdownOrder == <<"artifact", "commitment", "challenge", "proof", "verification">>

\* The buffer of the request queues.  The one for artifacts is configurable,
\* but nothing is ever sent on it.
QueueSize == 1

VARIABLES
  setting,   \* <<kind, listener>> of the registrations under way
  unset,     \* unset[k]: the listener that unset...Handler notifies, or None
  notified,  \* listeners whose channel notify is closed
  serving,   \* serving[l]: "off", "listening", or "calling" its handler
  kindOf,    \* kindOf[l]: what l is registered for
  queue,     \* queue[k]: the requests of kind k waiting for a handler
  asking,    \* asking[r]: where request r is
  about,     \* about[r]: the kind of request r, unless idle
  stopped,   \* handlers deregistered by shutdown, in the order of ShutdownOrder
  panicked   \* a channel was closed twice: the program is gone

vars == <<setting, unset, notified, serving, kindOf, queue, asking, about, stopped, panicked>>

TypeOK ==
  /\ setting \in SUBSET (Kinds \X Listener)
  /\ unset \in [Kinds -> Listener \union {None}]
  /\ notified \in SUBSET Listener
  /\ serving \in [Listener -> {"off", "listening", "calling"}]
  /\ kindOf \in [Listener -> Kinds]
  /\ queue \in [Kinds -> Seq(Request)]
  /\ \A k \in Kinds : Len(queue[k]) <= QueueSize
  /\ asking \in [Request -> {"idle", "sending", "queued", "taken"}]
  /\ about \in [Request -> Kinds]
  /\ stopped \in 0 .. Len(ShutdownOrder)
  /\ panicked \in BOOLEAN

Init ==
  /\ setting = {}
  /\ unset = [k \in Kinds |-> None]
  /\ notified = {}
  /\ serving = [l \in Listener |-> "off"]
  /\ kindOf = [l \in Listener |-> "artifact"]
  /\ queue = [k \in Kinds |-> <<>>]
  /\ asking = [r \in Request |-> "idle"]
  /\ about = [r \in Request |-> "artifact"]
  /\ stopped = 0
  /\ panicked = FALSE

-----------------------------------------------------------------------------
(* Registration *)

\* unset...Handler closes the channel of the handler registered last, if any;
\* closing a closed channel panics.
Unset(k) ==
  LET l == unset[k] IN
  \/ l = None /\ UNCHANGED <<notified, panicked>>
  \/ /\ l # None /\ l \notin notified
     /\ notified' = notified \union {l}
     /\ UNCHANGED panicked
  \/ /\ l \in notified
     /\ panicked' = TRUE
     /\ UNCHANGED notified

Unused(l) ==
  /\ serving[l] = "off"
  /\ \A k \in Kinds : unset[k] # l /\ <<k, l>> \notin setting

\* The handler registered before is deregistered, under unsetHandlerLock.
SetHandlerUnlocked(k, l) ==  \* mutated form: without the lock
  /\ <<k, l>> \in Used /\ Unused(l)
  /\ setting' = setting \union {<<k, l>>}
  /\ Unset(k)
  /\ UNCHANGED <<unset, serving, kindOf, queue, asking, about, stopped>>
SetHandler(k, l) ==
  /\ setting = {}
  /\ <<k, l>> \in Used /\ Unused(l)
  /\ setting' = setting \union {<<k, l>>}
  /\ Unset(k)
  /\ UNCHANGED <<unset, serving, kindOf, queue, asking, about, stopped>>

SetArtifactHandler(l) == SetHandler("artifact", l)
SetCommitmentHandler(l) == SetHandler("commitment", l)
SetChallengeHandler(l) == SetHandler("challenge", l)
SetProofHandler(l) == SetHandler("proof", l)
SetVerificationHandler(l) == SetHandler("verification", l)

\* The new handler's deregistration takes its place, the lock is released and
\* the goroutine of the new handler starts.
HandlerSetReusing(k, l) ==  \* mutated form: with the channel of an earlier handler
  /\ <<k, l>> \in setting
  /\ setting' = setting \ {<<k, l>>}
  /\ unset' = [unset EXCEPT ![k] = l]
  /\ serving' = [serving EXCEPT ![l] = "listening"]
  /\ kindOf' = [kindOf EXCEPT ![l] = k]
  /\ UNCHANGED <<notified, queue, asking, about, stopped, panicked>>
HandlerSet(k, l) ==
  /\ <<k, l>> \in setting
  /\ setting' = setting \ {<<k, l>>}
  /\ unset' = [unset EXCEPT ![k] = l]
  /\ notified' = notified \ {l}
  /\ serving' = [serving EXCEPT ![l] = "listening"]
  /\ kindOf' = [kindOf EXCEPT ![l] = k]
  /\ UNCHANGED <<queue, asking, about, stopped, panicked>>

\* The shutdown function takes no lock.
Shutdown ==
  /\ stopped < Len(ShutdownOrder)
  /\ stopped' = stopped + 1
  /\ Unset(ShutdownOrder[stopped'])
  /\ UNCHANGED <<setting, unset, serving, kindOf, queue, asking, about>>

-----------------------------------------------------------------------------
(* The goroutine of a handler: select takes any case that is ready *)

StopNever(l) ==  \* mutated form: the loop does not end
  /\ serving[l] = "listening"
  /\ l \in notified
  /\ UNCHANGED vars
Stop(l) ==
  /\ serving[l] = "listening"
  /\ l \in notified
  /\ serving' = [serving EXCEPT ![l] = "off"]
  /\ kindOf' = [kindOf EXCEPT ![l] = "artifact"]
  /\ UNCHANGED <<setting, unset, notified, queue, asking, about, stopped, panicked>>

TakeLosing(l) ==  \* mutated form: a request taken after the notification is dropped
  LET k == kindOf[l] IN
  /\ serving[l] = "listening"
  /\ queue[k] # <<>>
  /\ queue' = [queue EXCEPT ![k] = Tail(@)]
  /\ IF l \in notified
     THEN /\ serving' = [serving EXCEPT ![l] = "off"]
          /\ UNCHANGED asking
     ELSE /\ asking' = [asking EXCEPT ![Head(queue[k])] = "taken"]
          /\ serving' = [serving EXCEPT ![l] = "calling"]
  /\ UNCHANGED <<setting, unset, notified, kindOf, about, stopped, panicked>>
Take(l) ==
  LET k == kindOf[l] IN
  /\ serving[l] = "listening"
  /\ queue[k] # <<>>
  /\ queue' = [queue EXCEPT ![k] = Tail(@)]
  /\ asking' = [asking EXCEPT ![Head(queue[k])] = "taken"]
  /\ serving' = [serving EXCEPT ![l] = "calling"]
  /\ UNCHANGED <<setting, unset, notified, kindOf, about, stopped, panicked>>

\* The handler may return before the request is answered, or after.
HandlerReturns(l) ==
  /\ serving[l] = "calling"
  /\ serving' = [serving EXCEPT ![l] = "listening"]
  /\ UNCHANGED <<setting, unset, notified, kindOf, queue, asking, about, stopped, panicked>>

-----------------------------------------------------------------------------
(* Requests *)

request(k, r) ==
  /\ <<k, r>> \in Used /\ asking[r] = "idle"
  /\ asking' = [asking EXCEPT ![r] = "sending"]
  /\ about' = [about EXCEPT ![r] = k]
  /\ UNCHANGED <<setting, unset, notified, serving, kindOf, queue, stopped, panicked>>

requestCommitment(r) == request("commitment", r)
requestChallenge(r) == request("challenge", r)
requestProof(r) == request("proof", r)
requestVerification(r) == request("verification", r)

\* The send on the queue blocks while the queue is full.
SendUnbounded(r) ==  \* mutated form: the send does not block
  /\ asking[r] = "sending"
  /\ queue' = [queue EXCEPT ![about[r]] = Append(@, r)]
  /\ asking' = [asking EXCEPT ![r] = "queued"]
  /\ UNCHANGED <<setting, unset, notified, serving, kindOf, about, stopped, panicked>>
Send(r) ==
  LET k == about[r] IN
  /\ asking[r] = "sending"
  /\ Len(queue[k]) < QueueSize
  /\ queue' = [queue EXCEPT ![k] = Append(@, r)]
  /\ asking' = [asking EXCEPT ![r] = "queued"]
  /\ UNCHANGED <<setting, unset, notified, serving, kindOf, about, stopped, panicked>>

\* The application puts its answer in the response channel, of capacity one,
\* and the request returns with it.  (What it was about is of no use any more.)
Answer(r) ==
  /\ asking[r] = "taken"
  /\ asking' = [asking EXCEPT ![r] = "idle"]
  /\ about' = [about EXCEPT ![r] = "artifact"]
  /\ UNCHANGED <<setting, unset, notified, serving, kindOf, queue, stopped, panicked>>

-----------------------------------------------------------------------------
(* Specification *)

Step ==
  \/ \E l \in Listener :
       \/ SetArtifactHandler(l) \/ SetCommitmentHandler(l) \/ SetChallengeHandler(l)
       \/ SetProofHandler(l) \/ SetVerificationHandler(l)
       \/ \E k \in Kinds : HandlerSet(k, l)
       \/ Stop(l) \/ Take(l) \/ HandlerReturns(l)
  \/ \E r \in Request :
       \/ requestCommitment(r) \/ requestChallenge(r)
       \/ requestProof(r) \/ requestVerification(r)
       \/ Send(r) \/ Answer(r)
  \/ Shutdown

\* A panic ends the program.
Next == ~panicked /\ Step

SafeSpec == Init /\ [][Next]_vars

\* Goroutines run; a select whose two cases are ready time and again takes each
\* of them at some time, since it chooses at random; senders on a channel are
\* served in their order.  Handlers return and answer, as they are obliged to.
Fairness ==
  /\ \A l \in Listener :
       /\ \A k \in Kinds : WF_vars(~panicked /\ HandlerSet(k, l))
       /\ SF_vars(~panicked /\ Stop(l)) /\ SF_vars(~panicked /\ Take(l))
       /\ WF_vars(~panicked /\ HandlerReturns(l))
  /\ \A r \in Request : SF_vars(~panicked /\ Send(r)) /\ WF_vars(~panicked /\ Answer(r))

Spec == SafeSpec /\ Fairness

-----------------------------------------------------------------------------
(* Properties *)

\* At most one handler of a kind stays registered, though handlers are replaced
\* concurrently: every other goroutine of the kind was told to end.
OneCurrent ==
  \A l \in Listener : serving[l] # "off" /\ l \notin notified => unset[kindOf[l]] = l

\* However many callers replace handlers at once, no channel is closed twice
\* and the program goes on, at least until shutdown begins.
NoPanicBeforeShutdown == stopped = 0 => ~panicked

\* A request is neither lost nor served twice: it waits in exactly one place of
\* the queue of its kind exactly while it is queued.
Places(r) == {o \in Kinds \X (1 .. QueueSize) :
                o[2] <= Len(queue[o[1]]) /\ queue[o[1]][o[2]] = r}
QueuedOnce ==
  \A r \in Request :
    Places(r) = IF asking[r] = "queued" THEN {<<about[r], 1>>} ELSE {}

\* While a handler of its kind is registered a request is answered, whether the
\* handler it reaches is the one in place or one replaced meanwhile.
RequestsAnswered ==
  \A r \in Request :
    (asking[r] = "sending" /\ unset[about[r]] # None)
      ~> (asking[r] = "idle" \/ stopped > 0)

\* The goroutine of a handler that was replaced or shut down ends, however many
\* requests keep coming.
ListenersEnd == \A l \in Listener : (l \in notified) ~> (serving[l] = "off" \/ panicked)
=============================================================================
