--------------------------- MODULE Authentication ---------------------------
(***************************************************************************)
(* Mutual authentication, p2p/authenticate.go: auth on the side that opens *)
(* the stream, authHandler on the side that accepts it.  Each side commits,*)
(* is challenged, proves and is verified, the initiator first.  Messages   *)
(* are sent and received by p2p/commit.go, challenge.go and prove.go.      *)
(*                                                                         *)
(* One client accepts; the initiators are other clients.  What is in a     *)
(* message is left out: a message has a kind, and a size that the receiver *)
(* allows or does not.  Either side may vanish without closing its stream. *)
(***************************************************************************)
EXTENDS Integers, Sequences, FiniteSets

CONSTANTS
  Peer,              \* peer identifiers of the initiators
  Session,           \* streams of the authentication protocol; each is used once
  SpammerCacheSize   \* config.SpammerCacheSize

ASSUME AuthenticationAssumption == SpammerCacheSize \in Nat \ {0}

Sides == {"initiator", "handler"}
Other(side) == IF side = "initiator" THEN "handler" ELSE "initiator"

\* What auth does after its stream is open.
InitiatorScript ==
  <<[do |-> "send",    what |-> "commitment"],
    [do |-> "receive", what |-> "challenge"],
    [do |-> "send",    what |-> "proof"],
    [do |-> "receive", what |-> "commitment"],
    [do |-> "send",    what |-> "challenge"],
    [do |-> "receive", what |-> "proof"],
    [do |-> "verify",  what |-> "proof"]>>

\* What authHandler does.
HandlerScriptEager ==  \* mutated form: the commitment is sent before the proof is awaited
  <<[do |-> "admit",   what |-> "peer"],
    [do |-> "receive", what |-> "commitment"],
    [do |-> "send",    what |-> "commitment"],
    [do |-> "send",    what |-> "challenge"],
    [do |-> "receive", what |-> "proof"],
    [do |-> "verify",  what |-> "proof"],
    [do |-> "receive", what |-> "challenge"],
    [do |-> "send",    what |-> "proof"]>>
HandlerScript ==
  <<[do |-> "admit",   what |-> "peer"],
    [do |-> "receive", what |-> "commitment"],
    [do |-> "send",    what |-> "challenge"],
    [do |-> "receive", what |-> "proof"],
    [do |-> "verify",  what |-> "proof"],
    [do |-> "send",    what |-> "commitment"],
    [do |-> "receive", what |-> "challenge"],
    [do |-> "send",    what |-> "proof"]>>

Script(side) == IF side = "initiator" THEN InitiatorScript ELSE HandlerScript

VARIABLES
  peerOf,        \* peerOf[s]: the initiator of session s
  step,          \* step[s][side]: the step of its script the side is at
  status,        \* status[s][side]: "new", "running", "ended" or "vanished"
  wire,          \* wire[s][side]: messages the side sent that were not received
  success,       \* success[s][side]: the outcome of its verification
  spammerCache,  \* the peers in the spammer cache, oldest first
  panicked       \* the accepting client crashed

vars == <<peerOf, step, status, wire, success, spammerCache, panicked>>

Kinds == {"commitment", "challenge", "proof"}
Messages == [kind : Kinds, fits : BOOLEAN]

TypeOK ==
  /\ peerOf \in [Session -> Peer]
  /\ step \in [Session -> [Sides -> 1 .. Len(HandlerScript) + 1]]
  /\ status \in [Session -> [Sides -> {"new", "running", "ended", "vanished"}]]
  /\ wire \in [Session -> [Sides -> Seq(Messages)]]
  /\ success \in [Session -> [Sides -> {"none", "yes", "no"}]]
  /\ spammerCache \in Seq(Peer) /\ Len(spammerCache) <= SpammerCacheSize
  /\ panicked \in BOOLEAN

Init ==
  /\ peerOf \in [Session -> Peer]
  /\ step = [s \in Session |-> [side \in Sides |-> 1]]
  /\ status = [s \in Session |-> [side \in Sides |-> "new"]]
  /\ wire = [s \in Session |-> [side \in Sides |-> <<>>]]
  /\ success = [s \in Session |-> [side \in Sides |-> "none"]]
  /\ spammerCache = <<>>
  /\ panicked = FALSE

\* A side is at a step of its script that does act.
At(s, side, act) ==
  /\ status[s][side] = "running"
  /\ step[s][side] <= Len(Script(side))
  /\ Script(side)[step[s][side]].do = act

What(s, side) == Script(side)[step[s][side]].what

\* The side goes on to the next step of its script.
Proceed(s, side) ==
  /\ step' = [step EXCEPT ![s][side] = @ + 1]
  /\ UNCHANGED status

\* The side returns, and its stream is closed.
Return(s, side) ==
  /\ status' = [status EXCEPT ![s][side] = "ended"]
  /\ UNCHANGED step

-----------------------------------------------------------------------------
(* Opening a stream and admitting its peer *)

\* NewStream starts the handler on the other side, or fails.
Open(s) ==
  /\ status[s]["initiator"] = "new"
  /\ \/ /\ ~panicked
        /\ status' = [status EXCEPT ![s] = [side \in Sides |-> "running"]]
     \/ status' = [status EXCEPT ![s]["initiator"] = "ended"]
  /\ UNCHANGED <<peerOf, step, wire, success, spammerCache, panicked>>

Added(p) == Append(IF Len(spammerCache) = SpammerCacheSize THEN Tail(spammerCache)
                                                         ELSE spammerCache, p)

\* The spammer cache holds the function time.Now, not its result, so that the
\* type assertion on the entry of a peer seen before panics.
Admit(s) ==
  LET known == \E i \in DOMAIN spammerCache : spammerCache[i] = peerOf[s] IN
  /\ At(s, "handler", "admit")
  /\ \/ /\ ~known
        /\ spammerCache' = Added(peerOf[s])
        /\ Proceed(s, "handler")
        /\ UNCHANGED panicked
     \/ /\ known
        /\ panicked' = TRUE
        /\ status' = [t \in Session |->
             [status[t] EXCEPT !["handler"] = IF @ = "running" THEN "vanished" ELSE @]]
        /\ UNCHANGED <<step, spammerCache>>
  /\ UNCHANGED <<peerOf, wire, success>>

-----------------------------------------------------------------------------
(* The steps of both scripts *)

\* The application provides the commitment, challenge or proof, of any size,
\* and it is written.  A write that fails or times out may still go out.
Send(s, side) ==
  /\ At(s, side, "send")
  /\ \/ \E fits \in BOOLEAN :
          /\ wire' = [wire EXCEPT ![s][side] =
                        Append(@, [kind |-> What(s, side), fits |-> fits])]
          /\ Proceed(s, side) \/ Return(s, side)
     \/ Return(s, side) /\ UNCHANGED wire
  /\ UNCHANGED <<peerOf, success, spammerCache, panicked>>

\* receiveCommitment, receiveChallenge or receiveProof: a size larger than its
\* limit is refused.
Receive(s, side) ==
  LET in == wire[s][Other(side)] IN
  /\ At(s, side, "receive")
  /\ in # <<>>
  /\ wire' = [wire EXCEPT ![s][Other(side)] = Tail(in)]
  /\ \/ Head(in).fits /\ Proceed(s, side)
     \/ ~Head(in).fits /\ Return(s, side)
  /\ UNCHANGED <<peerOf, success, spammerCache, panicked>>

\* The read times out, or the stream has ended.
ReceiveFailsAtEnd(s, side) ==  \* mutated form: a read without a timeout
  /\ At(s, side, "receive")
  /\ wire[s][Other(side)] = <<>>
  /\ status[s][Other(side)] = "ended"
  /\ Return(s, side)
  /\ UNCHANGED <<peerOf, wire, success, spammerCache, panicked>>
ReceiveFails(s, side) ==
  /\ At(s, side, "receive")
  /\ Return(s, side)
  /\ UNCHANGED <<peerOf, wire, success, spammerCache, panicked>>

\* The application verifies the proof.  auth returns the outcome; authHandler
\* returns unless it is positive.
VerifyIgnored(s, side) ==  \* mutated form: the outcome is not looked at
  /\ At(s, side, "verify")
  /\ \E outcome \in {"yes", "no"} : success' = [success EXCEPT ![s][side] = outcome]
  /\ Proceed(s, side)
  /\ UNCHANGED <<peerOf, wire, spammerCache, panicked>>
Verify(s, side) ==
  /\ At(s, side, "verify")
  /\ \/ success' = [success EXCEPT ![s][side] = "yes"] /\ Proceed(s, side)
     \/ success' = [success EXCEPT ![s][side] = "no"] /\ Return(s, side)
  /\ UNCHANGED <<peerOf, wire, spammerCache, panicked>>

\* The end of the script.
Finish(s, side) ==
  /\ status[s][side] = "running"
  /\ step[s][side] = Len(Script(side)) + 1
  /\ Return(s, side)
  /\ UNCHANGED <<peerOf, wire, success, spammerCache, panicked>>

\* An initiator, or its connection, is lost without the stream being closed.
Vanish(s) ==
  /\ status[s]["initiator"] = "running"
  /\ status' = [status EXCEPT ![s]["initiator"] = "vanished"]
  /\ UNCHANGED <<peerOf, step, wire, success, spammerCache, panicked>>

-----------------------------------------------------------------------------
(* Specification *)

SideStep(s, side) ==
  \/ Send(s, side) \/ Receive(s, side) \/ ReceiveFails(s, side)
  \/ Verify(s, side) \/ Finish(s, side)

Next ==
  \E s \in Session :
    \/ Open(s) \/ Admit(s) \/ Vanish(s)
    \/ \E side \in Sides : SideStep(s, side)

SafeSpec == Init /\ [][Next]_vars

\* Goroutines run, reads and writes time out, and the application answers the
\* requests it is handed.
Fairness ==
  \A s \in Session :
    /\ WF_vars(Admit(s))
    /\ \A side \in Sides : WF_vars(SideStep(s, side))

Spec == SafeSpec /\ Fairness

-----------------------------------------------------------------------------
(* Properties *)

\* auth returns true only if both sides verified the other: the initiator by
\* its own verification, the handler because it sends nothing to be verified
\* before it has verified the initiator.
SuccessIsMutual ==
  \A s \in Session : success[s]["initiator"] = "yes" => success[s]["handler"] = "yes"

\* Of the accepting client's own commitment and proof nothing is revealed to a
\* peer it has not verified.
RevealsToVerified ==
  \A s \in Session : \A i \in DOMAIN wire[s]["handler"] :
    wire[s]["handler"][i].kind \in {"commitment", "proof"} => success[s]["handler"] = "yes"

\* The sides stay in step: whatever failed before, a message is received as
\* what it was sent as.
InStep ==
  [][\A s \in Session, side \in Sides :
       Receive(s, side) => Head(wire[s][Other(side)]).kind = What(s, side)]_vars

\* Every session ends on both sides, though a peer may vanish at any point.
SessionsEnd ==
  \A s \in Session, side \in Sides :
    (status[s][side] = "running") ~> (status[s][side] # "running")
=============================================================================
