------------------------ MODULE AuthenticationProofs ------------------------
(***************************************************************************)
(* Proofs about Authentication for any number of sessions, any peers and   *)
(* any spammer cache: what is revealed to whom, that success is mutual, and *)
(* that the two sides stay in step whatever fails.                         *)
(***************************************************************************)
EXTENDS Authentication, TLAPS

-----------------------------------------------------------------------------
(* The scripts *)

\* The messages a side sends, in order, and how many it has sent, or received,
\* when it is at step k of its script.
Sends(side) == IF side = "initiator" THEN <<"commitment", "proof", "challenge">>
                                     ELSE <<"challenge", "commitment", "proof">>
Sent(side, k) ==
  IF side = "initiator" THEN IF k <= 1 THEN 0 ELSE IF k <= 3 THEN 1 ELSE IF k <= 5 THEN 2 ELSE 3
  ELSE IF k <= 3 THEN 0 ELSE IF k <= 6 THEN 1 ELSE IF k <= 8 THEN 2 ELSE 3
Received(side, k) ==
  IF side = "initiator" THEN IF k <= 2 THEN 0 ELSE IF k <= 4 THEN 1 ELSE IF k <= 6 THEN 2 ELSE 3
  ELSE IF k <= 2 THEN 0 ELSE IF k <= 4 THEN 1 ELSE IF k <= 7 THEN 2 ELSE 3

LEMMA ScriptLengths ==
  Len(InitiatorScript) = 7 /\ Len(HandlerScript) = 8 /\
  \A side \in Sides : Len(Script(side)) \in {7, 8} /\ Other(side) \in Sides /\ Other(Other(side)) = side
BY DEF InitiatorScript, HandlerScript, Script, Sides, Other

\* A step of a script sends the message that is next, receives the one that is
\* next, or does neither.
LEMMA ScriptSteps ==
  ASSUME NEW side \in Sides, NEW k \in 1 .. Len(Script(side))
  PROVE  LET act == Script(side)[k] IN
         /\ act.do = "send" => /\ act.what = Sends(side)[Sent(side, k) + 1] /\ act.what \in Kinds
                               /\ Sent(side, k + 1) = Sent(side, k) + 1
         /\ act.do # "send" => Sent(side, k + 1) = Sent(side, k)
         /\ act.do = "receive" => /\ act.what = Sends(Other(side))[Received(side, k) + 1]
                                  /\ Received(side, k + 1) = Received(side, k) + 1
         /\ act.do # "receive" => Received(side, k + 1) = Received(side, k)
         /\ act.do = "verify" => k = IF side = "initiator" THEN 7 ELSE 5
         /\ side = "handler" /\ k = 5 => act.do = "verify"
         /\ act.do = "admit" => side = "handler" /\ k = 1
         /\ side = "handler" /\ act.do = "send" => k \in {3, 6, 8}
<1> USE DEF Kinds
<1>1. CASE side = "initiator"
  <2> DEFINE act == InitiatorScript[k]
  <2>1. k \in 1 .. 7
    BY <1>1, ScriptLengths DEF Script
  <2> QED
    BY <1>1, <2>1 DEF InitiatorScript, Script, Sends, Sent, Received, Other
<1>2. CASE side = "handler"
  <2>1. k \in 1 .. 8
    BY <1>2, ScriptLengths DEF Script
  <2> QED
    BY <1>2, <2>1 DEF HandlerScript, Script, Sends, Sent, Received, Other
<1> QED
  BY <1>1, <1>2 DEF Sides

LEMMA Counts ==
  ASSUME NEW side \in Sides, NEW k \in 1 .. 9
  PROVE  Sent(side, k) \in 0 .. 3 /\ Received(side, k) \in 0 .. 3
BY DEF Sent, Received

-----------------------------------------------------------------------------
(* Types *)

LEMMA InitType == Init => TypeOK
<1> SUFFICES ASSUME Init PROVE TypeOK
  OBVIOUS
<1>1. step \in [Session -> [Sides -> 1 .. Len(HandlerScript) + 1]]
  BY ScriptLengths DEF Init
<1>2. <<>> \in Seq(Peer) /\ Len(<<>>) <= SpammerCacheSize /\ <<>> \in Seq(Messages)
  BY AuthenticationAssumption DEF AuthenticationAssumption
<1>3. wire \in [Session -> [Sides -> Seq(Messages)]]
  BY <1>2 DEF Init
<1>4. spammerCache \in Seq(Peer) /\ Len(spammerCache) <= SpammerCacheSize
  BY <1>2 DEF Init
<1> QED
  BY <1>1, <1>3, <1>4 DEF Init, TypeOK

LEMMA AtType ==
  ASSUME TypeOK, NEW s \in Session, NEW side \in Sides, NEW act, At(s, side, act)
  PROVE  /\ status[s][side] = "running" /\ step[s][side] \in 1 .. Len(Script(side))
         /\ Script(side)[step[s][side]].do = act
<1>1. step[s][side] \in 1 .. Len(HandlerScript) + 1 /\ Len(Script(side)) \in {7, 8}
  BY ScriptLengths DEF TypeOK
<1>2. step[s][side] \in Nat /\ step[s][side] >= 1 /\ Len(Script(side)) \in Nat
  BY <1>1, ScriptLengths
<1> QED
  BY <1>2 DEF At

\* What a side does to its own step and status, and nobody to another's.
OnlyAt(s, side) ==
  \A t \in Session, x \in Sides :
    ~(t = s /\ x = side) => step'[t][x] = step[t][x] /\ status'[t][x] = status[t][x]

LEMMA Proceeds ==
  ASSUME TypeOK, NEW s \in Session, NEW side \in Sides, step[s][side] <= Len(Script(side)),
         Proceed(s, side)
  PROVE  /\ step' \in [Session -> [Sides -> 1 .. Len(HandlerScript) + 1]]
         /\ status' \in [Session -> [Sides -> {"new", "running", "ended", "vanished"}]]
         /\ OnlyAt(s, side)
         /\ step'[s][side] = step[s][side] + 1 /\ status'[s][side] = status[s][side]
<1>1. step[s][side] \in 1 .. 9 /\ Len(HandlerScript) = 8 /\ Len(Script(side)) \in {7, 8}
  BY ScriptLengths DEF TypeOK
<1>2. PICK k \in 1 .. Len(HandlerScript) + 1 : k = step[s][side] + 1
  <2>1. step[s][side] + 1 \in 1 .. 9
    <3>1. CASE Len(Script(side)) = 7
      BY <1>1, <3>1
    <3>2. CASE Len(Script(side)) = 8
      BY <1>1, <3>2
    <3> QED
      BY <1>1, <3>1, <3>2
  <2> QED
    BY <1>1, <2>1
<1>3. step' = [step EXCEPT ![s][side] = k] /\ status' = status
  BY <1>2 DEF Proceed
<1>4. [step[s] EXCEPT ![side] = k] \in [Sides -> 1 .. Len(HandlerScript) + 1]
  BY DEF TypeOK
<1> QED
  BY <1>2, <1>3, <1>4 DEF TypeOK, OnlyAt

LEMMA Returns ==
  ASSUME TypeOK, NEW s \in Session, NEW side \in Sides, Return(s, side)
  PROVE  /\ step' \in [Session -> [Sides -> 1 .. Len(HandlerScript) + 1]]
         /\ status' \in [Session -> [Sides -> {"new", "running", "ended", "vanished"}]]
         /\ OnlyAt(s, side)
         /\ step'[s][side] = step[s][side] /\ status'[s][side] = "ended"
BY DEF Return, TypeOK, OnlyAt

\* What a side does to what it sent, and what was sent to it.
LEMMA Appends ==
  ASSUME TypeOK, NEW s \in Session, NEW side \in Sides, NEW msg \in Messages,
         wire' = [wire EXCEPT ![s][side] = Append(@, msg)]
  PROVE  /\ wire' \in [Session -> [Sides -> Seq(Messages)]]
         /\ \A t \in Session, x \in Sides : ~(t = s /\ x = side) => wire'[t][x] = wire[t][x]
         /\ wire'[s][side] = Append(wire[s][side], msg)
<1>1. Append(wire[s][side], msg) \in Seq(Messages)
  BY DEF TypeOK
<1> QED
  BY <1>1 DEF TypeOK

LEMMA Tails ==
  ASSUME TypeOK, NEW s \in Session, NEW side \in Sides, wire[s][side] # <<>>,
         wire' = [wire EXCEPT ![s][side] = Tail(wire[s][side])]
  PROVE  /\ wire' \in [Session -> [Sides -> Seq(Messages)]]
         /\ \A t \in Session, x \in Sides : ~(t = s /\ x = side) => wire'[t][x] = wire[t][x]
         /\ wire'[s][side] = Tail(wire[s][side])
<1>1. Tail(wire[s][side]) \in Seq(Messages)
  BY DEF TypeOK
<1> QED
  BY <1>1 DEF TypeOK

\* Everything a step of a side may do, by the kind of step.
LEMMA SendEffect ==
  ASSUME TypeOK, NEW s \in Session, NEW side \in Sides, Send(s, side)
  PROVE  /\ status[s][side] = "running" /\ step[s][side] \in 1 .. Len(Script(side))
         /\ Script(side)[step[s][side]].do = "send"
         /\ OnlyAt(s, side) /\ UNCHANGED <<peerOf, success, spammerCache, panicked>>
         /\ \A t \in Session, x \in Sides : ~(t = s /\ x = side) => wire'[t][x] = wire[t][x]
         /\ \/ /\ \E msg \in Messages : /\ msg.kind = What(s, side)
                                        /\ wire'[s][side] = Append(wire[s][side], msg)
               /\ \/ step'[s][side] = step[s][side] + 1 /\ status'[s][side] = "running"
                  \/ step'[s][side] = step[s][side] /\ status'[s][side] = "ended"
            \/ /\ wire'[s][side] = wire[s][side]
               /\ step'[s][side] = step[s][side] /\ status'[s][side] = "ended"
         /\ TypeOK'
<1>1. /\ status[s][side] = "running" /\ step[s][side] \in 1 .. Len(Script(side))
      /\ Script(side)[step[s][side]].do = "send"
      /\ UNCHANGED <<peerOf, success, spammerCache, panicked>>
  BY AtType DEF Send
<1>2. What(s, side) \in Kinds
  BY <1>1, ScriptSteps DEF What
<1>3. ASSUME NEW fits \in BOOLEAN, Proceed(s, side) \/ Return(s, side),
             wire' = [wire EXCEPT ![s][side] = Append(@, [kind |-> What(s, side), fits |-> fits])]
      PROVE  /\ \E msg \in Messages : /\ msg.kind = What(s, side)
                                     /\ wire'[s][side] = Append(wire[s][side], msg)
             /\ wire' \in [Session -> [Sides -> Seq(Messages)]]
             /\ \A t \in Session, x \in Sides : ~(t = s /\ x = side) => wire'[t][x] = wire[t][x]
  <2>1. PICK msg \in Messages : msg = [kind |-> What(s, side), fits |-> fits]
    BY <1>2 DEF Messages
  <2> QED
    BY <1>3, <2>1, Appends
<1>4. CASE \E fits \in BOOLEAN :
             /\ wire' = [wire EXCEPT ![s][side] = Append(@, [kind |-> What(s, side), fits |-> fits])]
             /\ Proceed(s, side) \/ Return(s, side)
  <2>1. CASE Proceed(s, side)
    <3>1. /\ \E msg \in Messages : /\ msg.kind = What(s, side)
                                  /\ wire'[s][side] = Append(wire[s][side], msg)
          /\ wire' \in [Session -> [Sides -> Seq(Messages)]]
          /\ \A t \in Session, x \in Sides : ~(t = s /\ x = side) => wire'[t][x] = wire[t][x]
      BY <1>3, <1>4, <2>1
    <3>2. step[s][side] <= Len(Script(side))
      BY <1>1, ScriptLengths
    <3> QED
      BY <1>1, <2>1, <3>1, <3>2, Proceeds DEF TypeOK
  <2>2. CASE Return(s, side)
    BY <1>1, <1>3, <1>4, <2>2, Returns DEF TypeOK
  <2> QED
    BY <1>4, <2>1, <2>2
<1>5. CASE Return(s, side) /\ UNCHANGED wire
  BY <1>1, <1>5, Returns DEF TypeOK
<1> QED
  BY <1>4, <1>5 DEF Send

LEMMA ReceiveEffect ==
  ASSUME TypeOK, NEW s \in Session, NEW side \in Sides, Receive(s, side)
  PROVE  /\ status[s][side] = "running" /\ step[s][side] \in 1 .. Len(Script(side))
         /\ Script(side)[step[s][side]].do = "receive"
         /\ OnlyAt(s, side) /\ UNCHANGED <<peerOf, success, spammerCache, panicked>>
         /\ \A t \in Session, x \in Sides : ~(t = s /\ x = Other(side)) => wire'[t][x] = wire[t][x]
         /\ wire[s][Other(side)] # <<>> /\ wire'[s][Other(side)] = Tail(wire[s][Other(side)])
         /\ \/ step'[s][side] = step[s][side] + 1 /\ status'[s][side] = "running"
            \/ step'[s][side] = step[s][side] /\ status'[s][side] = "ended"
         /\ TypeOK'
<1>1. /\ status[s][side] = "running" /\ step[s][side] \in 1 .. Len(Script(side))
      /\ Script(side)[step[s][side]].do = "receive"
      /\ UNCHANGED <<peerOf, success, spammerCache, panicked>> /\ wire[s][Other(side)] # <<>>
      /\ wire' = [wire EXCEPT ![s][Other(side)] = Tail(wire[s][Other(side)])]
      /\ Proceed(s, side) \/ Return(s, side)
  BY AtType DEF Receive
<1>2. /\ wire' \in [Session -> [Sides -> Seq(Messages)]]
      /\ \A t \in Session, x \in Sides : ~(t = s /\ x = Other(side)) => wire'[t][x] = wire[t][x]
      /\ wire'[s][Other(side)] = Tail(wire[s][Other(side)])
  BY <1>1, ScriptLengths, Tails
<1>3. CASE Proceed(s, side)
  BY <1>1, <1>2, <1>3, Proceeds DEF TypeOK
<1>4. CASE Return(s, side)
  BY <1>1, <1>2, <1>4, Returns DEF TypeOK
<1> QED
  BY <1>1, <1>3, <1>4

LEMMA OtherEffect ==
  ASSUME TypeOK, NEW s \in Session, NEW side \in Sides,
         ReceiveFails(s, side) \/ Verify(s, side) \/ Finish(s, side)
  PROVE  /\ status[s][side] = "running"
         /\ OnlyAt(s, side) /\ UNCHANGED <<peerOf, wire, spammerCache, panicked>>
         /\ \A t \in Session, x \in Sides : ~(t = s /\ x = side) => success'[t][x] = success[t][x]
         /\ \/ /\ step[s][side] \in 1 .. Len(Script(side)) /\ Script(side)[step[s][side]].do = "verify"
               /\ step'[s][side] = step[s][side] + 1 /\ status'[s][side] = "running"
               /\ success'[s][side] = "yes"
            \/ /\ step[s][side] \in 1 .. Len(Script(side)) /\ Script(side)[step[s][side]].do = "verify"
               /\ step'[s][side] = step[s][side] /\ status'[s][side] = "ended"
               /\ success'[s][side] = "no"
            \/ /\ step'[s][side] = step[s][side] /\ status'[s][side] = "ended"
               /\ success'[s][side] = success[s][side]
         /\ TypeOK'
<1>1. CASE ReceiveFails(s, side) \/ Finish(s, side)
  <2>1. /\ status[s][side] = "running" /\ Return(s, side)
        /\ UNCHANGED <<peerOf, wire, success, spammerCache, panicked>>
    BY <1>1 DEF ReceiveFails, Finish, At
  <2> QED
    BY <2>1, Returns DEF TypeOK
<1>2. CASE Verify(s, side)
  <2>1. /\ status[s][side] = "running" /\ step[s][side] \in 1 .. Len(Script(side))
        /\ Script(side)[step[s][side]].do = "verify"
        /\ UNCHANGED <<peerOf, wire, spammerCache, panicked>>
    BY <1>2, AtType DEF Verify
  <2>2. CASE success' = [success EXCEPT ![s][side] = "yes"] /\ Proceed(s, side)
    BY <2>1, <2>2, Proceeds DEF TypeOK
  <2>3. CASE success' = [success EXCEPT ![s][side] = "no"] /\ Return(s, side)
    BY <2>1, <2>3, Returns DEF TypeOK
  <2> QED
    BY <1>2, <2>2, <2>3 DEF Verify
<1> QED
  BY <1>1, <1>2

LEMMA TypeStep == TypeOK /\ [Next]_vars => TypeOK'
<1> SUFFICES ASSUME TypeOK, [Next]_vars PROVE TypeOK'
  OBVIOUS
<1>1. ASSUME NEW s \in Session, Open(s) \/ Vanish(s) PROVE TypeOK'
  <2>1. /\ UNCHANGED <<peerOf, step, wire, success, spammerCache, panicked>>
        /\ \/ status' = [status EXCEPT ![s] = [side \in Sides |-> "running"]]
           \/ \E x \in {"ended", "vanished"} : status' = [status EXCEPT ![s]["initiator"] = x]
    BY <1>1 DEF Open, Vanish
  <2>2. CASE status' = [status EXCEPT ![s] = [side \in Sides |-> "running"]]
    <3>1. [side \in Sides |-> "running"] \in [Sides -> {"new", "running", "ended", "vanished"}]
      OBVIOUS
    <3> QED
      BY <2>1, <2>2, <3>1 DEF TypeOK
  <2>3. CASE \E x \in {"ended", "vanished"} : status' = [status EXCEPT ![s]["initiator"] = x]
    <3>1. PICK x \in {"ended", "vanished"} : status' = [status EXCEPT ![s]["initiator"] = x]
      BY <2>3
    <3>2. [status[s] EXCEPT !["initiator"] = x] \in [Sides -> {"new", "running", "ended", "vanished"}]
      BY DEF TypeOK
    <3> QED
      BY <2>1, <3>1, <3>2 DEF TypeOK
  <2> QED
    BY <2>1, <2>2, <2>3
<1>2. ASSUME NEW s \in Session, Admit(s) PROVE TypeOK'
  <2>1. status[s]["handler"] = "running" /\ step[s]["handler"] <= Len(Script("handler"))
    BY <1>2 DEF Admit, At
  <2>2. CASE /\ spammerCache' = Added(peerOf[s]) /\ Proceed(s, "handler")
             /\ UNCHANGED <<peerOf, wire, success, panicked>>
    <3>1. spammerCache' \in Seq(Peer) /\ Len(spammerCache') <= SpammerCacheSize
      <4>1. peerOf[s] \in Peer /\ spammerCache \in Seq(Peer) /\ SpammerCacheSize \in Nat \ {0}
            /\ Len(spammerCache) <= SpammerCacheSize
        BY AuthenticationAssumption DEF TypeOK, AuthenticationAssumption
      <4>2. CASE Len(spammerCache) = SpammerCacheSize
        <5>1. spammerCache # <<>> /\ spammerCache' = Append(Tail(spammerCache), peerOf[s])
          BY <2>2, <4>1, <4>2 DEF Added
        <5> QED
          BY <4>1, <4>2, <5>1
      <4>3. CASE Len(spammerCache) # SpammerCacheSize
        BY <2>2, <4>1, <4>3 DEF Added
      <4> QED
        BY <4>2, <4>3
    <3> QED
      BY <2>1, <2>2, <3>1, Proceeds DEF TypeOK, Sides
  <2>3. CASE /\ panicked' = TRUE /\ UNCHANGED <<peerOf, step, wire, success, spammerCache>>
             /\ status' = [t \in Session |->
                  [status[t] EXCEPT !["handler"] = IF @ = "running" THEN "vanished" ELSE @]]
    BY <2>3 DEF TypeOK, Sides
  <2> QED
    BY <1>2, <2>2, <2>3 DEF Admit
<1>3. ASSUME NEW s \in Session, NEW side \in Sides, SideStep(s, side) PROVE TypeOK'
  BY <1>3, SendEffect, ReceiveEffect, OtherEffect DEF SideStep
<1>4. ASSUME UNCHANGED vars PROVE TypeOK'
  BY <1>4 DEF vars, TypeOK
<1> QED
  BY <1>1, <1>2, <1>3, <1>4 DEF Next

-----------------------------------------------------------------------------
(* The invariant *)

\* Nothing happens in a session before its stream is open.
Fresh(s) ==
  status[s]["initiator"] = "new" =>
    \A side \in Sides : step[s][side] = 1 /\ wire[s][side] = <<>> /\ status[s][side] = "new"

\* A side is past its verification exactly if that was positive.
Verified(s) ==
  /\ step[s]["handler"] >= 6 <=> success[s]["handler"] = "yes"
  /\ success[s]["initiator"] = "yes" => step[s]["initiator"] >= 8

\* What the handler has sent before it verified the initiator: one message at most.
Reserved(s) ==
  LET sent == Received("initiator", step[s]["initiator"]) + Len(wire[s]["handler"]) IN
  /\ step[s]["handler"] <= 5 => sent <= 1
  /\ step[s]["handler"] <= 3 /\ status[s]["handler"] \in {"new", "running"} => sent = 0

\* What a side sent and the other did not receive is what the other expects next.
Expected(s, side) ==
  LET other == Other(side)
      received == Received(other, step[s][other]) IN
  status[s][other] = "running" =>
    /\ \A i \in 1 .. Len(wire[s][side]) : wire[s][side][i].kind = Sends(side)[received + i]
    /\ status[s][side] = "running" => Sent(side, step[s][side]) = received + Len(wire[s][side])

SessionInv(s) ==
  Fresh(s) /\ Verified(s) /\ Reserved(s) /\ \A side \in Sides : Expected(s, side)

IInv == TypeOK /\ RevealsToVerified /\ \A s \in Session : SessionInv(s)

LEMMA InitInv == Init => IInv
<1> SUFFICES ASSUME Init PROVE RevealsToVerified /\ \A s \in Session : SessionInv(s)
  BY InitType DEF IInv
<1>1. \A s \in Session, side \in Sides :
        /\ step[s][side] = 1 /\ wire[s][side] = <<>> /\ success[s][side] = "none"
        /\ status[s][side] = "new"
  BY DEF Init
<1>2. "initiator" \in Sides /\ "handler" \in Sides /\ Received("initiator", 1) = 0
  BY DEF Sides, Received
<1>3. Len(<<>>) = 0 /\ DOMAIN <<>> = {}
  OBVIOUS
<1>4. RevealsToVerified
  BY <1>1, <1>2, <1>3 DEF RevealsToVerified
<1>5. ASSUME NEW s \in Session PROVE SessionInv(s)
  BY <1>1, <1>2, <1>3, ScriptLengths DEF SessionInv, Fresh, Verified, Reserved, Expected
<1> QED
  BY <1>4, <1>5

\* A session that a step does not touch, except that its handler may vanish.
LEMMA Untouched ==
  ASSUME IInv, NEW s \in Session,
         \A side \in Sides : /\ step'[s][side] = step[s][side] /\ wire'[s][side] = wire[s][side]
                             /\ success'[s][side] = success[s][side]
                             /\ \/ status'[s][side] = status[s][side]
                                \/ /\ status[s][side] = "running"
                                   /\ status'[s][side] \in {"ended", "vanished"}
  PROVE  SessionInv(s)'
<1> USE DEF Sides
<1>1. SessionInv(s)
  BY DEF IInv
<1>2. Fresh(s)' /\ Verified(s)' /\ Reserved(s)'
  BY <1>1 DEF SessionInv, Fresh, Verified, Reserved
<1>3. ASSUME NEW side \in Sides PROVE Expected(s, side)'
  BY <1>1, <1>3, ScriptLengths DEF SessionInv, Expected
<1> QED
  BY <1>2, <1>3 DEF SessionInv

\* A step of one side of session s, by what it does.
LEMMA SideStepInv ==
  ASSUME IInv, NEW s \in Session, NEW side \in Sides, SideStep(s, side)
  PROVE  SessionInv(s)' /\ \A i \in DOMAIN wire'[s]["handler"] :
           wire'[s]["handler"][i].kind \in {"commitment", "proof"} => success'[s]["handler"] = "yes"
<1> DEFINE other == Other(side)
           k == step[s][side]
           j == step[s][other]
<1>1. /\ TypeOK /\ SessionInv(s) /\ other \in Sides /\ Other(other) = side /\ side # other
      /\ \A x \in Sides : x = side \/ x = other
  BY ScriptLengths DEF IInv, Sides, Other
<1>2. \A i \in DOMAIN wire[s]["handler"] :
        wire[s]["handler"][i].kind \in {"commitment", "proof"} => success[s]["handler"] = "yes"
  BY DEF IInv, RevealsToVerified
<1>3. /\ k \in 1 .. 9 /\ j \in 1 .. 9
      /\ wire[s][side] \in Seq(Messages) /\ wire[s][other] \in Seq(Messages)
  BY <1>1, ScriptLengths DEF TypeOK
<1>0. /\ Received(side, k) \in Nat /\ Received(other, j) \in Nat
      /\ Sent(side, k) \in Nat /\ Sent(other, j) \in Nat
  <2>1. \A x \in Sides, n \in 1 .. 9 : Sent(x, n) \in 0 .. 3 /\ Received(x, n) \in 0 .. 3
    BY Counts
  <2>2. \A n \in 0 .. 3 : n \in Nat
    OBVIOUS
  <2> HIDE DEF k, j, other
  <2> QED
    BY <1>1, <1>3, <2>1, <2>2
<1>4. CASE Send(s, side)
  <2>1. /\ status[s][side] = "running" /\ k \in 1 .. Len(Script(side)) /\ Script(side)[k].do = "send"
        /\ step'[s][other] = j /\ status'[s][other] = status[s][other]
        /\ wire'[s][other] = wire[s][other] /\ success' = success
    BY <1>1, <1>4, SendEffect DEF OnlyAt
  <2>2. What(s, side) = Sends(side)[Sent(side, k) + 1]
    BY <2>1, ScriptSteps DEF What
  <2>3. \/ /\ \E msg \in Messages : msg.kind = What(s, side) /\ wire'[s][side] = Append(wire[s][side], msg)
           /\ \/ step'[s][side] = k + 1 /\ status'[s][side] = "running"
              \/ step'[s][side] = k /\ status'[s][side] = "ended"
        \/ /\ wire'[s][side] = wire[s][side]
           /\ step'[s][side] = k /\ status'[s][side] = "ended"
    BY <1>1, <1>4, SendEffect
  <2>4. Fresh(s)'
    BY <1>1, <2>1, <2>3 DEF Fresh, SessionInv, Sides
  <2>5. Verified(s)'
    BY <1>1, <1>3, <2>1, <2>3, ScriptSteps DEF Verified, SessionInv, Sides, Other
  <2>a. /\ Received(side, k + 1) = Received(side, k) /\ Sent(side, k + 1) = Sent(side, k) + 1
        /\ side = "handler" => k \in {3, 6, 8}
    BY <2>1, ScriptSteps
  <2>b. \/ /\ Len(wire'[s][side]) = Len(wire[s][side]) + 1
           /\ \A i \in 1 .. Len(wire[s][side]) : wire'[s][side][i] = wire[s][side][i]
           /\ wire'[s][side][Len(wire[s][side]) + 1].kind = What(s, side)
        \/ wire'[s][side] = wire[s][side] /\ status'[s][side] = "ended"
    BY <1>3, <2>3
  <2>c. /\ Len(wire[s][side]) \in Nat /\ DOMAIN wire'[s][side] = 1 .. Len(wire'[s][side])
        /\ DOMAIN wire[s][side] = 1 .. Len(wire[s][side])
    BY <1>3, <2>3
  <2>6. Reserved(s)'
    <3>1. CASE side = "handler"
      <4>1. other = "initiator" /\ k \in {3, 6, 8} /\ step'[s][side] \in {k, k + 1}
        BY <2>3, <2>a, <3>1 DEF Other
      <4>2. k = 3 => Received(other, j) + Len(wire[s][side]) = 0
        BY <1>1, <2>1, <3>1, <4>1 DEF Reserved, SessionInv
      <4>3. k = 3 => Received(other, j) = 0 /\ Len(wire[s][side]) = 0
        BY <1>0, <2>c, <4>2
      <4>4. k = 3 => Received(other, j) + Len(wire'[s][side]) \in {0, 1}
        BY <2>b, <2>c, <4>3
      <4>5. k = 3 /\ step'[s][side] = 3 => status'[s][side] = "ended"
        BY <2>3
      <4>6. k # 3 => step'[s][side] > 5
        BY <4>1
      <4>7. Received("initiator", step'[s]["initiator"]) + Len(wire'[s]["handler"])
              = Received(other, j) + Len(wire'[s][side])
        BY <2>1, <3>1, <4>1
      <4> QED
        BY <3>1, <4>1, <4>4, <4>5, <4>6, <4>7 DEF Reserved
    <3>2. CASE side = "initiator"
      <4>1. other = "handler" /\ Received(side, step'[s][side]) = Received(side, k)
        BY <2>3, <2>a, <3>2 DEF Other
      <4> QED
        BY <1>1, <2>1, <3>2, <4>1 DEF Reserved, SessionInv
    <3> QED
      BY <3>1, <3>2 DEF Sides
  <2>7. Expected(s, side)'
    <3> SUFFICES ASSUME status[s][other] = "running"
                 PROVE  /\ \A i \in 1 .. Len(wire'[s][side]) :
                             wire'[s][side][i].kind = Sends(side)[Received(other, j) + i]
                        /\ status'[s][side] = "running" =>
                             Sent(side, step'[s][side]) = Received(other, j) + Len(wire'[s][side])
      BY <2>1 DEF Expected
    <3>1. /\ \A i \in 1 .. Len(wire[s][side]) : wire[s][side][i].kind = Sends(side)[Received(other, j) + i]
          /\ Sent(side, k) = Received(other, j) + Len(wire[s][side])
      BY <1>1, <2>1 DEF Expected, SessionInv
    <3>2. CASE wire'[s][side] = wire[s][side] /\ status'[s][side] = "ended"
      BY <3>1, <3>2
    <3>3. CASE /\ Len(wire'[s][side]) = Len(wire[s][side]) + 1
               /\ \A i \in 1 .. Len(wire[s][side]) : wire'[s][side][i] = wire[s][side][i]
               /\ wire'[s][side][Len(wire[s][side]) + 1].kind = What(s, side)
      <4>1. Sent(side, k) + 1 = Received(other, j) + Len(wire'[s][side])
        BY <1>0, <2>c, <3>1, <3>3
      <4>2. wire'[s][side][Len(wire'[s][side])].kind = Sends(side)[Received(other, j) + Len(wire'[s][side])]
        BY <2>2, <3>3, <4>1
      <4>3. \A i \in 1 .. Len(wire'[s][side]) : i \in 1 .. Len(wire[s][side]) \/ i = Len(wire'[s][side])
        BY <2>c, <3>3
      <4>4. \A i \in 1 .. Len(wire'[s][side]) :
              wire'[s][side][i].kind = Sends(side)[Received(other, j) + i]
        BY <3>1, <3>3, <4>2, <4>3
      <4> QED
        BY <2>3, <2>a, <4>1, <4>4
    <3> QED
      BY <2>b, <3>2, <3>3
  <2>8. Expected(s, other)'
    BY <1>1, <1>3, <2>1, <2>3, <2>a DEF Expected, SessionInv
  <2>9. \A i \in DOMAIN wire'[s]["handler"] :
          wire'[s]["handler"][i].kind \in {"commitment", "proof"} => success'[s]["handler"] = "yes"
    <3>1. CASE side = "handler"
      <4>1. k = 3 => What(s, side) = "challenge"
        BY <2>2, <3>1 DEF Sends, Sent
      <4>2. k # 3 => success[s]["handler"] = "yes"
        BY <1>1, <2>a, <3>1 DEF Verified, SessionInv
      <4>3. \A i \in DOMAIN wire'[s][side] :
              \/ i \in DOMAIN wire[s][side] /\ wire'[s][side][i] = wire[s][side][i]
              \/ wire'[s][side][i].kind = What(s, side)
        <5>1. CASE wire'[s][side] = wire[s][side]
          BY <5>1
        <5>2. CASE /\ Len(wire'[s][side]) = Len(wire[s][side]) + 1
                   /\ \A i \in 1 .. Len(wire[s][side]) : wire'[s][side][i] = wire[s][side][i]
                   /\ wire'[s][side][Len(wire[s][side]) + 1].kind = What(s, side)
          <6> SUFFICES ASSUME NEW i \in 1 .. Len(wire[s][side]) + 1
                       PROVE  \/ i \in 1 .. Len(wire[s][side]) /\ wire'[s][side][i] = wire[s][side][i]
                              \/ wire'[s][side][i].kind = What(s, side)
            BY <2>c, <5>2
          <6>1. i \in 1 .. Len(wire[s][side]) \/ i = Len(wire[s][side]) + 1
            BY <2>c
          <6> QED
            BY <5>2, <6>1
        <5> QED
          BY <2>b, <5>1, <5>2
      <4> QED
        BY <1>2, <2>1, <3>1, <4>1, <4>2, <4>3
    <3>2. CASE side = "initiator"
      BY <1>2, <2>1, <3>2 DEF Other
    <3> QED
      BY <3>1, <3>2 DEF Sides
  <2> QED
    BY <1>1, <2>4, <2>5, <2>6, <2>7, <2>8, <2>9 DEF SessionInv
<1>5. CASE Receive(s, side)
  <2>1. /\ status[s][side] = "running" /\ k \in 1 .. Len(Script(side)) /\ Script(side)[k].do = "receive"
        /\ step'[s][other] = j /\ status'[s][other] = status[s][other]
        /\ wire'[s][side] = wire[s][side] /\ success' = success
        /\ wire[s][other] # <<>> /\ wire'[s][other] = Tail(wire[s][other])
        /\ \/ step'[s][side] = k + 1 /\ status'[s][side] = "running"
           \/ step'[s][side] = k /\ status'[s][side] = "ended"
    BY <1>1, <1>5, ReceiveEffect DEF OnlyAt
  <2>2. /\ Len(wire'[s][other]) = Len(wire[s][other]) - 1
        /\ \A i \in 1 .. Len(wire'[s][other]) : wire'[s][other][i] = wire[s][other][i + 1]
    BY <1>3, <2>1
  <2>4. Fresh(s)'
    BY <1>1, <2>1 DEF Fresh, SessionInv, Sides
  <2>5. Verified(s)'
    BY <1>1, <1>3, <2>1, ScriptSteps DEF Verified, SessionInv, Sides, Other
  <2>a. /\ Received(side, k + 1) = Received(side, k) + 1 /\ Sent(side, k + 1) = Sent(side, k)
        /\ Len(wire[s][other]) \in Nat \ {0}
    BY <1>3, <2>1, ScriptSteps
  <2>b. /\ DOMAIN wire'[s][other] = 1 .. Len(wire'[s][other])
        /\ DOMAIN wire[s][other] = 1 .. Len(wire[s][other])
    BY <1>3, <2>1
  <2>6. Reserved(s)'
    <3>1. CASE side = "handler"
      <4>1. other = "initiator" /\ k \in 1 .. 8 /\ k # 3
        BY <2>1, <3>1, ScriptLengths DEF Other, Script, HandlerScript
      <4>2. k \in Int /\ step'[s][side] \in {k, k + 1}
        BY <2>1, <4>1
      <4>3. step'[s][side] <= 5 => k <= 5
        BY <4>2
      <4>4. step'[s][side] <= 3 /\ status'[s][side] \in {"new", "running"} =>
              k <= 3 /\ status[s][side] = "running"
        BY <2>1, <4>2
      <4>5. Received("initiator", step'[s]["initiator"]) + Len(wire'[s]["handler"])
              = Received("initiator", step[s]["initiator"]) + Len(wire[s]["handler"])
        BY <2>1, <3>1, <4>1
      <4> QED
        BY <1>1, <3>1, <4>3, <4>4, <4>5 DEF Reserved, SessionInv
    <3>2. CASE side = "initiator"
      <4>1. other = "handler"
        BY <3>2 DEF Other
      <4>2. PICK m \in Nat \ {0}, n \in Nat : m = Len(wire[s][other]) /\ n = Received(side, k)
        BY <1>0, <2>a
      <4>3. PICK n1 \in {n, n + 1} : n1 = Received(side, step'[s][side])
        BY <2>1, <2>a, <4>2
      <4>4. Len(wire'[s][other]) = m - 1
        BY <2>2, <4>2
      <4>5. /\ j <= 5 => n + m <= 1
            /\ ~(j <= 3 /\ status[s][other] \in {"new", "running"} /\ n + m # 0)
        BY <1>1, <3>2, <4>1, <4>2 DEF Reserved, SessionInv
      <4>6. n + m # 0 /\ (n + m <= 1 => n1 + (m - 1) <= 1)
        BY <4>2, <4>3
      <4>7. /\ j <= 5 => n1 + (m - 1) <= 1
            /\ ~(j <= 3 /\ status[s][other] \in {"new", "running"})
        BY <4>5, <4>6
      <4>8. Received("initiator", step'[s]["initiator"]) + Len(wire'[s]["handler"]) = n1 + (m - 1)
        BY <3>2, <4>1, <4>3, <4>4
      <4> QED
        BY <2>1, <3>2, <4>1, <4>7, <4>8 DEF Reserved
    <3> QED
      BY <3>1, <3>2 DEF Sides
  <2>7. Expected(s, side)'
    BY <1>1, <2>1, <2>a DEF Expected, SessionInv
  <2>8. Expected(s, other)'
    <3> SUFFICES ASSUME status'[s][side] = "running"
                 PROVE  /\ \A i \in 1 .. Len(wire'[s][other]) :
                             wire'[s][other][i].kind = Sends(other)[Received(side, k + 1) + i]
                        /\ status[s][other] = "running" =>
                             Sent(other, j) = Received(side, k + 1) + Len(wire'[s][other])
      BY <1>1, <2>1 DEF Expected
    <3>1. /\ \A i \in 1 .. Len(wire[s][other]) : wire[s][other][i].kind = Sends(other)[Received(side, k) + i]
          /\ status[s][other] = "running" => Sent(other, j) = Received(side, k) + Len(wire[s][other])
      BY <1>1, <2>1 DEF Expected, SessionInv
    <3>2. ASSUME NEW i \in 1 .. Len(wire'[s][other])
          PROVE  wire'[s][other][i].kind = Sends(other)[Received(side, k + 1) + i]
      <4>1. i + 1 \in 1 .. Len(wire[s][other]) /\ Received(side, k + 1) + i = Received(side, k) + (i + 1)
        <5>1. PICK m \in Nat \ {0}, n \in Nat : m = Len(wire[s][other]) /\ n = Received(side, k)
          BY <1>0, <2>a
        <5>2. Len(wire'[s][other]) = m - 1 /\ Received(side, k + 1) = n + 1
          BY <2>2, <2>a, <5>1
        <5>3. i \in 1 .. m - 1
          BY <5>2
        <5>4. i + 1 \in 1 .. m /\ (n + 1) + i = n + (i + 1)
          BY <5>1, <5>3
        <5> QED
          BY <5>1, <5>2, <5>4
      <4> QED
        BY <2>2, <3>1, <4>1
    <3>3. Received(side, k + 1) + Len(wire'[s][other]) = Received(side, k) + Len(wire[s][other])
      <4>1. PICK m \in Nat \ {0}, n \in Nat : m = Len(wire[s][other]) /\ n = Received(side, k)
        BY <1>0, <2>a
      <4>2. Len(wire'[s][other]) = m - 1 /\ Received(side, k + 1) = n + 1
        BY <2>2, <2>a, <4>1
      <4>3. (n + 1) + (m - 1) = n + m
        BY <4>1
      <4> QED
        BY <4>1, <4>2, <4>3
    <3> QED
      BY <3>1, <3>2, <3>3
  <2>9. \A i \in DOMAIN wire'[s]["handler"] :
          wire'[s]["handler"][i].kind \in {"commitment", "proof"} => success'[s]["handler"] = "yes"
    <3>1. CASE side = "handler"
      BY <1>2, <2>1, <3>1
    <3>2. CASE side = "initiator"
      <4>1. \A i \in DOMAIN wire'[s][other] :
              i + 1 \in DOMAIN wire[s][other] /\ wire'[s][other][i] = wire[s][other][i + 1]
        BY <2>2, <2>a, <2>b
      <4> QED
        BY <1>2, <2>1, <3>2, <4>1 DEF Other
    <3> QED
      BY <3>1, <3>2 DEF Sides
  <2> QED
    BY <1>1, <2>4, <2>5, <2>6, <2>7, <2>8, <2>9 DEF SessionInv
<1>6. CASE ReceiveFails(s, side) \/ Verify(s, side) \/ Finish(s, side)
  <2>1. /\ status[s][side] = "running"
        /\ step'[s][other] = j /\ status'[s][other] = status[s][other]
        /\ wire' = wire /\ success'[s][other] = success[s][other]
        /\ \/ /\ k \in 1 .. Len(Script(side)) /\ Script(side)[k].do = "verify"
              /\ step'[s][side] = k + 1 /\ status'[s][side] = "running" /\ success'[s][side] = "yes"
           \/ /\ k \in 1 .. Len(Script(side)) /\ Script(side)[k].do = "verify"
              /\ step'[s][side] = k /\ status'[s][side] = "ended" /\ success'[s][side] = "no"
           \/ /\ step'[s][side] = k /\ status'[s][side] = "ended"
              /\ success'[s][side] = success[s][side]
    BY <1>1, <1>6, OtherEffect DEF OnlyAt
  <2>4. Fresh(s)'
    BY <1>1, <2>1 DEF Fresh, SessionInv, Sides
  <2>5. Verified(s)'
    BY <1>1, <1>3, <2>1, ScriptSteps DEF Verified, SessionInv, Sides, Other
  <2>a. (k \in 1 .. Len(Script(side)) /\ Script(side)[k].do = "verify") =>
          /\ Received(side, k + 1) = Received(side, k)
          /\ k = IF side = "initiator" THEN 7 ELSE 5
    BY ScriptSteps
  <2>6. Reserved(s)'
    <3>1. CASE side = "handler"
      BY <1>1, <1>3, <1>0, <2>1, <2>a, <3>1 DEF Reserved, SessionInv, Other
    <3>2. CASE side = "initiator"
      BY <1>1, <1>3, <1>0, <2>1, <2>a, <3>2 DEF Reserved, SessionInv, Other
    <3> QED
      BY <3>1, <3>2 DEF Sides
  <2>7. Expected(s, side)' /\ Expected(s, other)'
    BY <1>1, <1>3, <2>1, ScriptSteps DEF Expected, SessionInv
  <2>8. success[s]["handler"] = "yes" => success'[s]["handler"] = "yes"
    BY <1>1, <2>1, ScriptSteps DEF Verified, SessionInv, Sides, Other
  <2> QED
    BY <1>1, <1>2, <2>1, <2>4, <2>5, <2>6, <2>7, <2>8 DEF SessionInv
<1> QED
  BY <1>4, <1>5, <1>6 DEF SideStep

\* Opening a session, or failing to.
LEMMA OpenInv ==
  ASSUME IInv, NEW s \in Session, Open(s)
  PROVE  SessionInv(s)'
<1>1. /\ \A side \in Sides : step[s][side] = 1 /\ wire[s][side] = <<>> /\ status[s][side] = "new"
      /\ SessionInv(s) /\ UNCHANGED <<step, wire, success>> /\ TypeOK
  BY DEF Open, IInv, SessionInv, Fresh
<1>2. \/ \A side \in Sides : status'[s][side] = "running"
      \/ status'[s]["initiator"] = "ended" /\ status'[s]["handler"] = status[s]["handler"]
  BY <1>1 DEF Open, TypeOK, Sides
<1>3. Fresh(s)' /\ Verified(s)' /\ Reserved(s)'
  <2>1. Received("initiator", 1) = 0 /\ Len(<<>>) = 0 /\ 0 + 0 = 0
    BY DEF Received
  <2> QED
    BY <1>1, <1>2, <2>1 DEF Fresh, Verified, Reserved, SessionInv, Sides
<1>4. ASSUME NEW side \in Sides PROVE Expected(s, side)'
  <2>1. Other(side) \in Sides /\ Sent(side, 1) = 0 /\ Received(Other(side), 1) = 0 /\ Len(<<>>) = 0
    BY ScriptLengths DEF Sent, Received
  <2> QED
    BY <1>1, <2>1 DEF Expected
<1> QED
  BY <1>3, <1>4 DEF SessionInv

\* The handler admits its peer.
LEMMA AdmitInv ==
  ASSUME IInv, NEW s \in Session, At(s, "handler", "admit"), Proceed(s, "handler"),
         UNCHANGED <<wire, success>>
  PROVE  SessionInv(s)'
<1>1. /\ TypeOK /\ SessionInv(s) /\ step[s]["handler"] = 1 /\ status[s]["handler"] = "running"
      /\ step'[s]["handler"] = 2 /\ step'[s]["initiator"] = step[s]["initiator"]
      /\ UNCHANGED <<wire, success, status>>
  <2>1. TypeOK /\ SessionInv(s) /\ "handler" \in Sides /\ "initiator" \in Sides
    BY DEF IInv, Sides
  <2>2. /\ step[s]["handler"] \in 1 .. Len(Script("handler")) /\ status[s]["handler"] = "running"
        /\ Script("handler")[step[s]["handler"]].do = "admit"
    BY <2>1, AtType
  <2>3. step[s]["handler"] = 1
    BY <2>1, <2>2, ScriptSteps
  <2>4. step' = [step EXCEPT ![s]["handler"] = 2] /\ status' = status
    BY <2>3 DEF Proceed
  <2> QED
    BY <2>1, <2>2, <2>3, <2>4 DEF TypeOK
<1>2. Fresh(s)' /\ Verified(s)' /\ Reserved(s)'
  BY <1>1 DEF Fresh, Verified, Reserved, SessionInv, Sides
<1>3. ASSUME NEW side \in Sides PROVE Expected(s, side)'
  <2>1. \A x \in Sides : /\ Sent(x, step'[s][x]) = Sent(x, step[s][x])
                         /\ Received(x, step'[s][x]) = Received(x, step[s][x])
    BY <1>1 DEF Sent, Received, Sides
  <2>2. Expected(s, side) /\ side \in Sides /\ Other(side) \in Sides
    BY <1>1, ScriptLengths DEF SessionInv
  <2> QED
    BY <1>1, <2>1, <2>2 DEF Expected
<1> QED
  BY <1>2, <1>3 DEF SessionInv

LEMMA InvStep == IInv /\ [Next]_vars => IInv'
<1> SUFFICES ASSUME IInv, [Next]_vars
             PROVE  /\ \A s \in Session : SessionInv(s)'
                    /\ RevealsToVerified'
  BY TypeStep DEF IInv
<1>1. TypeOK /\ RevealsToVerified
  BY DEF IInv
<1>2. ASSUME NEW s \in Session, Open(s) \/ Vanish(s)
      PROVE  (\A t \in Session : SessionInv(t)') /\ RevealsToVerified'
  <2>1. UNCHANGED <<step, wire, success>>
    BY <1>2 DEF Open, Vanish
  <2>2. \A t \in Session \ {s} : status'[t] = status[t]
    BY <1>1, <1>2 DEF Open, Vanish, TypeOK
  <2>3. ASSUME NEW t \in Session, t # s PROVE SessionInv(t)'
    BY <2>1, <2>2, <2>3, Untouched
  <2>4. ASSUME Open(s) PROVE SessionInv(s)'
    BY <2>4, OpenInv
  <2>5. ASSUME Vanish(s) PROVE SessionInv(s)'
    <3>1. /\ status[s]["initiator"] = "running" /\ status'[s]["initiator"] = "vanished"
          /\ status'[s]["handler"] = status[s]["handler"]
      BY <1>1, <2>5 DEF Vanish, TypeOK, Sides
    <3> QED
      BY <2>1, <3>1, Untouched DEF Sides
  <2> QED
    BY <1>1, <1>2, <2>1, <2>3, <2>4, <2>5 DEF RevealsToVerified
<1>3. ASSUME NEW s \in Session, Admit(s)
      PROVE  (\A t \in Session : SessionInv(t)') /\ RevealsToVerified'
  <2>1. UNCHANGED <<wire, success>> /\ At(s, "handler", "admit")
    BY <1>3 DEF Admit
  <2>2. ASSUME Proceed(s, "handler") PROVE \A t \in Session : SessionInv(t)'
    <3>1. \A t \in Session \ {s} : status'[t] = status[t] /\ step'[t] = step[t]
      BY <1>1, <2>2 DEF Proceed, TypeOK
    <3>2. ASSUME NEW t \in Session, t # s PROVE SessionInv(t)'
      BY <2>1, <3>1, <3>2, Untouched
    <3>3. SessionInv(s)'
      BY <2>1, <2>2, AdmitInv
    <3> QED
      BY <3>2, <3>3
  <2>3. ASSUME /\ UNCHANGED step
               /\ status' = [t \in Session |->
                    [status[t] EXCEPT !["handler"] = IF @ = "running" THEN "vanished" ELSE @]]
        PROVE  \A t \in Session : SessionInv(t)'
    <3>1. \A t \in Session, x \in Sides :
            \/ status'[t][x] = status[t][x]
            \/ status[t][x] = "running" /\ status'[t][x] = "vanished"
      BY <1>1, <2>3 DEF TypeOK, Sides
    <3> QED
      BY <2>1, <2>3, <3>1, Untouched
  <2> QED
    BY <1>1, <1>3, <2>1, <2>2, <2>3 DEF Admit, RevealsToVerified
<1>4. ASSUME NEW s \in Session, NEW side \in Sides, SideStep(s, side)
      PROVE  (\A t \in Session : SessionInv(t)') /\ RevealsToVerified'
  <2>1. \A t \in Session \ {s}, x \in Sides :
          /\ step'[t][x] = step[t][x] /\ status'[t][x] = status[t][x]
          /\ wire'[t][x] = wire[t][x] /\ success'[t][x] = success[t][x]
    <3>1. CASE Send(s, side)
      BY <1>1, <3>1, SendEffect DEF OnlyAt
    <3>2. CASE Receive(s, side)
      BY <1>1, <3>2, ReceiveEffect DEF OnlyAt
    <3>3. CASE ReceiveFails(s, side) \/ Verify(s, side) \/ Finish(s, side)
      BY <1>1, <3>3, OtherEffect DEF OnlyAt
    <3> QED
      BY <1>4, <3>1, <3>2, <3>3 DEF SideStep
  <2>2. ASSUME NEW t \in Session, t # s PROVE SessionInv(t)'
    BY <2>1, <2>2, Untouched
  <2> QED
    BY <1>1, <1>4, <2>1, <2>2, SideStepInv DEF RevealsToVerified, Sides
<1>5. ASSUME UNCHANGED vars
      PROVE  (\A t \in Session : SessionInv(t)') /\ RevealsToVerified'
  BY <1>1, <1>5, Untouched DEF vars, RevealsToVerified
<1> QED
  BY <1>2, <1>3, <1>4, <1>5 DEF Next

-----------------------------------------------------------------------------
(* The theorems *)

\* Everything reachable satisfies the invariant.
THEOREM AuthenticationInvariance == SafeSpec => []IInv
<1> QED
  BY InitInv, InvStep, PTL DEF SafeSpec

\* The variables keep their types; the spammer cache keeps its capacity.
THEOREM AuthenticationTypeCorrect == SafeSpec => []TypeOK
<1>1. IInv => TypeOK
  BY DEF IInv
<1> QED
  BY <1>1, AuthenticationInvariance, PTL

\* The accepting client reveals its commitment and its proof only to a peer
\* whose proof it has verified (authHandler).
THEOREM RevealsOnlyToVerified == SafeSpec => []RevealsToVerified
<1>1. IInv => RevealsToVerified
  BY DEF IInv
<1> QED
  BY <1>1, AuthenticationInvariance, PTL

\* When auth succeeds, authHandler has verified the other side as well.
THEOREM SuccessAlwaysMutual == SafeSpec => []SuccessIsMutual
<1>1. IInv => SuccessIsMutual
  <2> SUFFICES ASSUME IInv, NEW s \in Session, success[s]["initiator"] = "yes"
               PROVE  success[s]["handler"] = "yes"
    BY DEF SuccessIsMutual
  <2>1. TypeOK /\ Verified(s) /\ Reserved(s)
    BY DEF IInv, SessionInv
  <2>2. step[s]["initiator"] \in 1 .. 9 /\ step[s]["handler"] \in 1 .. 9 /\ step[s]["initiator"] >= 8
        /\ wire[s]["handler"] \in Seq(Messages)
    BY <2>1, ScriptLengths DEF TypeOK, Verified, Sides
  <2>3. Received("initiator", step[s]["initiator"]) = 3 /\ Len(wire[s]["handler"]) \in Nat
    BY <2>2 DEF Received
  <2>4. ~(step[s]["handler"] <= 5)
    BY <2>1, <2>3 DEF Reserved
  <2> QED
    BY <2>1, <2>2, <2>4 DEF Verified
<1> QED
  BY <1>1, AuthenticationInvariance, PTL

\* Whatever fails, a message is received as what it was sent as.
THEOREM AlwaysInStep == SafeSpec => InStep
<1>1. ASSUME IInv, NEW s \in Session, NEW side \in Sides, Receive(s, side)
      PROVE  Head(wire[s][Other(side)]).kind = What(s, side)
  <2> DEFINE other == Other(side)
             k == step[s][side]
  <2>1. /\ TypeOK /\ other \in Sides /\ Other(other) = side /\ Expected(s, other)
        /\ status[s][side] = "running" /\ wire[s][other] # <<>>
        /\ k \in 1 .. Len(Script(side)) /\ Script(side)[k].do = "receive"
    BY <1>1, ScriptLengths, ReceiveEffect DEF IInv, SessionInv
  <2>2. wire[s][other] \in Seq(Messages) /\ 1 \in 1 .. Len(wire[s][other])
        /\ Head(wire[s][other]) = wire[s][other][1]
    BY <2>1 DEF TypeOK
  <2>3. Script(side)[k].what = Sends(other)[Received(side, k) + 1]
    BY <2>1, ScriptSteps
  <2> QED
    BY <2>1, <2>2, <2>3 DEF Expected, What
<1>2. IInv /\ [Next]_vars =>
        [\A s \in Session, side \in Sides :
           Receive(s, side) => Head(wire[s][Other(side)]).kind = What(s, side)]_vars
  BY <1>1
<1> QED
  BY <1>2, AuthenticationInvariance, PTL DEF SafeSpec, InStep
=============================================================================
