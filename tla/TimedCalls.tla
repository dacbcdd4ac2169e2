----------------------------- MODULE TimedCalls -----------------------------
(***************************************************************************)
(* What callers of WriteWithTimeout and ReadWithTimeout may rely on, and   *)
(* what they may not: a call always returns; nil means that its bytes were *)
(* transferred; an error means nothing, since the transfer may have taken  *)
(* place and may still take place after the call has returned.  Modules    *)
(* Broadcast, Pairing and Authentication treat every read and write as a   *)
(* call of this kind.                                                      *)
(***************************************************************************)
CONSTANT Call

VARIABLES
  status,      \* status[c]: "idle", "pending", or what the call returned
  transferred  \* the calls whose bytes were transferred

vars == <<status, transferred>>

Init ==
  /\ status = [c \in Call |-> "idle"]
  /\ transferred = {}

Begin(c) ==
  /\ status[c] = "idle"
  /\ status' = [status EXCEPT ![c] = "pending"]
  /\ UNCHANGED transferred

\* Also after the call has returned an error.
Transfer(c) ==
  /\ status[c] \in {"pending", "error"}
  /\ transferred' = transferred \union {c}
  /\ UNCHANGED status

Return(c) ==
  /\ status[c] = "pending"
  /\ \/ c \in transferred /\ status' = [status EXCEPT ![c] = "ok"]
     \/ status' = [status EXCEPT ![c] = "error"]
  /\ UNCHANGED transferred

Next == \E c \in Call : Begin(c) \/ Transfer(c) \/ Return(c)

SafeSpec == Init /\ [][Next]_vars

Spec == SafeSpec /\ \A c \in Call : WF_vars(Return(c))
=============================================================================
