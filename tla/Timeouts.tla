------------------------------ MODULE Timeouts ------------------------------
(***************************************************************************)
(* Reads and writes with timeouts on one direction of a stream, and the    *)
(* integers they carry: WriteWithTimeout, ReadWithTimeout and the big-     *)
(* endian codec of util/util.go.  Every call starts a goroutine that does  *)
(* the transfer and sends its outcome on a channel of capacity one; the    *)
(* caller waits for the channel or for a timer.  A goroutine whose caller  *)
(* has given up goes on.                                                   *)
(*                                                                         *)
(* One end writes integers, one call after the other; it may go on after a *)
(* failed call, as broadcast does with the next artifact.  The other end   *)
(* reads them in the same order and gives the stream up after a failed     *)
(* call, as every caller in p2p does.  The stream (go-libp2p-net) takes    *)
(* writes one by one, keeps bytes in order and may be closed at any time.  *)
(***************************************************************************)
EXTENDS Integers, Sequences, FiniteSets

CONSTANTS
  Base,    \* bound of the model: the number of values of a byte, 256 in the code
  Format,  \* Format[i]: the i-th integer sent, [width in bytes, signed]
  Window   \* bytes the stream takes before they are read

ASSUME TimeoutsAssumption ==
  /\ Base \in Nat \ {0, 1}
  /\ Format \in Seq([width : Nat \ {0}, signed : BOOLEAN])
  /\ Window \in Nat \ {0}

Turn == DOMAIN Format
Call == {"write", "read"} \X Turn

VARIABLES
  caller,     \* caller[c]: where the function called is
  goroutine,  \* goroutine[c]: where the goroutine it started is
  result,     \* result[c]: what is in the channel between the two
  number,     \* number[c]: the integer written, or the one that was read
  bytes,      \* bytes[c]: written so far, or read so far
  wire,       \* bytes that were written and not read yet
  closed      \* the stream was closed

vars == <<caller, goroutine, result, number, bytes, wire, closed>>

Outcomes == {"ok", "error", "timeout"}

\* How many values width bytes have.
Values(width) ==
  LET values[i \in 0 .. width] == IF i = 0 THEN 1 ELSE Base * values[i - 1]
  IN values[width]

\* The integers of format f.
Numbers(f) ==
  LET n == Values(f.width) IN
  IF f.signed THEN -(n \div 2) .. ((n - 1) \div 2) ELSE 0 .. n - 1

TypeOK ==
  /\ caller \in [Call -> {"idle", "selecting", "expired", "receiving", "ok", "error"}]
  /\ goroutine \in [Call -> {"none", "transferring", "done", "failed", "ended"}]
  /\ result \in [Call -> Seq(Outcomes)] /\ \A c \in Call : Len(result[c]) <= 1
  /\ number \in [Call -> Int] /\ \A c \in Call : number[c] \in Numbers(Format[c[2]])
  /\ bytes \in [Call -> Seq(0 .. Base - 1)]
  /\ \A c \in Call : Len(bytes[c]) <= Format[c[2]].width
  /\ wire \in Seq(0 .. Base - 1) /\ Len(wire) <= Window
  /\ closed \in BOOLEAN

Init ==
  /\ caller = [c \in Call |-> "idle"]
  /\ goroutine = [c \in Call |-> "none"]
  /\ result = [c \in Call |-> <<>>]
  /\ number = [c \in Call |-> 0]
  /\ bytes = [c \in Call |-> <<>>]
  /\ wire = <<>>
  /\ closed = FALSE

-----------------------------------------------------------------------------
(* The big-endian codec, for unsigned and for two's complement integers *)

\* Byte i is what is left of n after shifting the bytes behind it away.
EncodeBigEndian(n, f) ==
  LET shifted[i \in 0 .. f.width] ==
        IF i = 0 THEN n % Values(f.width) ELSE shifted[i - 1] \div Base
  IN [i \in 1 .. f.width |-> shifted[f.width - i] % Base]

DecodeUnsigned(data) ==
  LET value[i \in 0 .. Len(data)] ==
        IF i = 0 THEN 0 ELSE value[i - 1] * Base + data[i]
  IN value[Len(data)]
DecodeBigEndian(data, f) ==
  LET n == DecodeUnsigned(data) IN
  IF n \in Numbers(f) THEN n ELSE n - Values(f.width)

-----------------------------------------------------------------------------
(* The caller *)

Returned(c) == caller[c] \in {"ok", "error"}

\* The call before c at its end of the stream has returned, a read with success.
MayFollowAnything(c) ==  \* mutated form: read on after a failed read
  \A i \in 1 .. c[2] - 1 : Returned(<<c[1], i>>)
MayFollow(c) ==
  \A i \in 1 .. c[2] - 1 :
    IF c[1] = "read" THEN caller[<<"read", i>>] = "ok" ELSE Returned(<<"write", i>>)

Begin(c) ==
  /\ caller[c] = "idle" /\ MayFollow(c)
  /\ caller' = [caller EXCEPT ![c] = "selecting"]
  /\ goroutine' = [goroutine EXCEPT ![c] = "transferring"]
  /\ IF c[1] = "write"
     THEN \E n \in Numbers(Format[c[2]]) : number' = [number EXCEPT ![c] = n]
     ELSE UNCHANGED number
  /\ UNCHANGED <<result, bytes, wire, closed>>

\* The caller takes a value from the channel and returns; the integer is decoded
\* if the value is nil.
Receive(c) ==
  /\ caller[c] \in {"selecting", "receiving"}
  /\ result[c] # <<>>
  /\ result' = [result EXCEPT ![c] = Tail(@)]
  /\ IF Head(result[c]) = "ok"
     THEN /\ caller' = [caller EXCEPT ![c] = "ok"]
          /\ number' = [number EXCEPT ![c] =
               IF c[1] = "read" THEN DecodeBigEndian(bytes[c], Format[c[2]]) ELSE @]
     ELSE /\ caller' = [caller EXCEPT ![c] = "error"]
          /\ UNCHANGED number
  /\ UNCHANGED <<goroutine, bytes, wire, closed>>

TimerFires(c) ==
  /\ caller[c] = "selecting"
  /\ caller' = [caller EXCEPT ![c] = "expired"]
  /\ UNCHANGED <<goroutine, result, number, bytes, wire, closed>>

\* The caller puts its own error in the channel, unless the outcome came just in
\* time, and receives whichever is there.
OfferTimeoutReturns(c) ==  \* mutated form: the error stays in the channel
  /\ caller[c] = "expired"
  /\ caller' = [caller EXCEPT ![c] = "error"]
  /\ result' = [result EXCEPT ![c] = IF @ = <<>> THEN <<"timeout">> ELSE @]
  /\ UNCHANGED <<goroutine, number, bytes, wire, closed>>
OfferTimeout(c) ==
  /\ caller[c] = "expired"
  /\ caller' = [caller EXCEPT ![c] = "receiving"]
  /\ result' = [result EXCEPT ![c] = IF @ = <<>> THEN <<"timeout">> ELSE @]
  /\ UNCHANGED <<goroutine, number, bytes, wire, closed>>

-----------------------------------------------------------------------------
(* The goroutine *)

\* The stream serves the earliest of the calls at one end.
Served(c) ==
  /\ goroutine[c] = "transferring"
  /\ \A i \in 1 .. c[2] - 1 : goroutine[<<c[1], i>>] # "transferring"

Advance(c, byte) ==
  LET all == Append(bytes[c], byte) IN
  /\ bytes' = [bytes EXCEPT ![c] = all]
  /\ goroutine' = [goroutine EXCEPT ![c] = IF Len(all) = Format[c[2]].width THEN "done" ELSE @]
  /\ UNCHANGED <<caller, result, number, closed>>

WriteByte(c) ==
  LET data == EncodeBigEndian(number[c], Format[c[2]]) IN
  /\ c[1] = "write" /\ Served(c)
  /\ ~closed /\ Len(wire) < Window
  /\ wire' = Append(wire, data[Len(bytes[c]) + 1])
  /\ Advance(c, data[Len(bytes[c]) + 1])

\* What was written before the stream was closed may still be read.
ReadByte(c) ==
  /\ c[1] = "read" /\ Served(c)
  /\ wire # <<>>
  /\ wire' = Tail(wire)
  /\ Advance(c, Head(wire))

TransferFails(c) ==
  /\ goroutine[c] = "transferring" /\ closed
  /\ goroutine' = [goroutine EXCEPT ![c] = "failed"]
  /\ UNCHANGED <<caller, result, number, bytes, wire, closed>>

\* The send blocks while the channel is full.
SendOutcomeEarly(c) ==  \* mutated form: success is reported before the end
  /\ \/ goroutine[c] \in {"done", "failed"}
     \/ goroutine[c] = "transferring" /\ bytes[c] # <<>>
  /\ result[c] = <<>>
  /\ result' = [result EXCEPT ![c] = <<IF goroutine[c] = "failed" THEN "error" ELSE "ok">>]
  /\ goroutine' = [goroutine EXCEPT ![c] = "ended"]
  /\ UNCHANGED <<caller, number, bytes, wire, closed>>
SendOutcome(c) ==
  /\ goroutine[c] \in {"done", "failed"}
  /\ result[c] = <<>>
  /\ result' = [result EXCEPT ![c] = <<IF goroutine[c] = "done" THEN "ok" ELSE "error">>]
  /\ goroutine' = [goroutine EXCEPT ![c] = "ended"]
  /\ UNCHANGED <<caller, number, bytes, wire, closed>>

Close ==
  /\ ~closed
  /\ closed' = TRUE
  /\ UNCHANGED <<caller, goroutine, result, number, bytes, wire>>

-----------------------------------------------------------------------------
(* Specification *)

Next ==
  \/ \E c \in Call :
       \/ Begin(c) \/ Receive(c) \/ TimerFires(c) \/ OfferTimeout(c)
       \/ WriteByte(c) \/ ReadByte(c) \/ TransferFails(c) \/ SendOutcome(c)
  \/ Close

SafeSpec == Init /\ [][Next]_vars

\* Timers fire, callers and goroutines run, and a transfer on a closed stream
\* fails.  Neither end has to transfer anything, or to close the stream.
Fairness ==
  \A c \in Call :
    /\ WF_vars(Receive(c)) /\ WF_vars(TimerFires(c)) /\ WF_vars(OfferTimeout(c))
    /\ WF_vars(TransferFails(c)) /\ WF_vars(SendOutcome(c))

Spec == SafeSpec /\ Fairness

-----------------------------------------------------------------------------
(* Properties *)

\* The i-th integer that is read without an error is the i-th that was written,
\* though calls time out at both ends, late transfers go on and the writing end
\* goes on after a failed call: integers are not mixed up, cut or shifted
\* (the protocols of p2p read one integer after the other from one stream).
NumbersArrive ==
  \A i \in Turn :
    caller[<<"read", i>>] = "ok" => number[<<"read", i>>] = number[<<"write", i>>]

\* A goroutine ends once its stream was closed, also if its caller gave up long
\* ago: the channel has room for its outcome by then.
GoroutinesEnd ==
  \A c \in Call :
    (closed /\ goroutine[c] # "none") ~> (goroutine[c] = "ended")

\* What callers see of a call, and of its transfer.
Seen(c) == IF caller[c] \in {"selecting", "expired", "receiving"} THEN "pending" ELSE caller[c]

Calls == INSTANCE TimedCalls WITH
  status <- [c \in Call |-> Seen(c)],
  transferred <- {c \in Call : Len(bytes[c]) = Format[c[2]].width}

\* Every call returns though nothing may ever be transferred, never with nil
\* before all its bytes were, and what happens after an error is as the
\* contract says.
KeepsContract == Calls!Spec
=============================================================================
