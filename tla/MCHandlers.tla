---------------------------- MODULE MCHandlers ----------------------------
(***************************************************************************)
(* Instances of Handlers for TLC.  Every goroutine may serve or make a     *)
(* commitment, so that they meet there; the other kinds have one each, but *)
(* for proofs, which have two listeners.                                   *)
(***************************************************************************)
EXTENDS Handlers

CONSTANTS l1, l2, r1, r2

Meetings ==
  ({"artifact", "commitment", "proof"} \X {l1})
    \union ({"commitment", "challenge", "proof", "verification"} \X {l2})
    \union ({"commitment", "challenge", "proof"} \X {r1})
    \union ({"commitment", "verification"} \X {r2})
=============================================================================
