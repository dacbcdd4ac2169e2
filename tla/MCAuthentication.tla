-------------------------- MODULE MCAuthentication --------------------------
(***************************************************************************)
(* Instances of Authentication for TLC.                                    *)
(***************************************************************************)
EXTENDS Authentication
=============================================================================
