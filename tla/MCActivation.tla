---------------------------- MODULE MCActivation ----------------------------
(* Four callers of Add: two components of the same name, and one whose name  *)
(* is not allowed.                                                           *)
EXTENDS Activation, TLC

CONSTANTS x1, x2, x3, x4

Named == x1 :> "a" @@ x2 :> "a" @@ x3 :> "b" @@ x4 :> "root"
=============================================================================
