---------------------------- MODULE MCContainer ----------------------------
(* Small instances of Container. *)
EXTENDS Container, TLC

\* The components are interchangeable where every one or none is a client's.
Names == Permutations(Children)
=============================================================================
