------------------------------- MODULE MCEtag -------------------------------
(* Small instances of Etag. *)
EXTENDS Etag, TLC

\* Clients do the same things.
Names == Permutations(Clients)
=============================================================================
