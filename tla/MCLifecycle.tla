---------------------------- MODULE MCLifecycle ----------------------------
(* Small instances of Lifecycle. *)
EXTENDS Lifecycle, TLC

\* Goroutine slots are interchangeable.
Slots == Permutations(Muxes) \union Permutations(Runs)
=============================================================================
