-------------------------- MODULE MCManagedSession --------------------------
(* Instances of ManagedSession for TLC. *)
EXTENDS ManagedSession, TLC

\* Callers, maintain() goroutines and session ids are interchangeable.
Symmetry == Permutations(Callers) \cup Permutations(Loops) \cup Permutations(Sessions)
=============================================================================
