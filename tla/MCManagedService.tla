-------------------------- MODULE MCManagedService --------------------------
(* Instances of ManagedService for TLC. *)
EXTENDS ManagedService, TLC

\* Callers, maintain() goroutines and tags are interchangeable.
Symmetry == Permutations(Callers) \cup Permutations(Loops) \cup Permutations(Tags)
=============================================================================
