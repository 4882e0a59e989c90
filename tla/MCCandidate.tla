---------------------------- MODULE MCCandidate ----------------------------
(* Instances of Candidate for TLC. *)
EXTENDS Candidate, TLC

\* Users, maintainLock() goroutines and session ids are interchangeable.
Symmetry == Permutations(Users) \cup Permutations(Loops) \cup Permutations(Sessions)
=============================================================================
