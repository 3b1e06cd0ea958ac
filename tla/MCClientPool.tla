---------------------------- MODULE MCClientPool ----------------------------
(* Instances of ClientPool for TLC. *)
EXTENDS ClientPool, TLC

\* Callers and clients are interchangeable.
Symmetry == Permutations(Callers) \cup Permutations(Clients)
=============================================================================
