--------------------------- MODULE MCCommandQueue ---------------------------
(* Instances of CommandQueue for TLC. *)
EXTENDS CommandQueue, TLC

\* Processes and their coroutines are interchangeable, and so are updates and
\* users.
Symmetry == Permutations(Procs) \cup Permutations(Senders)
              \cup Permutations(Updates) \cup Permutations(Actors)
=============================================================================
