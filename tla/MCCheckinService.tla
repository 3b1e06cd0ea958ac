-------------------------- MODULE MCCheckinService --------------------------
(* Instances of CheckinService for TLC. *)
EXTENDS CheckinService, TLC

\* Run ids are interchangeable, and so are keys and tasks.
Symmetry == Permutations(Runs) \cup Permutations(Keys) \cup Permutations(Tasks)
=============================================================================
