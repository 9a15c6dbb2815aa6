---------------------------- MODULE MCTaskBreaker ----------------------------
(* Instances of TaskBreaker for TLC.                                       *)
EXTENDS TaskBreaker, TLC

\* Not for the liveness run.
Symmetries == Permutations(Run) \cup Permutations(Error)
=============================================================================
