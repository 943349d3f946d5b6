------------------------------- MODULE MCFds -------------------------------
(* Small values for NarcFds. *)
EXTENDS NarcFds, TLC

TaskSymmetry == Permutations(Task)
=============================================================================
