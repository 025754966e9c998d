------------------------------- MODULE MCFarm -------------------------------
(* Small instances of Farm for TLC. *)
EXTENDS Farm

FarmSymmetry == Permutations(Pods) \union Permutations(Tasks)
=============================================================================
