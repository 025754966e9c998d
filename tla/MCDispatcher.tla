---------------------------- MODULE MCDispatcher ----------------------------
(* Small instances of Dispatcher for TLC. *)
EXTENDS Dispatcher

CONSTANTS p1, p2, t1, t2

DispatcherSymmetry == Permutations(Pods) \union Permutations(Tasks)
=============================================================================
