-------------------------- MODULE MCLocalEmulator ---------------------------
(* The callers, arguments and results of a run are alike. *)
EXTENDS LocalEmulator, TLC

Symmetry == Permutations(Callers) \cup Permutations(Args) \cup Permutations(Results)
=============================================================================
