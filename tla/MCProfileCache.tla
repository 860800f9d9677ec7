--------------------------- MODULE MCProfileCache ---------------------------
(***************************************************************************)
(* Instances of ProfileCache for TLC.                                      *)
(***************************************************************************)
EXTENDS ProfileCache, TLC

CONSTANTS p1, p2, t1, t2

Symmetry == Permutations(Replica) \cup Permutations(Task)
=============================================================================
