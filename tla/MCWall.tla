------------------------------- MODULE MCWall -------------------------------
(***************************************************************************)
(* Instances of Wall for TLC.                                              *)
(***************************************************************************)
EXTENDS Wall, TLC

CONSTANTS s1, s2, t1, t2, u

Symmetry == Permutations(Replica) \cup Permutations(Task)
=============================================================================
