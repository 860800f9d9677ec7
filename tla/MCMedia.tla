------------------------------- MODULE MCMedia -------------------------------
(***************************************************************************)
(* Instances of Media for TLC.                                             *)
(***************************************************************************)
EXTENDS Media, TLC

CONSTANTS t1, t2

Symmetry == Permutations(Task)
=============================================================================
