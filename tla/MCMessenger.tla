----------------------------- MODULE MCMessenger -----------------------------
(***************************************************************************)
(* Instances of Messenger for TLC.                                         *)
(***************************************************************************)
EXTENDS Messenger, TLC

CONSTANTS u1, u2, t1, t2

Symmetry == Permutations(User) \cup Permutations(Task)
=============================================================================
