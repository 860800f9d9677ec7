---------------------------- MODULE MCModeration ----------------------------
(***************************************************************************)
(* Instances of Moderation for TLC.                                        *)
(***************************************************************************)
EXTENDS Moderation, TLC

CONSTANTS u1, u2, n1, n2, c1, t1, t2

MCTwin == [p \in Post |-> u2]

Symmetry == Permutations(Task) \cup Permutations(Note)
=============================================================================
