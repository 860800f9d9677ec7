------------------------------ MODULE MCSocial ------------------------------
(***************************************************************************)
(* Instances of Social for TLC.                                            *)
(***************************************************************************)
EXTENDS Social, TLC

CONSTANTS fan, author, q1, q2, q3, r1, r2

Kind(op, user, replica) == [op |-> op, user |-> user, replica |-> replica]

MCKinds ==
  {Kind(op, fan, r1) : op \in {"toggle", "like", "unlike", "comment"}}
  \cup {Kind("show", author, r1), Kind("comment", author, r2)}

Symmetries == Permutations(Request)
=============================================================================
