------------------------------ MODULE MCWallet ------------------------------
(***************************************************************************)
(* Instances of Wallet for TLC.                                            *)
(***************************************************************************)
EXTENDS WalletProps, TLC

CONSTANTS u1, u2, u3, id1, v1, g1, r1, r2, r3

MCPrice == (g1 :> 1)
Symmetry == Permutations(User) \cup Permutations(Req)
=============================================================================
