----------------------------- MODULE MCAccounts -----------------------------
(***************************************************************************)
(* An instance of Accounts for TLC: b is an address typed in another way   *)
(* than a.                                                                 *)
(***************************************************************************)
EXTENDS Accounts, TLC

CONSTANTS u1, u2, l1, l2, p1, p2, a, b, open, closed, r1, r2, t1, t2

Lower == a :> a @@ b :> a

Old(l, field) == [login |-> l, algo |-> "sha256", password |-> p1,
                  contact |-> field, index |-> None, level |-> open]
Rows == {Old(l1, Plain(a)), Old(l2, Plain(b)), Old(l2, None)}
=============================================================================
