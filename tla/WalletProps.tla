----------------------------- MODULE WalletProps -----------------------------
(***************************************************************************)
(* What is checked and proved of module Wallet.                            *)
(***************************************************************************)
EXTENDS Wallet

(***************************************************************************)
(* How a request stands to somebody who sees neither statements nor locks. *)
(* One that committed is served even when its client is not told so.       *)
(***************************************************************************)
Outcome(label) ==
  CASE label = "idle" -> "idle"
    [] label \in Statement -> "open"
    [] label \in Committed -> "served"
    [] label \in Uncommitted -> "declined"

L == INSTANCE Ledger WITH outcome <- [r \in Req |-> Outcome(pc[r])]

Label == {"idle"} \cup Statement \cup Committed \cup Uncommitted

TypeOK ==
  /\ given \in SUBSET User /\ accounts \in SUBSET given
  /\ coins \in [User -> Int]
  /\ demo \in User
  /\ voucher \in [Voucher -> [coins : Nat, remaining : Int, total : Nat]]
  /\ redeemed \in SUBSET (Voucher \X User)
  /\ presents \in SUBSET L!Present
  /\ pc \in [Req -> Label]
  /\ req \in [Req -> Request \cup {None}]
  /\ held \in [Req -> SUBSET (User \cup Voucher)]
  /\ shared \in [Req -> SUBSET User]
  /\ \A r \in Req : pc[r] # "idle" => req[r] \in Request

(***************************************************************************)
(* No interleaving of debits and credits makes a balance negative or more  *)
(* than a BIGINT holds, and votes are never left with a deleted account:   *)
(* debit_coins relies on the row lock between its WHERE and its SET, and   *)
(* nothing but that guards the column (it has no CHECK).                   *)
(***************************************************************************)
Solvent ==
  \A u \in User : /\ coins[u] \in 0 .. MaxCoins
                  /\ u \notin accounts => coins[u] = 0

RedeemedBy(v) == {u \in User : <<v, u>> \in redeemed}

(***************************************************************************)
(* However many tasks redeem one voucher at once, it is never used more    *)
(* often than it was issued for, and the redemptions on record never       *)
(* exceed the uses spent (they are fewer once a redeemer deleted the       *)
(* account).                                                               *)
(***************************************************************************)
VoucherBooks ==
  \A v \in Voucher :
    /\ voucher[v].remaining >= 0
    /\ Cardinality(RedeemedBy(v)) + voucher[v].remaining <= voucher[v].total

(* The votes of all, each as one of its owner's. *)
Votes(balance) == UNION {{u} \X (1 .. balance[u]) : u \in User}

Total == Cardinality(Votes(coins))
TotalNext == Cardinality(Votes(coins'))

Commits(r) == pc[r] = "commit" /\ pc'[r] = "reload"

(***************************************************************************)
(* Votes come only from a voucher, in the amount it was issued for, or     *)
(* from the seed raising the demo account to its floor: never from a       *)
(* transfer, a gift or a statement that ran twice.                         *)
(***************************************************************************)
NoVotesFromNothing ==
  [][ TotalNext > Total =>
        \/ \E r \in Req :
             /\ Commits(r) /\ req[r].op = "redeem"
             /\ TotalNext - Total = voucher[req[r].item].coins
        \/ coins' = [coins EXCEPT ![demo] = DemoFloor] ]_vars

(***************************************************************************)
(* A balance falls only because its owner's own request commits, and by    *)
(* the price or amount of that request, or because the account is deleted. *)
(***************************************************************************)
OnlySenderPays ==
  [][ \A u \in User :
        coins'[u] < coins[u] =>
          \/ u \notin accounts'
          \/ \E r \in Req :
               /\ Commits(r) /\ req[r].from = u
               /\ coins[u] - coins'[u] = Cost(req[r]) ]_vars

(***************************************************************************)
(* The transactions implement the ledger: to a reader of the committed     *)
(* tables every transfer, gift and redemption happens at once or not at    *)
(* all, under the conditions the ledger asks for at that very moment; the  *)
(* votes of a transfer reach its receiver if the receiver's row is there   *)
(* when the transfer commits; and what was refused, failed or dropped has  *)
(* no effect later.                                                        *)
(***************************************************************************)
ImplementsLedger == L!Spec

(***************************************************************************)
(* A request that was taken ends: tasks that wait for each other's rows    *)
(* (two transfers in opposite directions) are untied.                      *)
(***************************************************************************)
EveryRequestEnds ==
  \A r \in Req :
    pc[r] # "idle" ~> pc[r] \in Uncommitted \cup (Committed \ {"reload"})

(***************************************************************************)
(* Whoever is in a deadlock is a transfer that has debited its sender and  *)
(* waits for its receiver, who is the sender of another one in it: the     *)
(* order of the statements keeps gifts and redemptions out of it, so that  *)
(* none of these is ever failed by the database to untie one.              *)
(***************************************************************************)
OnlyTransfersDeadlock ==
  \A r \in Req : Deadlocked(r) =>
    /\ pc[r] = "credit"
    /\ \E q \in Req \ {r} : Deadlocked(q) /\ req[r].to = req[q].from

(***************************************************************************)
(* A number names the account find_by_key finds for it ("/id1 is numeric"),*)
(* so a transfer that commits gives the votes to the account the number    *)
(* names.  transfer_coins checks that account and credits the row whose id *)
(* is the number.                                                          *)
(***************************************************************************)
TransferReachesNamed ==
  [][ \A r \in Req :
        Commits(r) /\ req[r].op = "transfer" =>
          \A u \in Named(req[r].to) :
            coins'[u] = coins[u] + req[r].amount ]_vars
=============================================================================
