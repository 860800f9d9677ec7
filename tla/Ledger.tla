------------------------------- MODULE Ledger -------------------------------
(***************************************************************************)
(* What the votes economy of the desk promises: accounts hold non-negative *)
(* balances of votes ("coins"), and every transfer, gift or redemption     *)
(* that is asked for is served once, entirely, or declined and then never  *)
(* has an effect.  There are no row locks and no statements here; module   *)
(* Wallet has them and implements this specification.                      *)
(***************************************************************************)
EXTENDS Integers

CONSTANTS
  User,       \* the ids a row of table users can have
  Voucher,    \* the ids a row of table vouchers can have
  Gift,       \* rows of the gift catalogue, fixed by the seed
  Price,      \* Price[g] is the price of gift g
  MaxCoins,   \* the largest BIGINT
  DemoFloor,  \* the balance the seed restores to the demo account
  Amounts,    \* amounts of votes that are transferred or put on a voucher
  MaxUses,    \* bound: uses of a voucher
  Req,        \* requests
  Request,    \* what can be asked: op, from, to, item and amount
  None

VARIABLES
  accounts,   \* users that have a row
  given,      \* ids that accounts have had; no account gets one of them again
  coins,      \* users.coins, 0 where there is no row
  demo,       \* the id of the row that has the demo login
  voucher,    \* vouchers: coins, remaining, total
  redeemed,   \* voucher_redemptions: pairs <<voucher, user>>
  presents,   \* user_gifts, each with the request it is of
  req,        \* req[r]: what r asks for
  outcome     \* outcome[r]: "idle", "open", "served" or "declined"

vars == <<accounts, given, coins, demo, voucher, redeemed, presents, req, outcome>>

(***************************************************************************)
(* A voucher that was not created yet has total 0.                         *)
(***************************************************************************)
NoVoucher == [coins |-> 0, remaining |-> 0, total |-> 0]

Present == [slip : Req, gift : Gift, from : User, to : User]

Init ==
  /\ accounts \in SUBSET User
  /\ given = accounts
  /\ demo \in accounts
  /\ coins \in [User -> 0 .. DemoFloor]
  /\ coins[demo] = DemoFloor
  /\ \A u \in User \ accounts : coins[u] = 0
  /\ voucher = [v \in Voucher |-> NoVoucher]
  /\ redeemed = {}
  /\ presents = {}
  /\ req = [r \in Req |-> None]
  /\ outcome = [r \in Req |-> "idle"]

-----------------------------------------------------------------------------
Open(u) ==
  /\ u \notin given
  /\ accounts' = accounts \cup {u}
  /\ given' = given \cup {u}
  /\ \/ demo' = demo
     \/ demo \notin accounts /\ demo' = u
  /\ UNCHANGED <<coins, voucher, redeemed, presents, req, outcome>>

Close(u) ==
  /\ u \in accounts
  /\ accounts' = accounts \ {u}
  /\ coins' = [coins EXCEPT ![u] = 0]
  /\ redeemed' = {p \in redeemed : p[2] # u}
  /\ presents' = {p \in presents : u \notin {p.from, p.to}}
  /\ UNCHANGED <<given, demo, voucher, req, outcome>>

TopUp ==
  /\ demo \in accounts
  /\ coins[demo] < DemoFloor
  /\ coins' = [coins EXCEPT ![demo] = DemoFloor]
  /\ UNCHANGED <<accounts, given, demo, voucher, redeemed, presents, req, outcome>>

Issue(v, n, uses) ==
  /\ voucher[v].total = 0
  /\ voucher' = [voucher EXCEPT
                   ![v] = [coins |-> n, remaining |-> uses, total |-> uses]]
  /\ UNCHANGED <<accounts, given, coins, demo, redeemed, presents, req, outcome>>

-----------------------------------------------------------------------------
(***************************************************************************)
(* A request is asked for once, and declined at once perhaps.              *)
(***************************************************************************)
Ask(r, q) ==
  /\ outcome[r] = "idle"
  /\ q.from \in accounts /\ q.to # q.from
  /\ req' = [req EXCEPT ![r] = q]
  /\ \E o \in {"open", "declined"} : outcome' = [outcome EXCEPT ![r] = o]
  /\ UNCHANGED <<accounts, given, coins, demo, voucher, redeemed, presents>>

Decline(r) ==
  /\ outcome[r] = "open"
  /\ outcome' = [outcome EXCEPT ![r] = "declined"]
  /\ UNCHANGED <<accounts, given, coins, demo, voucher, redeemed, presents, req>>

(* What every request that is served has in common. *)
Serve(r, op) ==
  /\ outcome[r] = "open"
  /\ req[r].op = op
  /\ req[r].from \in accounts
  /\ outcome' = [outcome EXCEPT ![r] = "served"]
  /\ UNCHANGED <<accounts, given, demo, req>>

(***************************************************************************)
(* A transfer moves votes between two accounts.  Only when the number it   *)
(* was sent to is that of no row (any more) the votes leave the sender and *)
(* reach nobody.                                                           *)
(***************************************************************************)
Transfer(r) ==
  LET s == req[r].from
      t == req[r].to
      n == req[r].amount
  IN /\ Serve(r, "transfer")
     /\ t \in accounts
     /\ coins[s] >= n /\ coins[t] + n <= MaxCoins
     /\ coins' = [coins EXCEPT ![s] = coins[s] - n, ![t] = coins[t] + n]
     /\ UNCHANGED <<voucher, redeemed, presents>>

TransferToNobody(r) ==
  LET s == req[r].from
      n == req[r].amount
  IN /\ Serve(r, "transfer")
     /\ req[r].to \notin accounts
     /\ coins[s] >= n
     /\ coins' = [coins EXCEPT ![s] = coins[s] - n]
     /\ UNCHANGED <<voucher, redeemed, presents>>

Give(r) ==
  LET s == req[r].from
      g == req[r].item
  IN /\ Serve(r, "gift")
     /\ req[r].to \in accounts
     /\ coins[s] >= Price[g]
     /\ coins' = [coins EXCEPT ![s] = coins[s] - Price[g]]
     /\ presents' = presents \cup {[slip |-> r, gift |-> g, from |-> s, to |-> req[r].to]}
     /\ UNCHANGED <<voucher, redeemed>>

Redeem(r) ==
  LET u == req[r].from
      v == req[r].item
  IN /\ Serve(r, "redeem")
     /\ voucher[v].remaining > 0
     /\ <<v, u>> \notin redeemed
     /\ coins[u] + voucher[v].coins <= MaxCoins
     /\ redeemed' = redeemed \cup {<<v, u>>}
     /\ voucher' = [voucher EXCEPT ![v].remaining = @ - 1]
     /\ coins' = [coins EXCEPT ![u] = coins[u] + voucher[v].coins]
     /\ UNCHANGED presents

Next ==
  \/ \E u \in User : Open(u) \/ Close(u)
  \/ TopUp
  \/ \E v \in Voucher : \E n \in Amounts, uses \in 1 .. MaxUses : Issue(v, n, uses)
  \/ \E r \in Req : \E q \in Request : Ask(r, q)
  \/ \E r \in Req : \/ Decline(r)
                    \/ Transfer(r) \/ TransferToNobody(r) \/ Give(r) \/ Redeem(r)

Spec == Init /\ [][Next]_vars
=============================================================================
