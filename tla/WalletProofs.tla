---------------------------- MODULE WalletProofs ----------------------------
(***************************************************************************)
(* For every set of users, vouchers, gifts and requests: the wallet is     *)
(* well typed and solvent, and its transactions implement the ledger.      *)
(*                                                                         *)
(* The inductive invariant says what a request may rely on at each of its  *)
(* statements.  It holds because a row in held[r] is written by r alone    *)
(* (Exclusion), so a balance that was checked when the row was locked is   *)
(* still sufficient at the commit; and because a user row somebody has     *)
(* locked or refers to is not deleted.                                     *)
(***************************************************************************)
EXTENDS WalletProps, FiniteSetTheorems, TLAPS

Exclusion ==
  \A q, r \in Req : q # r => held[q] \cap held[r] = {}

(***************************************************************************)
(* Which rows a request has locked, by the statement it is at.             *)
(***************************************************************************)
Shape(r) ==
  /\ pc[r] \notin Statement \/ pc[r] \in {"debit", "select"} =>
       held[r] = {} /\ shared[r] = {}
  /\ pc[r] = "debit" => req[r].op \in {"transfer", "gift"}
  /\ pc[r] = "credit" => req[r].op = "transfer" /\ held[r] = {req[r].from}
  /\ pc[r] = "present" => req[r].op = "gift" /\ held[r] = {req[r].from}
  /\ pc[r] \in {"select", "record", "spend", "fund"} => req[r].op = "redeem"
  /\ pc[r] \in {"record", "spend", "fund"} => held[r] = {req[r].item}
  /\ pc[r] \in {"spend", "fund"} => shared[r] = {req[r].from}
  /\ pc[r] = "commit" =>
       CASE req[r].op = "transfer" ->
              held[r] \in {{req[r].from}, {req[r].from, req[r].to}}
         [] req[r].op = "gift" ->
              /\ held[r] = {req[r].from}
              /\ shared[r] = {req[r].from, req[r].to}
         [] req[r].op = "redeem" ->
              /\ held[r] = {req[r].item, req[r].from}
              /\ shared[r] = {req[r].from}

Paying(r) ==
  \/ pc[r] \in {"credit", "present"}
  \/ pc[r] = "commit" /\ req[r].op \in {"transfer", "gift"}

Redeeming(r) ==
  \/ pc[r] \in {"record", "spend", "fund"}
  \/ pc[r] = "commit" /\ req[r].op = "redeem"

(***************************************************************************)
(* What the rows a request has locked are known to hold.                   *)
(***************************************************************************)
Relies(r) ==
  /\ pc[r] # "idle" => req[r].to # req[r].from
  /\ pc[r] \in Statement /\ req[r].op = "transfer" => req[r].to \in given \cup Alias
  /\ Paying(r) =>
       /\ req[r].from \in accounts
       /\ coins[req[r].from] >= Cost(req[r])
  /\ pc[r] = "commit" /\ req[r].op = "transfer" /\ req[r].to \in held[r] =>
       /\ req[r].to \in accounts
       /\ coins[req[r].to] + req[r].amount <= MaxCoins
  /\ pc[r] = "commit" /\ req[r].op = "transfer" /\ req[r].to \notin held[r] =>
       req[r].to \notin accounts
  /\ pc[r] = "commit" /\ req[r].op = "gift" => req[r].to \in accounts
  /\ Redeeming(r) => voucher[req[r].item].remaining > 0
  /\ Redeeming(r) /\ pc[r] # "record" =>
       /\ req[r].from \in accounts
       /\ <<req[r].item, req[r].from>> \notin redeemed
  /\ pc[r] = "commit" /\ req[r].op = "redeem" =>
       coins[req[r].from] + voucher[req[r].item].coins <= MaxCoins

IInv ==
  /\ TypeOK
  /\ Solvent
  /\ VoucherBooks
  /\ Exclusion
  /\ \A r \in Req : Shape(r) /\ Relies(r)

-----------------------------------------------------------------------------
(***************************************************************************)
(* The price of a gift and the amount of a transfer are natural numbers.   *)
(***************************************************************************)
LEMMA CostNat ==
  ASSUME NEW q \in Request
  PROVE  Cost(q) \in Nat
<1>1. CASE q.op = "gift"
  <2>1. q.item \in Gift
    BY <1>1 DEF Request
  <2> QED
    BY <1>1, <2>1, WalletAssumption DEF Cost
<1>2. CASE q.op # "gift"
  <2>1. q.amount \in Amounts \/ q.amount = 0
    BY <1>2 DEF Request
  <2>2. 0 \in Nat /\ \A n \in Amounts : n \in Nat
    BY WalletAssumption
  <2>3. q.amount \in Nat
    BY <2>1, <2>2, Zenon
  <2> QED
    BY <1>2, <2>3, Zenon DEF Cost
<1> QED
  BY <1>1, <1>2

(***************************************************************************)
(* What a request relies on depends on its own task and on the tables.     *)
(***************************************************************************)
LEMMA Frame ==
  ASSUME NEW q, Shape(q), Relies(q),
         pc'[q] = pc[q], req'[q] = req[q],
         held'[q] = held[q], shared'[q] = shared[q],
         UNCHANGED tables
  PROVE  Shape(q)' /\ Relies(q)'
<1>1. Shape(q)'
  BY DEF Shape
<1>2. Paying(q)' = Paying(q) /\ Redeeming(q)' = Redeeming(q)
  BY DEF Paying, Redeeming
<1>3. Relies(q)'
  BY <1>2 DEF Relies, Cost, tables
<1> QED
  BY <1>1, <1>3

(***************************************************************************)
(* The number of accounts that redeemed a voucher: none where none is      *)
(* recorded, fewer where records went, one more for one more record.       *)
(***************************************************************************)
LEMMA Unredeemed == Cardinality({}) = 0
BY FS_EmptySet

LEMMA RedeemersFinite ==
  ASSUME NEW v
  PROVE  IsFiniteSet(RedeemedBy(v)) /\ Cardinality(RedeemedBy(v)) \in Nat
<1>1. RedeemedBy(v) \subseteq User
  BY DEF RedeemedBy
<1> QED
  BY <1>1, FS_Subset, FS_CardinalityType, WalletAssumption

LEMMA FewerRedeemers ==
  ASSUME NEW v, redeemed' \subseteq redeemed
  PROVE  Cardinality(RedeemedBy(v)') <= Cardinality(RedeemedBy(v))
<1>1. RedeemedBy(v)' \subseteq RedeemedBy(v)
  BY DEF RedeemedBy
<1> QED
  BY <1>1, RedeemersFinite, FS_Subset

LEMMA InitInv == Init => IInv
<1> SUFFICES ASSUME Init PROVE IInv
  OBVIOUS
<1> USE DEF Init
<1>1. TypeOK
  BY WalletAssumption DEF TypeOK, Label, L!Present
<1>2. Solvent
  BY WalletAssumption DEF Solvent
<1>3. Exclusion
  BY DEF Exclusion
<1>4. ASSUME NEW r \in Req
      PROVE  Shape(r) /\ Relies(r)
  BY DEF Shape, Relies, Paying, Redeeming, Statement
<1>5. VoucherBooks
  <2>1. ASSUME NEW v \in Voucher
        PROVE  /\ Cardinality(RedeemedBy(v)) = 0
               /\ voucher[v] = [coins |-> 0, remaining |-> 0, total |-> 0]
    <3>1. RedeemedBy(v) = {}
      BY DEF RedeemedBy
    <3> QED
      BY <3>1, Unredeemed
  <2> QED
    BY <2>1 DEF VoucherBooks
<1> QED
  BY <1>1, <1>2, <1>3, <1>4, <1>5 DEF IInv

(***************************************************************************)
(* A step that touches one task and no table needs to be looked at for     *)
(* that task alone.                                                        *)
(***************************************************************************)
LEMMA LocalStep ==
  ASSUME IInv, NEW r \in Req, TypeOK', UNCHANGED tables,
         \A q \in Req \ {r} :
           /\ pc'[q] = pc[q] /\ req'[q] = req[q]
           /\ held'[q] = held[q] /\ shared'[q] = shared[q]
           /\ held'[r] \cap held[q] = {},
         Shape(r)', Relies(r)'
  PROVE  IInv'
<1>1. Solvent'
  BY DEF IInv, Solvent, tables
<1>2. Exclusion'
  BY DEF IInv, Exclusion
<1>3. ASSUME NEW q \in Req
      PROVE  Shape(q)' /\ Relies(q)'
  <2>1. CASE q = r
    BY <2>1
  <2>2. CASE q # r
    BY <2>2, Frame DEF IInv
  <2> QED
    BY <2>1, <2>2
<1>4. VoucherBooks'
  BY DEF IInv, VoucherBooks, RedeemedBy, tables
<1> QED
  BY <1>1, <1>2, <1>3, <1>4 DEF IInv

(***************************************************************************)
(* A rollback or the end of a request.                                     *)
(***************************************************************************)
LEMMA RollbackInv ==
  ASSUME IInv, NEW r \in Req, pc[r] \in Statement \cup {"reload"},
         NEW ending \in Committed \cup Uncommitted,
         Rollback(r, ending)
  PROVE  IInv'
<1> USE DEF Rollback, Goto, tables
<1>1. TypeOK'
  BY DEF IInv, TypeOK, Label, Statement
<1>2. Shape(r)'
  BY DEF IInv, TypeOK, Shape, Committed, Uncommitted, Statement
<1>3. Relies(r)'
  BY DEF IInv, TypeOK, Relies, Paying, Redeeming, Committed, Uncommitted,
         Statement
<1> QED
  BY <1>1, <1>2, <1>3, LocalStep DEF IInv, TypeOK

-----------------------------------------------------------------------------
LEMMA BeginInv ==
  ASSUME IInv, NEW r \in Req, NEW q \in Request, Begin(r, q)
  PROVE  IInv'
<1> USE DEF Begin, Goto, tables
<1>1. TypeOK'
  BY DEF IInv, TypeOK, Label, FirstStatement, Statement, Uncommitted
<1>2. Shape(r)'
  BY DEF IInv, TypeOK, Shape, FirstStatement, Statement, Request
<1>3. Relies(r)'
  <2>1. pc'[r] \in {"refused", "select", "debit"} /\ req'[r] = q
    BY DEF IInv, TypeOK, FirstStatement
  <2>2. q.op = "transfer" /\ pc'[r] # "refused" => q.to \in given \cup Alias
    <3>1. q.op = "transfer" /\ pc'[r] # "refused" => Named(q.to) # {}
      BY DEF IInv, TypeOK
    <3> QED BY <3>1 DEF Named, IInv, TypeOK
  <2> QED BY <2>1, <2>2 DEF Relies, Paying, Redeeming, Statement
<1> QED
  BY <1>1, <1>2, <1>3, LocalStep DEF IInv, TypeOK, Exclusion, Shape, Committed

LEMMA DebitInv ==
  ASSUME IInv, NEW r \in Req, Debit(r)
  PROVE  IInv'
<1> DEFINE s == req[r].from
<1>1. CASE Rollback(r, "refused")
  BY <1>1, RollbackInv DEF Debit, Statement, Uncommitted
<1>2. CASE /\ s \in accounts /\ coins[s] >= Cost(req[r])
           /\ Free(s, r)
           /\ Lock(r, s)
           /\ Goto(r, IF req[r].op = "gift" THEN "present" ELSE "credit")
           /\ UNCHANGED <<tables, req, shared>>
  <2> USE <1>2 DEF Debit, Lock, Goto, tables
  <2>1. TypeOK'
    BY DEF IInv, TypeOK, Label, Statement, Request
  <2>2. Shape(r)'
    BY DEF IInv, TypeOK, Shape, Statement
  <2>3. Relies(r)'
    BY DEF IInv, TypeOK, Shape, Relies, Paying, Redeeming, Cost, Statement
  <2>5. \A q \in Req \ {r} : held'[r] \cap held[q] = {}
    BY DEF IInv, TypeOK, Shape, Free
  <2> QED
    BY <2>1, <2>2, <2>3, <2>5, LocalStep DEF IInv, TypeOK
<1> QED
  BY <1>1, <1>2 DEF Debit

(***************************************************************************)
(* The three outcomes of the statement that raises a balance.              *)
(***************************************************************************)
LEMMA CreditInv ==
  ASSUME IInv, NEW r \in Req, Credit(r)
  PROVE  IInv'
<1> DEFINE t == req[r].to
           n == req[r].amount
<1>1. CASE Rollback(r, "error")
  BY <1>1, RollbackInv DEF Credit, Statement, Uncommitted
<1>2. CASE /\ t \in accounts /\ Free(t, r) /\ coins[t] + n <= MaxCoins
           /\ Lock(r, t) /\ Goto(r, "commit")
           /\ UNCHANGED <<tables, req, shared>>
  <2> USE <1>2 DEF Credit, Lock, Goto, tables
  <2>1. TypeOK'
    BY DEF IInv, TypeOK, Label, Statement
  <2>2. Shape(r)'
    BY DEF IInv, TypeOK, Shape, Statement
  <2>3. Relies(r)'
    BY DEF IInv, TypeOK, Shape, Relies, Paying, Redeeming, Cost
  <2>5. \A q \in Req \ {r} : held'[r] \cap held[q] = {}
    BY DEF IInv, TypeOK, Exclusion, Free
  <2> QED
    BY <2>1, <2>2, <2>3, <2>5, LocalStep DEF IInv, TypeOK
<1>3. CASE /\ t \notin accounts /\ Goto(r, "commit")
           /\ UNCHANGED <<tables, req, held, shared>>
  <2> USE <1>3 DEF Credit, Goto, tables
  <2>1. TypeOK'
    BY DEF IInv, TypeOK, Label, Statement
  <2>2. Shape(r)'
    BY DEF IInv, TypeOK, Shape, Statement
  <2>3. Relies(r)'
    BY DEF IInv, TypeOK, Shape, Relies, Paying, Redeeming, Cost
  <2>5. \A q \in Req \ {r} : held'[r] \cap held[q] = {}
    BY DEF IInv, TypeOK, Exclusion
  <2> QED
    BY <2>1, <2>2, <2>3, <2>5, LocalStep DEF IInv, TypeOK
<1> QED
  BY <1>1, <1>2, <1>3 DEF Credit, CreditRow

LEMMA GivePresentInv ==
  ASSUME IInv, NEW r \in Req, GivePresent(r)
  PROVE  IInv'
<1> DEFINE users == {req[r].from, req[r].to}
<1>1. CASE Rollback(r, "error")
  BY <1>1, RollbackInv DEF GivePresent, Statement, Uncommitted
<1>2. CASE /\ users \subseteq accounts
           /\ shared' = [shared EXCEPT ![r] = users]
           /\ Goto(r, "commit")
           /\ UNCHANGED <<tables, req, held>>
  <2> USE <1>2 DEF GivePresent, Goto, tables
  <2>1. TypeOK'
    BY DEF IInv, TypeOK, Label, Statement
  <2>2. Shape(r)'
    BY DEF IInv, TypeOK, Shape, Statement
  <2>3. Relies(r)'
    BY DEF IInv, TypeOK, Shape, Relies, Paying, Redeeming, Cost
  <2>5. \A q \in Req \ {r} : held'[r] \cap held[q] = {}
    BY DEF IInv, TypeOK, Exclusion
  <2> QED
    BY <2>1, <2>2, <2>3, <2>5, LocalStep DEF IInv, TypeOK
<1> QED
  BY <1>1, <1>2 DEF GivePresent

LEMMA SelectVoucherInv ==
  ASSUME IInv, NEW r \in Req, SelectVoucher(r)
  PROVE  IInv'
<1> DEFINE v == req[r].item
<1>1. CASE Rollback(r, "refused")
  BY <1>1, RollbackInv DEF SelectVoucher, Statement, Uncommitted
<1>2. CASE /\ voucher[v].remaining > 0
           /\ Lock(r, v) /\ Goto(r, "record")
           /\ UNCHANGED <<tables, req, shared>>
  <2> USE <1>2 DEF SelectVoucher, Lock, Goto, tables
  <2>1. v \in Voucher
    BY DEF IInv, TypeOK, Shape, Request
  <2>2. TypeOK'
    BY <2>1 DEF IInv, TypeOK, Label, Statement
  <2>3. Shape(r)'
    BY DEF IInv, TypeOK, Shape, Statement
  <2>4. Relies(r)'
    BY DEF IInv, TypeOK, Shape, Relies, Paying, Redeeming, Cost
  <2>6. \A q \in Req \ {r} : held'[r] \cap held[q] = {}
    BY DEF IInv, TypeOK, Shape, Free
  <2> QED
    BY <2>2, <2>3, <2>4, <2>6, LocalStep DEF IInv, TypeOK
<1> QED
  BY <1>1, <1>2 DEF SelectVoucher

LEMMA RecordRedemptionInv ==
  ASSUME IInv, NEW r \in Req, RecordRedemption(r)
  PROVE  IInv'
<1> DEFINE u == req[r].from
<1>1. CASE Rollback(r, "refused") \/ Rollback(r, "error")
  BY <1>1, RollbackInv DEF RecordRedemption, Statement, Uncommitted
<1>2. CASE /\ <<req[r].item, u>> \notin redeemed /\ u \in accounts
           /\ shared' = [shared EXCEPT ![r] = {u}]
           /\ Goto(r, "spend")
           /\ UNCHANGED <<tables, req, held>>
  <2> USE <1>2 DEF RecordRedemption, Goto, tables
  <2>1. TypeOK'
    BY DEF IInv, TypeOK, Label, Statement
  <2>2. Shape(r)'
    BY DEF IInv, TypeOK, Shape, Statement
  <2>3. Relies(r)'
    BY DEF IInv, TypeOK, Shape, Relies, Paying, Redeeming, Cost
  <2>5. \A q \in Req \ {r} : held'[r] \cap held[q] = {}
    BY DEF IInv, TypeOK, Exclusion
  <2> QED
    BY <2>1, <2>2, <2>3, <2>5, LocalStep DEF IInv, TypeOK
<1> QED
  BY <1>1, <1>2 DEF RecordRedemption

LEMMA SpendUseInv ==
  ASSUME IInv, NEW r \in Req, SpendUse(r)
  PROVE  IInv'
<1> USE DEF SpendUse, Lock, Goto, tables
<1>1. TypeOK'
  BY DEF IInv, TypeOK, Shape, Label, Statement
<1>2. Shape(r)'
  BY DEF IInv, TypeOK, Shape, Statement
<1>3. Relies(r)'
  BY DEF IInv, TypeOK, Shape, Relies, Paying, Redeeming, Cost
<1>5. \A q \in Req \ {r} : held'[r] \cap held[q] = {}
  BY DEF IInv, TypeOK, Shape, Free
<1> QED
  BY <1>1, <1>2, <1>3, <1>5, LocalStep DEF IInv, TypeOK

LEMMA FundInv ==
  ASSUME IInv, NEW r \in Req, Fund(r)
  PROVE  IInv'
<1> DEFINE u == req[r].from
           n == voucher[req[r].item].coins
<1>1. CASE Rollback(r, "error")
  BY <1>1, RollbackInv DEF Fund, Statement, Uncommitted
<1>2. CASE /\ u \in accounts /\ Free(u, r) /\ coins[u] + n <= MaxCoins
           /\ Lock(r, u) /\ Goto(r, "commit")
           /\ UNCHANGED <<tables, req, shared>>
  <2> USE <1>2 DEF Fund, Lock, Goto, tables
  <2>1. TypeOK'
    BY DEF IInv, TypeOK, Label, Statement
  <2>2. Shape(r)'
    BY DEF IInv, TypeOK, Shape, Statement
  <2>3. Relies(r)'
    BY DEF IInv, TypeOK, Shape, Relies, Paying, Redeeming, Cost
  <2>5. \A q \in Req \ {r} : held'[r] \cap held[q] = {}
    BY DEF IInv, TypeOK, Exclusion, Free
  <2> QED
    BY <2>1, <2>2, <2>3, <2>5, LocalStep DEF IInv, TypeOK
<1>3. u \in accounts
  BY DEF Fund, IInv, Relies, Redeeming
<1> QED
  BY <1>1, <1>2, <1>3 DEF Fund, CreditRow

LEMMA ReloadInv ==
  ASSUME IInv, NEW r \in Req, Reload(r)
  PROVE  IInv'
<1> USE DEF Reload, Goto, tables
<1>1. TypeOK'
  BY DEF IInv, TypeOK, Label, Committed
<1>2. Shape(r)'
  BY DEF IInv, TypeOK, Shape, Statement
<1>3. Relies(r)'
  BY DEF IInv, TypeOK, Relies, Paying, Redeeming, Statement
<1>5. \A q \in Req \ {r} : held'[r] \cap held[q] = {}
  BY DEF IInv, TypeOK, Exclusion
<1> QED
  BY <1>1, <1>2, <1>3, <1>5, LocalStep DEF IInv, TypeOK

LEMMA DropInv ==
  ASSUME IInv, NEW r \in Req, Drop(r) \/ BreakDeadlock(r)
  PROVE  IInv'
<1>1. CASE Drop(r)
  BY <1>1, RollbackInv DEF Drop, Statement, Committed, Uncommitted
<1>2. CASE BreakDeadlock(r)
  <2>1. PICK S \in SUBSET Req : r \in S /\ WaitsFor(r) # {}
    BY <1>2, Zenon DEF BreakDeadlock, Deadlocked
  <2>2. pc[r] \in {"debit", "credit", "select", "spend", "fund"}
    BY <2>1 DEF WaitsFor
  <2> QED
    BY <1>2, <2>2, RollbackInv DEF BreakDeadlock, Statement, Committed,
       Uncommitted
<1> QED
  BY <1>1, <1>2

-----------------------------------------------------------------------------
(***************************************************************************)
(* What a request has checked concerns rows it holds.                      *)
(***************************************************************************)
LEMMA HeldRows ==
  ASSUME IInv, NEW r \in Req
  PROVE  /\ Paying(r) \/ pc[r] = "commit" => req[r].from \in held[r]
         /\ Redeeming(r) => req[r].item \in held[r]
         /\ pc[r] # "idle" => req[r] \in Request /\ req[r].from \in User
<1>1. pc[r] # "idle" => req[r] \in Request /\ req[r].from \in User
  BY DEF IInv, TypeOK, Request
<1>2. pc[r] # "idle" => req[r].op \in {"transfer", "gift", "redeem"}
  BY <1>1 DEF Request
<1> QED
  BY <1>1, <1>2 DEF IInv, Shape, Paying, Redeeming

(***************************************************************************)
(* A commit writes rows its request holds, and nothing else.               *)
(***************************************************************************)
LEMMA CommitWrites ==
  ASSUME IInv, NEW r \in Req, Commit(r)
  PROVE  /\ coins' \in [User -> Int]
         /\ voucher' \in [Voucher -> [coins : Nat, remaining : Int, total : Nat]]
         /\ \A u \in User : coins'[u] # coins[u] => u \in held[r]
         /\ \A v \in Voucher : voucher'[v] # voucher[v] => v \in held[r]
         /\ \A p \in redeemed' \ redeemed :
              p \in Voucher \X User /\ p[1] \in held[r]
         /\ \A p \in presents' \ presents :
              p \in L!Present /\ p.slip = r
<1> DEFINE s == req[r].from
           t == req[r].to
<1> USE DEF Commit
<1>0. /\ req[r] \in Request /\ s \in User /\ s \in held[r]
      /\ Cost(req[r]) \in Nat
  BY HeldRows, CostNat DEF IInv, TypeOK
<1>1. CASE req[r].op = "transfer" /\ ApplyTransfer(r)
  <2>1. req[r].amount \in Nat
    BY <1>0, <1>1 DEF Cost
  <2> QED
    BY <1>0, <1>1, <2>1 DEF ApplyTransfer, IInv, TypeOK
<1>2. CASE req[r].op = "gift" /\ ApplyGift(r)
  <2>1. req[r].item \in Gift /\ t \in accounts
    BY <1>0, <1>2 DEF Request, IInv, Relies
  <2> QED
    BY <1>0, <1>2, <2>1 DEF ApplyGift, IInv, TypeOK, L!Present
<1>3. CASE req[r].op = "redeem" /\ ApplyRedeem(r)
  <2> DEFINE v == req[r].item
  <2>1. v \in Voucher /\ v \in held[r]
    BY <1>0, <1>3, HeldRows DEF Request, Redeeming
  <2>2. /\ voucher \in [Voucher -> [coins : Nat, remaining : Int, total : Nat]]
        /\ coins \in [User -> Int]
    BY DEF IInv, TypeOK
  <2>3. voucher[v].coins \in Nat /\ coins[s] \in Int
    BY <1>0, <2>1, <2>2
  <2>4. /\ coins' \in [User -> Int]
        /\ \A u \in User : coins'[u] # coins[u] => u \in held[r]
    BY <1>0, <1>3, <2>2, <2>3 DEF ApplyRedeem
  <2>5. /\ voucher' \in [Voucher -> [coins : Nat, remaining : Int, total : Nat]]
        /\ \A w \in Voucher : voucher'[w] # voucher[w] => w \in held[r]
    BY <1>3, <2>1, <2>2 DEF ApplyRedeem
  <2>6. /\ \A p \in redeemed' \ redeemed :
             p \in Voucher \X User /\ p[1] \in held[r]
        /\ presents' = presents
    BY <1>0, <1>3, <2>1 DEF ApplyRedeem
  <2> QED
    BY <2>4, <2>5, <2>6
<1> QED
  BY <1>1, <1>2, <1>3

LEMMA CommitSolvent ==
  ASSUME IInv, NEW r \in Req, Commit(r)
  PROVE  Solvent'
<1> DEFINE s == req[r].from
           t == req[r].to
<1> USE DEF Commit
<1>0. /\ req[r] \in Request /\ s \in User /\ s \in held[r]
      /\ Cost(req[r]) \in Nat /\ MaxCoins \in Nat
      /\ \A u \in User : coins[u] \in 0 .. MaxCoins
      /\ accounts' = accounts
  BY HeldRows, CostNat, WalletAssumption DEF IInv, TypeOK, Solvent
<1>1. CASE req[r].op = "transfer" /\ ApplyTransfer(r)
  <2>1. /\ req[r].amount \in Nat /\ s \in accounts /\ coins[s] >= req[r].amount
        /\ t \in held[r] => /\ t \in accounts
                            /\ coins[t] + req[r].amount <= MaxCoins
        /\ s # t
    BY <1>0, <1>1 DEF Cost, IInv, Relies, Paying
  <2> QED
    BY <1>0, <1>1, <2>1 DEF ApplyTransfer, IInv, Solvent
<1>2. CASE req[r].op = "gift" /\ ApplyGift(r)
  <2>1. s \in accounts /\ coins[s] >= Cost(req[r])
    BY <1>0, <1>2 DEF IInv, Relies, Paying
  <2> QED
    BY <1>0, <1>2, <2>1 DEF ApplyGift, IInv, TypeOK, Solvent
<1>3. CASE req[r].op = "redeem" /\ ApplyRedeem(r)
  <2>1. req[r].item \in Voucher
    BY <1>0, <1>3 DEF Request
  <2>2. /\ s \in accounts
        /\ coins[s] + voucher[req[r].item].coins <= MaxCoins
        /\ voucher[req[r].item].coins \in Nat
    BY <1>3, <2>1 DEF IInv, TypeOK, Relies, Redeeming
  <2> QED
    BY <1>0, <1>3, <2>2 DEF ApplyRedeem, IInv, TypeOK, Solvent
<1> QED
  BY <1>1, <1>2, <1>3

LEMMA CommitVoucherBooks ==
  ASSUME IInv, NEW r \in Req, Commit(r)
  PROVE  VoucherBooks'
<1>1. CASE UNCHANGED <<voucher, redeemed>>
  BY <1>1 DEF IInv, VoucherBooks, RedeemedBy
<1>2. CASE req[r].op = "redeem" /\ ApplyRedeem(r)
  <2>0. PICK v \in Voucher, s \in User : v = req[r].item /\ s = req[r].from
    BY <1>2, HeldRows DEF Request, Commit
  <2>1. /\ voucher[v].remaining > 0
        /\ voucher \in [Voucher -> [coins : Nat, remaining : Int, total : Nat]]
    BY <1>2, <2>0 DEF IInv, TypeOK, Relies, Redeeming, Commit
  <2>2. voucher' = [voucher EXCEPT ![v].remaining = @ - 1]
    BY <1>2, <2>0 DEF ApplyRedeem
  <2>3. RedeemedBy(v)' = RedeemedBy(v) \cup {s}
    <3>1. redeemed' = redeemed \cup {<<v, s>>}
      BY <1>2, <2>0 DEF ApplyRedeem
    <3>2. \A u \in User : <<v, u>> \in redeemed' <=> <<v, u>> \in redeemed \/ u = s
      BY <3>1
    <3> QED
      BY <2>1, <3>2, Zenon DEF RedeemedBy
  <2>4. Cardinality(RedeemedBy(v)') <= Cardinality(RedeemedBy(v)) + 1
    <3>1. /\ IsFiniteSet(RedeemedBy(v)) /\ Cardinality(RedeemedBy(v)) \in Nat
      BY RedeemersFinite
    <3>2. Cardinality(RedeemedBy(v) \cup {s}) \in
            {Cardinality(RedeemedBy(v)), Cardinality(RedeemedBy(v)) + 1}
      BY <3>1, FS_AddElement
    <3> QED
      BY <2>3, <3>1, <3>2
  <2>5. \A w \in Voucher \ {v} :
          RedeemedBy(w)' = RedeemedBy(w) /\ voucher'[w] = voucher[w]
    BY <1>2, <2>0, <2>1, <2>2 DEF ApplyRedeem, RedeemedBy
  <2>6. voucher'[v].remaining = voucher[v].remaining - 1
        /\ voucher'[v].total = voucher[v].total
    BY <2>1, <2>2
  <2>7. Cardinality(RedeemedBy(v)') \in Nat
    <3>1. IsFiniteSet(RedeemedBy(v)')
      BY <2>3, RedeemersFinite, FS_AddElement
    <3> QED
      BY <3>1, FS_CardinalityType
  <2>8. /\ VoucherBooks
        /\ Cardinality(RedeemedBy(v)) \in Nat
        /\ voucher[v].total \in Nat /\ voucher[v].remaining \in Int
    BY <2>1, RedeemersFinite DEF IInv
  <2>9. /\ voucher'[v].remaining >= 0
        /\ Cardinality(RedeemedBy(v)') + voucher'[v].remaining <= voucher'[v].total
    BY <2>1, <2>4, <2>6, <2>7, <2>8 DEF VoucherBooks
  <2>10. \A w \in Voucher \ {v} :
           /\ voucher'[w].remaining >= 0
           /\ Cardinality(RedeemedBy(w)') + voucher'[w].remaining
                <= voucher'[w].total
    BY <2>5, <2>8 DEF VoucherBooks
  <2> QED
    BY <2>9, <2>10 DEF VoucherBooks
<1> QED
  BY <1>1, <1>2 DEF Commit, ApplyTransfer, ApplyGift

LEMMA CommitInv ==
  ASSUME IInv, NEW r \in Req, Commit(r)
  PROVE  IInv'
<1> USE DEF Commit, Goto
<1>0. req[r] \in Request
  BY HeldRows
<1>1. TypeOK'
  BY CommitWrites DEF IInv, TypeOK, Label, Committed
<1>2. Solvent'
  BY CommitSolvent
<1>3. Exclusion'
  BY DEF IInv, TypeOK, Exclusion
<1>4. ASSUME NEW q \in Req, q # r
      PROVE  Shape(q)'
  BY <1>4 DEF IInv, TypeOK, Shape
<1>5. ASSUME NEW q \in Req, q # r
      PROVE  Relies(q)'
  <2>1. /\ held[q] \cap held[r] = {}
        /\ pc'[q] = pc[q] /\ req'[q] = req[q] /\ held'[q] = held[q]
        /\ accounts' = accounts /\ given' = given
    BY <1>5 DEF IInv, TypeOK, Exclusion
  <2>2. \A u \in held[q] \cap User : coins'[u] = coins[u]
    BY <2>1, CommitWrites
  <2>3. \A v \in held[q] \cap Voucher : voucher'[v] = voucher[v]
    BY <2>1, CommitWrites
  <2>4. \A p \in redeemed' : p[1] \in held[q] => p \in redeemed
    BY <2>1, CommitWrites
  <2>5. /\ Paying(q) \/ pc[q] = "commit" => req[q].from \in held[q] \cap User
        /\ Redeeming(q) => req[q].item \in held[q] \cap Voucher
    BY HeldRows DEF IInv, TypeOK, Shape, Request, Paying, Redeeming
  <2>6. Paying(q)' = Paying(q) /\ Redeeming(q)' = Redeeming(q)
    BY <2>1 DEF Paying, Redeeming
  <2>7. Relies(q)
    BY DEF IInv
  <2>8. Paying(q)' =>
          /\ req'[q].from \in accounts'
          /\ coins'[req'[q].from] >= Cost(req'[q])
    BY <2>1, <2>2, <2>5, <2>6, <2>7 DEF Relies
  <2>9. /\ pc[q] = "commit" /\ req[q].op = "transfer" /\ req[q].to \in held[q]
             => coins'[req[q].to] = coins[req[q].to]
    BY <2>2, <2>7 DEF IInv, TypeOK, Relies
  <2>10. Redeeming(q) => /\ voucher'[req[q].item] = voucher[req[q].item]
                         /\ <<req[q].item, req[q].from>> \in redeemed' =>
                              <<req[q].item, req[q].from>> \in redeemed
    BY <2>3, <2>4, <2>5
  <2>11. pc[q] = "commit" => coins'[req[q].from] = coins[req[q].from]
    BY <2>2, <2>5
  <2>12. pc[q] = "commit" /\ req[q].op = "redeem" => Redeeming(q)
    BY DEF Redeeming
  <2> HIDE DEF Commit
  <2> QED
    BY <2>1, <2>6, <2>7, <2>8, <2>9, <2>10, <2>11, <2>12 DEF Relies
<1>6. Shape(r)' /\ Relies(r)'
  BY DEF IInv, TypeOK, Shape, Relies, Paying, Redeeming, Statement
<1>7. VoucherBooks'
  BY CommitVoucherBooks
<1> QED
  BY <1>1, <1>2, <1>3, <1>4, <1>5, <1>6, <1>7 DEF IInv

-----------------------------------------------------------------------------
(***************************************************************************)
(* Steps that are nobody's request: they leave every task alone and write  *)
(* no row that a request has locked or refers to.                          *)
(***************************************************************************)
LEMMA OutsideStep ==
  ASSUME IInv, UNCHANGED tasks, TypeOK', Solvent', VoucherBooks',
         redeemed' \subseteq redeemed,
         given \subseteq given', accounts' \cap given \subseteq accounts,
         \A u \in User :
           (\E r \in Req : u \in held[r] \cup shared[r]) /\ u \in accounts
             => u \in accounts',
         \A u \in User : (\E r \in Req : u \in held[r]) => coins'[u] = coins[u],
         \A v \in Voucher :
           (\E r \in Req : v \in held[r]) /\ voucher[v].remaining > 0
             => voucher'[v] = voucher[v]
  PROVE  IInv'
<1> USE DEF tasks
<1>1. Exclusion'
  BY DEF IInv, Exclusion
<1>2. ASSUME NEW q \in Req
      PROVE  Shape(q)'
  BY DEF IInv, Shape
<1>3. ASSUME NEW q \in Req
      PROVE  Relies(q)'
  <2>1. Paying(q)' = Paying(q) /\ Redeeming(q)' = Redeeming(q)
    BY DEF Paying, Redeeming
  <2>2. /\ Paying(q) \/ pc[q] = "commit" => req[q].from \in held[q] \cap User
        /\ Redeeming(q) => req[q].item \in held[q] \cap Voucher
        /\ pc[q] # "idle" => req[q].from \in User
    BY HeldRows DEF IInv, TypeOK, Shape, Request, Paying, Redeeming
  <2>3. Relies(q) /\ Shape(q)
    BY DEF IInv
  <2>4. Paying(q) => /\ req[q].from \in accounts'
                     /\ coins'[req[q].from] >= Cost(req[q])
    BY <2>2, <2>3 DEF Relies
  <2>5. pc[q] = "commit" /\ req[q].op = "transfer" /\ req[q].to \in held[q] =>
          req[q].to \in accounts' /\ coins'[req[q].to] = coins[req[q].to]
    BY <2>3 DEF IInv, TypeOK, Relies
  <2>6. pc[q] = "commit" /\ req[q].op = "gift" => req[q].to \in accounts'
    BY <2>3 DEF IInv, TypeOK, Relies, Shape
  <2>7. Redeeming(q) => voucher'[req[q].item] = voucher[req[q].item]
    BY <2>2, <2>3 DEF Relies
  <2>8. Redeeming(q) /\ pc[q] # "record" =>
          /\ req[q].from \in accounts'
          /\ <<req[q].item, req[q].from>> \notin redeemed'
    BY <2>2, <2>3 DEF Relies, Shape, Redeeming
  <2>9. pc[q] = "commit" => coins'[req[q].from] = coins[req[q].from]
    BY <2>2
  <2>10. pc[q] = "commit" /\ req[q].op = "redeem" => Redeeming(q)
    BY DEF Redeeming
  <2>11. pc[q] = "commit" /\ req[q].op = "transfer" /\ req[q].to \notin held[q] =>
           req[q].to \notin accounts'
    <3> SUFFICES ASSUME pc[q] = "commit", req[q].op = "transfer", req[q].to \notin held[q]
                 PROVE  req[q].to \notin accounts'
      OBVIOUS
    <3>1. req[q].to \in given \cup Alias /\ req[q].to \notin accounts
      BY <2>3 DEF Relies, Statement
    <3>2. accounts' \subseteq User
      BY DEF TypeOK
    <3> QED BY <3>1, <3>2, WalletAssumption
  <2>12. pc[q] \in Statement /\ req[q].op = "transfer" => req[q].to \in given' \cup Alias
    BY <2>3 DEF Relies
  <2> QED
    BY <2>1, <2>3, <2>4, <2>5, <2>6, <2>7, <2>8, <2>9, <2>10, <2>11, <2>12 DEF Relies
<1> QED
  BY <1>1, <1>2, <1>3 DEF IInv

LEMMA RegisterInv ==
  ASSUME IInv, NEW u \in User, Register(u) \/ EnsureDemo(u)
  PROVE  IInv'
<1> USE DEF Register, EnsureDemo
<1>1. UNCHANGED <<coins, voucher, redeemed, presents, tasks>>
  OBVIOUS
<1>2. /\ accounts' = accounts \cup {u} /\ demo' \in {demo, u}
      /\ u \notin given /\ given' = given \cup {u}
  OBVIOUS
<1> HIDE DEF Register, EnsureDemo
<1>3. TypeOK'
  BY <1>1, <1>2 DEF IInv, TypeOK, tasks
<1>4. Solvent'
  BY <1>1, <1>2 DEF IInv, Solvent
<1>5. VoucherBooks'
  BY <1>1 DEF IInv, VoucherBooks, RedeemedBy
<1> QED
  BY <1>1, <1>2, <1>3, <1>4, <1>5, OutsideStep

LEMMA DeleteAccountInv ==
  ASSUME IInv, NEW u \in User, DeleteAccount(u)
  PROVE  IInv'
<1> USE DEF DeleteAccount
<1>1. TypeOK'
  BY DEF IInv, TypeOK, tasks
<1>2. Solvent'
  BY WalletAssumption DEF IInv, TypeOK, Solvent
<1>3. \A w \in User :
        (\E r \in Req : w \in held[r] \cup shared[r]) => w # u
  BY DEF Unreferenced
<1>4. \A w \in User : w # u => coins'[w] = coins[w]
  BY DEF IInv, TypeOK
<1>5. VoucherBooks'
  <2>1. \A v \in Voucher :
          /\ Cardinality(RedeemedBy(v)') <= Cardinality(RedeemedBy(v))
          /\ Cardinality(RedeemedBy(v)) \in Nat
          /\ voucher[v].remaining \in Int /\ voucher[v].total \in Int
    BY FewerRedeemers, RedeemersFinite DEF IInv, TypeOK
  <2>2. \A v \in Voucher : Cardinality(RedeemedBy(v)') \in Nat
    <3>1. ASSUME NEW v PROVE RedeemedBy(v)' \subseteq User
      BY DEF RedeemedBy
    <3> QED
      BY <3>1, FS_Subset, FS_CardinalityType, WalletAssumption
  <2>3. voucher' = voucher /\ VoucherBooks
    BY DEF IInv
  <2> QED
    BY <2>1, <2>2, <2>3 DEF VoucherBooks
<1> QED
  BY <1>1, <1>2, <1>3, <1>4, <1>5, OutsideStep

LEMMA TopUpDemoInv ==
  ASSUME IInv, TopUpDemo
  PROVE  IInv'
<1> USE DEF TopUpDemo
<1>1. TypeOK'
  BY WalletAssumption DEF IInv, TypeOK, tasks
<1>2. Solvent'
  BY WalletAssumption DEF IInv, TypeOK, Solvent
<1>3. \A r \in Req : demo \notin held[r]
  BY WalletAssumption DEF Free
<1>4. VoucherBooks'
  BY DEF IInv, VoucherBooks, RedeemedBy
<1> QED
  BY <1>1, <1>2, <1>3, <1>4, OutsideStep DEF IInv, TypeOK

LEMMA CreateVoucherInv ==
  ASSUME IInv, NEW v \in Voucher, NEW n \in Amounts, NEW uses \in 1 .. MaxUses,
         CreateVoucher(v, n, uses)
  PROVE  IInv'
<1> USE DEF CreateVoucher
<1>1. TypeOK'
  BY WalletAssumption DEF IInv, TypeOK, tasks
<1>2. Solvent'
  BY DEF IInv, Solvent
<1>3. /\ voucher[v].remaining = 0 /\ Cardinality(RedeemedBy(v)) = 0
      /\ voucher[v].total = 0
  <2>1. /\ Cardinality(RedeemedBy(v)) \in Nat
        /\ voucher[v].remaining \in Int
    BY RedeemersFinite DEF IInv, TypeOK
  <2> QED
    BY <2>1 DEF IInv, VoucherBooks
<1>4. VoucherBooks'
  <2>1. /\ voucher' = [voucher EXCEPT
                          ![v] = [coins |-> n, remaining |-> uses, total |-> uses]]
        /\ \A w : RedeemedBy(w)' = RedeemedBy(w)
        /\ voucher \in [Voucher -> [coins : Nat, remaining : Int, total : Nat]]
    BY DEF RedeemedBy, IInv, TypeOK
  <2>2. VoucherBooks /\ uses \in Nat
    BY WalletAssumption DEF IInv
  <2> QED
    BY <1>3, <2>1, <2>2 DEF VoucherBooks
<1> QED
  BY <1>1, <1>2, <1>3, <1>4, OutsideStep DEF IInv, TypeOK

-----------------------------------------------------------------------------
LEMMA StepInv ==
  ASSUME IInv, NEW r \in Req, Step(r)
  PROVE  IInv'
BY DebitInv, CreditInv, GivePresentInv, SelectVoucherInv, RecordRedemptionInv,
   SpendUseInv, FundInv, CommitInv, ReloadInv DEF Step

LEMMA NextInv == IInv /\ [Next]_vars => IInv'
<1> SUFFICES ASSUME IInv, [Next]_vars PROVE IInv'
  OBVIOUS
<1>1. ASSUME NEW r \in Req, NEW q \in Request, Begin(r, q)
      PROVE  IInv'
  BY <1>1, BeginInv
<1>2. ASSUME NEW r \in Req, Step(r) \/ Drop(r) \/ BreakDeadlock(r)
      PROVE  IInv'
  BY <1>2, StepInv, DropInv
<1>3. ASSUME NEW u \in User, Register(u) \/ DeleteAccount(u) \/ EnsureDemo(u)
      PROVE  IInv'
  BY <1>3, RegisterInv, DeleteAccountInv
<1>4. CASE TopUpDemo
  BY <1>4, TopUpDemoInv
<1>5. ASSUME NEW v \in Voucher, NEW n \in Amounts, NEW uses \in 1 .. MaxUses,
             CreateVoucher(v, n, uses)
      PROVE  IInv'
  BY <1>5, CreateVoucherInv
<1>6. CASE UNCHANGED vars
  <2>1. /\ UNCHANGED <<accounts, given, coins, demo, voucher, redeemed, presents>>
        /\ UNCHANGED <<pc, req, held, shared>>
    BY <1>6 DEF vars
  <2>2. TypeOK' /\ Solvent' /\ VoucherBooks'
    BY <2>1 DEF IInv, TypeOK, Solvent, VoucherBooks, RedeemedBy
  <2> QED
    BY <2>1, <2>2, OutsideStep DEF tasks, IInv
<1> QED
  BY <1>1, <1>2, <1>3, <1>4, <1>5, <1>6 DEF Next, Outside

THEOREM Invariance == Spec => []IInv
BY InitInv, NextInv, PTL DEF Spec

(***************************************************************************)
(* Every variable of the wallet keeps its type.                            *)
(***************************************************************************)
THEOREM TypeCorrect == Spec => []TypeOK
<1>1. IInv => TypeOK
  BY DEF IInv
<1> QED
  BY <1>1, Invariance, PTL

(***************************************************************************)
(* However debits, credits, gifts and redemptions interleave, no balance   *)
(* is ever negative or beyond BIGINT (debit_coins, transfer_coins,         *)
(* redeem_voucher).                                                        *)
(***************************************************************************)
THEOREM Solvency == Spec => []Solvent
<1>1. IInv => Solvent
  BY DEF IInv
<1> QED
  BY <1>1, Invariance, PTL

(***************************************************************************)
(* However many tasks redeem one voucher at once, it is never overspent    *)
(* (redeem_voucher's FOR UPDATE).                                          *)
(***************************************************************************)
THEOREM VouchersNotOverspent == Spec => []VoucherBooks
<1>1. IInv => VoucherBooks
  BY DEF IInv
<1> QED
  BY <1>1, Invariance, PTL

-----------------------------------------------------------------------------
(***************************************************************************)
(* The refinement.  A commit is a step of the ledger: what was checked     *)
(* when the rows were locked still holds.  Every step of a task before     *)
(* that, and every rollback, leaves the ledger as it is.                   *)
(***************************************************************************)
LEMMA OutcomeStep ==
  ASSUME IInv, NEW r \in Req, NEW label \in Label, Goto(r, label)
  PROVE  [q \in Req |-> Outcome(pc[q])]' =
           [[q \in Req |-> Outcome(pc[q])] EXCEPT ![r] = Outcome(label)]
<1>1. pc' = [pc EXCEPT ![r] = label] /\ pc \in [Req -> Label]
  BY DEF IInv, TypeOK, Goto
<1>2. \A q \in Req : Outcome(pc'[q]) = IF q = r THEN Outcome(label) ELSE Outcome(pc[q])
  BY <1>1
<1> QED BY <1>2

LEMMA OutcomeOf ==
  /\ Outcome("idle") = "idle"
  /\ \A label \in Statement : Outcome(label) = "open"
  /\ \A label \in Committed : Outcome(label) = "served"
  /\ \A label \in Uncommitted : Outcome(label) = "declined"
BY DEF Outcome, Statement, Committed, Uncommitted

LEMMA CommitRefines ==
  ASSUME IInv, NEW r \in Req, Commit(r)
  PROVE  L!Next
<1>0. /\ req[r] \in Request /\ req[r].from \in User
      /\ accounts' = accounts /\ demo' = demo /\ given' = given /\ req' = req
      /\ coins \in [User -> Int] /\ accounts \subseteq User
      /\ Relies(r) /\ Shape(r) /\ pc[r] = "commit"
  BY HeldRows DEF IInv, TypeOK, Commit
<1>1. PICK s \in User : s = req[r].from
  BY <1>0
<1>2. ASSUME NEW op, req[r].op = op, s \in accounts PROVE L!Serve(r, op)
  <2>1. Outcome(pc[r]) = "open" /\ Outcome("reload") = "served"
    BY <1>0, OutcomeOf DEF Statement, Committed
  <2>2. [q \in Req |-> Outcome(pc[q])]' =
          [[q \in Req |-> Outcome(pc[q])] EXCEPT ![r] = "served"]
    BY <2>1, OutcomeStep DEF Commit, Label, Committed
  <2> QED BY <1>0, <1>1, <1>2, <2>1, <2>2 DEF L!Serve
<1>3. CASE req[r].op = "transfer" /\ ApplyTransfer(r)
  <2>1. PICK n \in Amounts : n = req[r].amount
    BY <1>0, <1>3 DEF Request
  <2>2. s \in accounts /\ coins[s] >= n /\ req[r].to # s
    BY <1>0, <1>1, <1>3, <2>1 DEF Relies, Paying, Cost
  <2>3. L!Serve(r, "transfer")
    BY <1>2, <1>3, <2>2
  <2>4. CASE req[r].to \in held[r]
    <3>1. PICK t \in accounts : t = req[r].to
      BY <1>0, <1>3, <2>4 DEF Relies
    <3>2. coins' = [coins EXCEPT ![s] = coins[s] - n, ![t] = coins[t] + n]
      BY <1>0, <1>1, <1>3, <2>1, <2>2, <2>4, <3>1 DEF ApplyTransfer
    <3>3. coins[t] + n <= MaxCoins
      BY <1>0, <1>3, <2>1, <2>4, <3>1 DEF Relies
    <3>4. L!Transfer(r)
      BY <1>1, <1>3, <2>1, <2>2, <2>3, <3>1, <3>2, <3>3 DEF L!Transfer, ApplyTransfer
    <3> QED BY <3>4 DEF L!Next
  <2>5. CASE req[r].to \notin held[r]
    <3>1. coins' = [coins EXCEPT ![s] = coins[s] - n]
      BY <1>0, <1>1, <1>3, <2>1, <2>5 DEF ApplyTransfer
    <3>2. req[r].to \notin accounts
      BY <1>0, <1>3, <2>5 DEF Relies
    <3>3. L!TransferToNobody(r)
      BY <1>1, <1>3, <2>1, <2>2, <2>3, <3>1, <3>2 DEF L!TransferToNobody, ApplyTransfer
    <3> QED BY <3>3 DEF L!Next
  <2> QED BY <2>4, <2>5
<1>4. CASE req[r].op = "gift" /\ ApplyGift(r)
  <2>1. req[r].to \in accounts /\ s \in accounts /\ coins[s] >= Price[req[r].item]
    BY <1>0, <1>1, <1>4 DEF Relies, Paying, Cost
  <2>2. L!Serve(r, "gift")
    BY <1>2, <1>4, <2>1
  <2>3. L!Give(r)
    BY <1>0, <1>1, <1>4, <2>1, <2>2 DEF L!Give, ApplyGift, Cost
  <2> QED BY <2>3 DEF L!Next
<1>5. CASE req[r].op = "redeem" /\ ApplyRedeem(r)
  <2>1. /\ s \in accounts /\ voucher[req[r].item].remaining > 0
        /\ <<req[r].item, s>> \notin redeemed /\ s \in held[r]
        /\ coins[s] + voucher[req[r].item].coins <= MaxCoins
    BY <1>0, <1>1, <1>5 DEF Relies, Redeeming, Shape
  <2>2. L!Serve(r, "redeem")
    BY <1>2, <1>5, <2>1
  <2>3. L!Redeem(r)
    BY <1>0, <1>1, <1>5, <2>1, <2>2 DEF L!Redeem, ApplyRedeem
  <2> QED BY <2>3 DEF L!Next
<1> QED
  BY <1>3, <1>4, <1>5 DEF Commit

(***************************************************************************)
(* A rollback declines the request, or comes after it was served.          *)
(***************************************************************************)
LEMMA RollbackRefines ==
  ASSUME IInv, NEW r \in Req, pc[r] \in Statement, NEW ending \in Uncommitted,
         Rollback(r, ending)
  PROVE  L!Next
<1>1. Outcome(pc[r]) = "open" /\ Outcome(ending) = "declined" /\ ending \in Label
  BY OutcomeOf DEF Label
<1>2. [q \in Req |-> Outcome(pc[q])]' =
        [[q \in Req |-> Outcome(pc[q])] EXCEPT ![r] = "declined"]
  BY <1>1, OutcomeStep DEF Rollback
<1>3. L!Decline(r)
  BY <1>1, <1>2 DEF L!Decline, Rollback, tables
<1> QED BY <1>3 DEF L!Next

LEMMA SameOutcome ==
  ASSUME IInv, NEW r \in Req, NEW label \in Label, Goto(r, label),
         Outcome(label) = Outcome(pc[r]), UNCHANGED <<tables, req>>
  PROVE  UNCHANGED L!vars
<1>1. [q \in Req |-> Outcome(pc[q])]' = [q \in Req |-> Outcome(pc[q])]
  BY OutcomeStep
<1> QED BY <1>1 DEF L!vars, tables

LEMMA BeginRefines ==
  ASSUME IInv, NEW r \in Req, NEW q \in Request, Begin(r, q)
  PROVE  L!Next
<1>1. PICK label \in Statement \cup {"refused"} : Goto(r, label)
  BY DEF Begin, FirstStatement, Statement
<1>2. label \in Label /\ Outcome(label) \in {"open", "declined"} /\ Outcome(pc[r]) = "idle"
  BY <1>1, OutcomeOf DEF Begin, Label, Uncommitted
<1>3. [p \in Req |-> Outcome(pc[p])]' =
        [[p \in Req |-> Outcome(pc[p])] EXCEPT ![r] = Outcome(label)]
  BY <1>1, <1>2, OutcomeStep
<1>4. L!Ask(r, q)
  BY <1>2, <1>3 DEF L!Ask, Begin, tables
<1> QED BY <1>4 DEF L!Next

LEMMA RequestRefines ==
  ASSUME IInv, NEW r \in Req, Step(r) \/ Drop(r) \/ BreakDeadlock(r)
  PROVE  L!Next \/ UNCHANGED L!vars
<1>1. CASE Commit(r)
  BY <1>1, CommitRefines
<1>2. ASSUME pc[r] \in Statement,
             \/ \E ending \in Uncommitted : Rollback(r, ending)
             \/ \E label \in Statement : Goto(r, label) /\ UNCHANGED <<tables, req>>
      PROVE  L!Next \/ UNCHANGED L!vars
  <2>1. CASE \E ending \in Uncommitted : Rollback(r, ending)
    BY <1>2, <2>1, RollbackRefines
  <2>2. CASE \E label \in Statement : Goto(r, label) /\ UNCHANGED <<tables, req>>
    BY <1>2, <2>2, OutcomeOf, SameOutcome DEF Label
  <2> QED BY <1>2, <2>1, <2>2
<1>3. ASSUME pc[r] = "reload",
             \E label \in Committed : Goto(r, label) /\ UNCHANGED <<tables, req>>
      PROVE  UNCHANGED L!vars
  <2>1. pc[r] \in Committed
    BY <1>3 DEF Committed
  <2> QED BY <1>3, <2>1, OutcomeOf, SameOutcome DEF Label
<1>4. CASE Debit(r)
  BY <1>2, <1>4 DEF Debit, Statement, Uncommitted
<1>5. CASE Credit(r) \/ Fund(r)
  BY <1>2, <1>5 DEF Credit, Fund, CreditRow, Statement, Uncommitted
<1>6. CASE GivePresent(r) \/ SelectVoucher(r) \/ RecordRedemption(r) \/ SpendUse(r)
  BY <1>2, <1>6 DEF GivePresent, SelectVoucher, RecordRedemption, SpendUse, Statement, Uncommitted
<1>7. CASE Reload(r)
  BY <1>3, <1>7 DEF Reload, Committed
<1>8. CASE Drop(r)
  <2>1. CASE pc[r] \in Statement /\ Rollback(r, "dropped")
    BY <1>2, <2>1 DEF Uncommitted
  <2>2. CASE pc[r] = "reload" /\ Rollback(r, "unanswered")
    BY <1>3, <2>2 DEF Rollback, Committed
  <2> QED BY <1>8, <2>1, <2>2 DEF Drop
<1>9. CASE BreakDeadlock(r)
  <2>1. WaitsFor(r) # {} /\ Rollback(r, "error")
    BY <1>9, Zenon DEF BreakDeadlock, Deadlocked
  <2>2. pc[r] \in Statement
    BY <2>1 DEF WaitsFor, Statement
  <2> QED BY <1>2, <2>1, <2>2 DEF Uncommitted
<1> QED
  BY <1>1, <1>4, <1>5, <1>6, <1>7, <1>8, <1>9 DEF Step

LEMMA OutsideRefines ==
  ASSUME IInv, Outside
  PROVE  L!Next
<1>1. Outside => UNCHANGED tasks
  BY DEF Outside, Register, DeleteAccount, EnsureDemo, TopUpDemo, CreateVoucher
<1>2. /\ req' = req
      /\ [q \in Req |-> Outcome(pc[q])]' = [q \in Req |-> Outcome(pc[q])]
  BY <1>1 DEF tasks
<1>3. ASSUME NEW u \in User, Register(u) \/ EnsureDemo(u)
      PROVE  L!Next
  <2>1. L!Open(u)
    BY <1>2, <1>3 DEF Register, EnsureDemo, L!Open
  <2> QED
    BY <2>1 DEF L!Next
<1>4. ASSUME NEW u \in User, DeleteAccount(u)
      PROVE  L!Next
  <2>1. L!Close(u)
    BY <1>2, <1>4 DEF DeleteAccount, L!Close
  <2> QED
    BY <2>1 DEF L!Next
<1>5. CASE TopUpDemo
  BY <1>2, <1>5 DEF TopUpDemo, L!TopUp, L!Next
<1>6. ASSUME NEW v \in Voucher, NEW n \in Amounts, NEW uses \in 1 .. MaxUses,
             CreateVoucher(v, n, uses)
      PROVE  L!Next
  <2>1. L!Issue(v, n, uses)
    BY <1>2, <1>6 DEF CreateVoucher, L!Issue
  <2> QED
    BY <2>1 DEF L!Next
<1> QED
  BY <1>3, <1>4, <1>5, <1>6 DEF Outside

(***************************************************************************)
(* The transactions of transfer_coins, send_gift and redeem_voucher,       *)
(* statement by statement and dropped at any of them, implement a ledger   *)
(* in which each is one indivisible step or declined for good, and a       *)
(* transfer that is served reaches its receiver if there is one.           *)
(***************************************************************************)
THEOREM Refinement == Spec => ImplementsLedger
<1>1. Init => L!Init
  <2>1. Init => [q \in Req |-> Outcome(pc[q])] = [q \in Req |-> "idle"]
    BY OutcomeOf DEF Init
  <2> QED BY <2>1 DEF Init, L!Init, L!NoVoucher
<1>2. IInv /\ [Next]_vars => [L!Next]_(L!vars)
  <2> SUFFICES ASSUME IInv, [Next]_vars PROVE L!Next \/ UNCHANGED L!vars
    OBVIOUS
  <2>1. CASE \E r \in Req : \E q \in Request : Begin(r, q)
    BY <2>1, BeginRefines
  <2>2. CASE \E r \in Req : Step(r) \/ Drop(r) \/ BreakDeadlock(r)
    BY <2>2, RequestRefines
  <2>3. CASE Outside
    BY <2>3, OutsideRefines
  <2>4. CASE UNCHANGED vars
    BY <2>4 DEF vars, L!vars
  <2> QED
    BY <2>1, <2>2, <2>3, <2>4 DEF Next
<1> QED
  BY <1>1, <1>2, Invariance, PTL DEF Spec, ImplementsLedger, L!Spec

-----------------------------------------------------------------------------
(* Balances change by a commit, by a deletion and by the seed.             *)
LEMMA WritersOfCoins ==
  [Next]_vars =>
    \/ \E r \in Req : Commit(r)
    \/ \E w \in User : DeleteAccount(w)
    \/ TopUpDemo
    \/ UNCHANGED coins
BY DEF Next, Outside, Step, Begin, Debit, Credit, CreditRow,
   GivePresent, SelectVoucher, RecordRedemption, SpendUse, Fund, Reload,
   Drop, BreakDeadlock, Rollback, tables, vars, Register, EnsureDemo,
   CreateVoucher

LEMMA CommitCharges ==
  ASSUME IInv, NEW r \in Req, Commit(r), NEW u \in User, coins'[u] < coins[u]
  PROVE  req[r].from = u /\ coins[u] - coins'[u] = Cost(req[r])
<1>0. /\ req[r] \in Request /\ req[r].from \in User /\ Cost(req[r]) \in Nat
      /\ coins \in [User -> Int] /\ Relies(r)
  BY HeldRows, CostNat DEF IInv, TypeOK, Commit
<1>1. CASE req[r].op = "transfer" /\ ApplyTransfer(r)
  BY <1>0, <1>1 DEF ApplyTransfer, Cost
<1>2. CASE req[r].op = "gift" /\ ApplyGift(r)
  BY <1>0, <1>2 DEF ApplyGift
<1>3. CASE req[r].op = "redeem" /\ ApplyRedeem(r)
  <2>1. PICK v \in Voucher, s \in User : v = req[r].item /\ s = req[r].from
    BY <1>0, <1>3 DEF Request
  <2>2. voucher[v].coins \in Nat
    BY DEF IInv, TypeOK
  <2> QED
    BY <1>0, <1>3, <2>1, <2>2 DEF ApplyRedeem
<1> QED
  BY <1>1, <1>2, <1>3 DEF Commit

(***************************************************************************)
(* A balance falls only by what its owner's own committing request costs,  *)
(* or because the account goes (debit_coins is the only subtraction).      *)
(***************************************************************************)
THEOREM SendersPay == Spec => OnlySenderPays
<1>1. ASSUME IInv, [Next]_vars, NEW u \in User, coins'[u] < coins[u]
      PROVE  \/ u \notin accounts'
             \/ \E r \in Req : /\ Commits(r) /\ req[r].from = u
                               /\ coins[u] - coins'[u] = Cost(req[r])
  <2>0. coins \in [User -> Int] /\ pc \in [Req -> Label]
    BY <1>1 DEF IInv, TypeOK
  <2>1. coins' # coins
    BY <1>1, <2>0
  <2>2. CASE \E r \in Req : Commit(r)
    <3>1. PICK r \in Req : Commit(r)
      BY <2>2
    <3>2. Commits(r)
      BY <2>0, <3>1 DEF Commits, Commit, Goto
    <3> QED
      BY <1>1, <3>1, <3>2, CommitCharges
  <2>3. CASE \E w \in User : DeleteAccount(w)
    BY <1>1, <2>0, <2>3 DEF DeleteAccount
  <2>4. CASE TopUpDemo
    <3>1. PICK d \in User : d = demo
      BY <1>1 DEF IInv, TypeOK
    <3>2. coins' = [coins EXCEPT ![d] = DemoFloor] /\ coins[d] < DemoFloor
      BY <2>4, <3>1 DEF TopUpDemo
    <3>3. DemoFloor \in Int
      BY WalletAssumption
    <3> QED
      BY <1>1, <2>0, <3>2, <3>3
  <2>5. \/ \E r \in Req : Commit(r)
        \/ \E w \in User : DeleteAccount(w)
        \/ TopUpDemo
        \/ UNCHANGED coins
    BY <1>1, WritersOfCoins
  <2> QED
    BY <2>1, <2>2, <2>3, <2>4, <2>5
<1>2. IInv /\ [Next]_vars =>
        [\A u \in User :
           coins'[u] < coins[u] =>
             \/ u \notin accounts'
             \/ \E r \in Req : /\ Commits(r) /\ req[r].from = u
                               /\ coins[u] - coins'[u] = Cost(req[r])]_vars
  BY <1>1
<1> QED
  BY <1>2, Invariance, PTL DEF Spec, OnlySenderPays
-----------------------------------------------------------------------------
(***************************************************************************)
(* What is counted of balances within the range: as many votes more as one *)
(* balance is raised by, and fewer when one falls.                         *)
(***************************************************************************)
Balances == [User -> 0 .. MaxCoins]

LEMMA VotesFinite ==
  ASSUME NEW balance \in Balances
  PROVE  IsFiniteSet(Votes(balance)) /\ Cardinality(Votes(balance)) \in Nat
<1>1. IsFiniteSet(User \X (1 .. MaxCoins))
  <2>1. IsFiniteSet(User) /\ 1 \in Int /\ MaxCoins \in Int
    BY WalletAssumption
  <2>2. IsFiniteSet(1 .. MaxCoins)
    BY <2>1, FS_Interval
  <2> QED BY <2>1, <2>2, FS_Product
<1>2. Votes(balance) \subseteq User \X (1 .. MaxCoins)
  <2>1. \A u \in User : 1 .. balance[u] \subseteq 1 .. MaxCoins
    BY WalletAssumption DEF Balances
  <2> QED BY <2>1 DEF Votes
<1>3. IsFiniteSet(Votes(balance))
  BY <1>1, <1>2, FS_Subset
<1> QED BY <1>3, FS_CardinalityType

LEMMA FallenVotes ==
  ASSUME NEW low \in Balances, NEW high \in Balances, \A u \in User : low[u] <= high[u]
  PROVE  Cardinality(Votes(low)) <= Cardinality(Votes(high))
<1>1. \A u \in User : 1 .. low[u] \subseteq 1 .. high[u]
  BY WalletAssumption DEF Balances
<1>2. Votes(low) \subseteq Votes(high)
  BY <1>1 DEF Votes
<1> QED BY <1>2, VotesFinite, FS_Subset

LEMMA RaisedVotes ==
  ASSUME NEW low \in Balances, NEW high \in Balances, NEW u \in User, NEW n \in Nat,
         high[u] = low[u] + n, \A w \in User \ {u} : high[w] = low[w]
  PROVE  Cardinality(Votes(high)) = Cardinality(Votes(low)) + n
<1> DEFINE I == low[u] + 1 .. low[u] + n
           new == {u} \X I
<1>1. low[u] \in Nat /\ high[u] = low[u] + n /\ \A w \in User \ {u} : high[w] = low[w]
  BY WalletAssumption DEF Balances
<1>2. 1 .. high[u] = (1 .. low[u]) \cup I /\ (1 .. low[u]) \cap I = {}
  BY <1>1
<1>3. IsFiniteSet(I) /\ Cardinality(I) = n
  <2>1. PICK a \in Int, b \in Int : a = low[u] + 1 /\ b = low[u] + n
    BY <1>1
  <2>2. IsFiniteSet(a .. b) /\ Cardinality(a .. b) = IF a > b THEN 0 ELSE b - a + 1
    BY FS_Interval
  <2>3. (IF a > b THEN 0 ELSE b - a + 1) = n
    BY <1>1, <2>1
  <2> QED BY <2>1, <2>2, <2>3
<1> HIDE DEF I
<1>4. IsFiniteSet(new) /\ Cardinality(new) = n
  <2>1. IsFiniteSet({u}) /\ Cardinality({u}) = 1
    BY FS_Singleton
  <2>2. IsFiniteSet({u} \X I) /\ Cardinality({u} \X I) = 1 * n
    BY <1>3, <2>1, FS_Product
  <2> QED BY <2>2
<1>5. Votes(high) = Votes(low) \cup new
  <2>1. {u} \X (1 .. high[u]) = ({u} \X (1 .. low[u])) \cup new
    BY <1>2
  <2>2. \A w \in User \ {u} : {w} \X (1 .. high[w]) = {w} \X (1 .. low[w])
    BY <1>1
  <2> HIDE DEF new
  <2> QED BY <2>1, <2>2 DEF Votes
<1>6. Votes(low) \cap new = {}
  BY <1>2 DEF Votes
<1> HIDE DEF new
<1>7. Cardinality(Votes(low) \cap new) = 0
  BY <1>6, FS_EmptySet
<1>8. Cardinality(Votes(high))
        = Cardinality(Votes(low)) + Cardinality(new) - Cardinality(Votes(low) \cap new)
  BY <1>4, <1>5, VotesFinite, FS_Union
<1>9. Cardinality(Votes(low)) \in Nat
  BY VotesFinite
<1> QED BY <1>4, <1>7, <1>8, <1>9

LEMMA CommitMoves ==
  ASSUME IInv, IInv', NEW r \in Req, Commit(r), TotalNext > Total
  PROVE  req[r].op = "redeem" /\ TotalNext - Total = voucher[req[r].item].coins
<1>1. coins \in Balances /\ coins' \in Balances
  BY DEF IInv, Solvent, TypeOK, Balances
<1>2. PICK next : next = coins'
  OBVIOUS
<1>3. PICK s \in User : s = req[r].from
  BY HeldRows DEF IInv, TypeOK, Commit
<1>4. /\ req[r] \in Request /\ Cost(req[r]) \in Nat /\ s \in held[r] /\ Shape(r) /\ Relies(r)
      /\ pc[r] = "commit" /\ req[r].to # s
  BY <1>3, HeldRows, CostNat DEF IInv, TypeOK, Commit, Relies
<1>5. ~(TotalNext <= Total)
  <2>1. Total \in Nat /\ TotalNext \in Nat
    BY <1>1, VotesFinite DEF Total, TotalNext
  <2> QED BY <2>1
<1>6. ASSUME \A u \in User : next[u] <= coins[u] PROVE FALSE
  BY <1>1, <1>2, <1>5, <1>6, FallenVotes DEF Total, TotalNext
<1>7. ~(req[r].op = "transfer" /\ ApplyTransfer(r))
  <2> SUFFICES ASSUME req[r].op = "transfer", ApplyTransfer(r) PROVE FALSE
    OBVIOUS
  <2>1. PICK n \in Nat : n = req[r].amount /\ n = Cost(req[r])
    BY <1>4 DEF Cost
  <2>2. next = [u \in User |->
                  IF u = s THEN coins[u] - n
                  ELSE IF u = req[r].to /\ req[r].to \in held[r] THEN coins[u] + n
                  ELSE coins[u]]
    BY <1>2, <1>3, <2>1 DEF ApplyTransfer
  <2>3. CASE req[r].to \in User /\ req[r].to \in held[r]
    <3>1. PICK t \in User : t = req[r].to /\ t # s
      BY <1>4, <2>3
    <3>2. coins[s] >= n /\ coins[s] \in 0 .. MaxCoins
      BY <1>1, <1>3, <1>4, <2>1 DEF Relies, Paying, Balances
    <3>3. PICK less : less = [coins EXCEPT ![s] = @ - n]
      OBVIOUS
    <3>4. less \in Balances
      BY <1>1, <2>1, <3>2, <3>3, WalletAssumption DEF Balances
    <3>5. coins[s] = less[s] + n /\ \A u \in User \ {s} : coins[u] = less[u]
      BY <1>1, <2>1, <3>2, <3>3, WalletAssumption DEF Balances
    <3>6. next[t] = less[t] + n /\ \A u \in User \ {t} : next[u] = less[u]
      BY <1>1, <2>2, <2>3, <3>1, <3>3 DEF Balances
    <3>7. Cardinality(Votes(next)) = Cardinality(Votes(coins))
      <4>1. next \in Balances /\ coins \in Balances
        BY <1>1, <1>2
      <4>2. Cardinality(Votes(coins)) = Cardinality(Votes(less)) + n
        BY <3>4, <3>5, <4>1, RaisedVotes
      <4>3. Cardinality(Votes(next)) = Cardinality(Votes(less)) + n
        BY <3>4, <3>6, <4>1, RaisedVotes
      <4> QED BY <4>2, <4>3
    <3> QED BY <1>1, <1>2, <1>5, <3>7, VotesFinite DEF Total, TotalNext
  <2>4. CASE ~(req[r].to \in User /\ req[r].to \in held[r])
    <3>1. \A u \in User : next[u] <= coins[u]
      BY <1>1, <2>1, <2>2, <2>4, WalletAssumption DEF Balances
    <3> QED BY <1>6, <3>1
  <2> QED BY <2>3, <2>4
<1>8. ~(req[r].op = "gift" /\ ApplyGift(r))
  <2> SUFFICES ASSUME ApplyGift(r) PROVE FALSE
    OBVIOUS
  <2>1. next = [coins EXCEPT ![s] = @ - Cost(req[r])]
    BY <1>2, <1>3 DEF ApplyGift
  <2>2. \A u \in User : next[u] <= coins[u]
    BY <1>1, <1>4, <2>1, WalletAssumption DEF Balances
  <2> QED BY <1>6, <2>2
<1>9. req[r].op = "redeem" /\ ApplyRedeem(r)
  BY <1>7, <1>8 DEF Commit
<1>10. PICK n \in Nat : n = voucher[req[r].item].coins
  <2>1. req[r].item \in Voucher
    BY <1>4, <1>9 DEF Request
  <2> QED BY <2>1 DEF IInv, TypeOK
<1>11. next[s] = coins[s] + n /\ \A u \in User \ {s} : next[u] = coins[u]
  BY <1>1, <1>2, <1>3, <1>4, <1>9, <1>10 DEF ApplyRedeem, Balances
<1>12. Cardinality(Votes(next)) = Cardinality(Votes(coins)) + n
  <2>1. next \in Balances /\ coins \in Balances
    BY <1>1, <1>2
  <2> QED BY <1>11, <2>1, RaisedVotes
<1> QED BY <1>1, <1>2, <1>9, <1>10, <1>12, VotesFinite DEF Total, TotalNext

(***************************************************************************)
(* The votes of all users together grow by a redemption, in the amount the *)
(* voucher was issued for, or by the seed's top-up (transfer_coins and     *)
(* send_gift move or take what debit_coins took).                          *)
(***************************************************************************)
THEOREM VotesHaveSources == Spec => NoVotesFromNothing
<1>1. ASSUME IInv, IInv', [Next]_vars, TotalNext > Total
      PROVE  \/ \E r \in Req :
                  /\ Commits(r) /\ req[r].op = "redeem"
                  /\ TotalNext - Total = voucher[req[r].item].coins
             \/ coins' = [coins EXCEPT ![demo] = DemoFloor]
  <2>1. coins \in Balances /\ coins' \in Balances /\ pc \in [Req -> Label]
    BY <1>1 DEF IInv, Solvent, TypeOK, Balances
  <2>2. Total \in Nat /\ TotalNext \in Nat
    BY <2>1, VotesFinite DEF Total, TotalNext
  <2>3. CASE \E r \in Req : Commit(r)
    <3>1. PICK r \in Req : Commit(r)
      BY <2>3
    <3>2. Commits(r)
      BY <2>1, <3>1 DEF Commits, Commit, Goto
    <3> QED BY <1>1, <3>1, <3>2, CommitMoves
  <2>4. CASE \E w \in User : DeleteAccount(w)
    <3>1. PICK next : next = coins'
      OBVIOUS
    <3>2. \A u \in User : next[u] <= coins[u]
      BY <2>1, <2>4, <3>1, WalletAssumption DEF DeleteAccount, Balances
    <3> QED BY <1>1, <2>1, <2>2, <3>1, <3>2, FallenVotes DEF Total, TotalNext
  <2>5. CASE TopUpDemo
    BY <2>5 DEF TopUpDemo
  <2>6. CASE UNCHANGED coins
    BY <1>1, <2>2, <2>6 DEF Total, TotalNext
  <2>7. \/ \E r \in Req : Commit(r)
        \/ \E w \in User : DeleteAccount(w)
        \/ TopUpDemo
        \/ UNCHANGED coins
    BY <1>1, WritersOfCoins
  <2> QED BY <2>3, <2>4, <2>5, <2>6, <2>7
<1>2. IInv /\ IInv' /\ [Next]_vars =>
        [TotalNext > Total =>
           \/ \E r \in Req :
                /\ Commits(r) /\ req[r].op = "redeem"
                /\ TotalNext - Total = voucher[req[r].item].coins
           \/ coins' = [coins EXCEPT ![demo] = DemoFloor]]_vars
  BY <1>1
<1> QED BY <1>2, Invariance, PTL DEF Spec, NoVotesFromNothing

-----------------------------------------------------------------------------
(***************************************************************************)
(* Deadlocks.  What the row is that a request waits for, and who has it.   *)
(***************************************************************************)
LEMMA WaitsForWhat ==
  ASSUME IInv, NEW p \in Req, NEW q \in WaitsFor(p)
  PROVE  /\ q \in Req /\ q # p /\ held[q] # {}
         /\ \/ pc[p] = "debit"
            \/ pc[p] = "credit" /\ req[p].to \in held[q] /\ req[p].to \in User
            \/ pc[p] = "select" /\ req[p].item \in held[q] /\ req[p].item \in Voucher
            \/ pc[p] = "spend" /\ req[p].item \in held[q] /\ req[p].item \in held[p]
            \/ pc[p] = "fund" /\ req[p].from \in held[q] /\ req[p].from \in User
<1>1. q \in Req /\ q # p /\ held[q] # {}
  BY DEF WaitsFor
<1>2. accounts \subseteq User
  BY DEF IInv, TypeOK
<1>3. \/ pc[p] = "debit"
      \/ pc[p] = "credit" /\ req[p].to \in held[q] /\ req[p].to \in accounts
      \/ pc[p] \in {"select", "spend"} /\ req[p].item \in held[q]
      \/ pc[p] = "fund" /\ req[p].from \in held[q] /\ req[p].from \in accounts
  BY DEF WaitsFor
<1>4. pc[p] = "select" => req[p].item \in Voucher
  <2> HAVE pc[p] = "select"
  <2>1. req[p] \in Request /\ req[p].op = "redeem"
    BY DEF IInv, TypeOK, Shape
  <2> QED BY <2>1 DEF Request
<1>5. pc[p] = "spend" => req[p].item \in held[p]
  BY DEF IInv, Shape
<1> QED BY <1>1, <1>2, <1>3, <1>4, <1>5

(* One that others wait for has locked a row, and waits itself.            *)
LEMMA WaitedForAndWaiting ==
  ASSUME IInv, NEW p \in Req, NEW q \in Req, NEW o \in Req, p \in WaitsFor(o), q \in WaitsFor(p)
  PROVE  pc[p] = "credit" \/ (pc[p] = "fund" /\ pc[o] = "select")
<1>1. held[p] # {}
  BY WaitsForWhat
<1>2. pc[p] \notin {"debit", "select"}
  BY <1>1 DEF IInv, Shape
<1>3. pc[p] # "spend"
  BY WaitsForWhat DEF IInv, Exclusion
<1>4. pc[p] \in {"credit", "fund"}
  BY <1>2, <1>3, WaitsForWhat
<1>5. ASSUME pc[p] = "fund" PROVE pc[o] \in {"select", "debit"}
  <2>1. held[p] = {req[p].item} /\ req[p].item \in Voucher
    <3>1. req[p] \in Request /\ req[p].op = "redeem" /\ held[p] = {req[p].item}
      BY <1>5 DEF IInv, TypeOK, Shape
    <3> QED BY <3>1 DEF Request
  <2>2. held[p] \cap User = {}
    BY <2>1, WalletAssumption
  <2>3. pc[o] # "spend"
    BY WaitsForWhat DEF IInv, Exclusion
  <2> QED BY <2>2, <2>3, WaitsForWhat
<1>6. pc[o] = "debit" /\ pc[p] = "fund" => req[o].from \in held[p] /\ req[o].from \in accounts
  BY DEF WaitsFor
<1>7. pc[o] = "debit" => pc[p] # "fund"
  <2> SUFFICES ASSUME pc[o] = "debit", pc[p] = "fund" PROVE FALSE
    OBVIOUS
  <2>1. req[p] \in Request /\ req[p].op = "redeem" /\ held[p] = {req[p].item}
    BY DEF IInv, TypeOK, Shape
  <2>2. req[p].item \in Voucher
    BY <2>1 DEF Request
  <2> QED BY <1>6, <2>1, <2>2, WalletAssumption DEF IInv, TypeOK
<1> QED BY <1>4, <1>5, <1>7

(***************************************************************************)
(* A ring of waiting requests has transfers at their credit in it and      *)
(* nothing else: everybody in it holds a row, and waits for one.  One that *)
(* holds a voucher is waited for by requests that hold nothing.            *)
(***************************************************************************)
THEOREM DeadlocksAreOfTransfers == Spec => []OnlyTransfersDeadlock
<1>1. ASSUME IInv, NEW r \in Req, Deadlocked(r)
      PROVE  /\ pc[r] = "credit"
             /\ \E q \in Req \ {r} : Deadlocked(q) /\ req[r].to = req[q].from
  <2>1. PICK S \in SUBSET Req :
          /\ r \in S
          /\ \A q \in S : WaitsFor(q) \cap S # {} /\ \E p \in S : q \in WaitsFor(p)
    BY <1>1 DEF Deadlocked
  <2>2. ASSUME NEW p \in S PROVE pc[p] = "credit" /\ held[p] = {req[p].from} /\ Deadlocked(p)
    <3>1. PICK o \in S, q \in S : p \in WaitsFor(o) /\ q \in WaitsFor(p)
      BY <2>1
    <3>2. PICK n \in S : o \in WaitsFor(n)
      BY <2>1
    <3>3. pc[o] # "select"
      <4>1. held[o] # {}
        BY <1>1, <3>2, WaitsForWhat
      <4> QED BY <1>1, <4>1 DEF IInv, Shape
    <3>4. pc[p] = "credit"
      BY <1>1, <3>1, <3>3, WaitedForAndWaiting
    <3>5. held[p] = {req[p].from}
      BY <1>1, <3>4 DEF IInv, Shape
    <3>6. Deadlocked(p)
      BY <2>1 DEF Deadlocked
    <3> QED BY <3>4, <3>5, <3>6
  <2>3. PICK q \in S : q \in WaitsFor(r)
    BY <2>1
  <2>4. pc[r] = "credit"
    BY <2>1, <2>2
  <2>5. q # r /\ req[r].to \in held[q]
    BY <1>1, <2>3, <2>4, WaitsForWhat
  <2> QED BY <2>1, <2>2, <2>4, <2>5
<1>2. IInv => OnlyTransfersDeadlock
  BY <1>1 DEF OnlyTransfersDeadlock
<1> QED BY <1>2, Invariance, PTL
=============================================================================
