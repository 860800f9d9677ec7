------------------------------- MODULE Wallet -------------------------------
(***************************************************************************)
(* The votes economy of the desk (src/modules/desk) as the server runs it: *)
(* every request is a task that issues SQL statements one by one inside a  *)
(* READ COMMITTED transaction, any number of tasks run at once (on one     *)
(* replica or on several, they share only Postgres), and a task may be     *)
(* dropped between any two statements.                                     *)
(*                                                                         *)
(* The tables hold what is committed.  What a transaction has written is   *)
(* visible to itself alone until Commit, which applies it; until then the  *)
(* rows it wrote are in held[r] and nobody else can write them.            *)
(***************************************************************************)
EXTENDS Integers, FiniteSets

CONSTANTS
  User,       \* the ids a row of table users can have
  Alias,      \* numbers n that are nobody's id while login "id<n>" exists
  Voucher, Gift, Price, MaxCoins, DemoFloor,
  Req,        \* requests; each is served at most once
  Ops,        \* the kinds of request clients send
  Amounts,    \* amounts of votes clients and administrators name
  MaxUses,    \* bound: uses of a voucher
  None

ASSUME WalletAssumption ==
  /\ IsFiniteSet(User) /\ User # {}
  /\ Alias \cap User = {} /\ Voucher \cap User = {}
  /\ Price \in [Gift -> Nat]
  /\ MaxCoins \in Nat /\ DemoFloor \in 0 .. MaxCoins
  /\ Ops \subseteq {"transfer", "gift", "redeem"}
  /\ Amounts \subseteq Nat \ {0}
  /\ MaxUses \in Nat
  /\ None \notin Req

VARIABLES
  accounts, coins, demo, voucher, redeemed, presents,   \* the tables
  given,      \* ids that rows of users have had; random_public_id draws none again
  pc,         \* pc[r]: the next statement of request r, or how it ended
  req,        \* req[r]: what r asks for
  held,       \* held[r]: rows r has locked for update
  shared      \* shared[r]: users rows r has locked FOR KEY SHARE

tables == <<accounts, given, coins, demo, voucher, redeemed, presents>>
tasks == <<pc, req, held, shared>>
vars == <<accounts, given, coins, demo, voucher, redeemed, presents,
          pc, req, held, shared>>

(***************************************************************************)
(* A request: who sends it, to which number, for which gift or voucher and *)
(* for how many votes.                                                     *)
(***************************************************************************)
Request ==
  [op : {"transfer"}, from : User, to : User \cup Alias,
   item : {None}, amount : Amounts]
    \cup
  [op : {"gift"}, from : User, to : User \cup Alias,
   item : Gift, amount : {0}]
    \cup
  [op : {"redeem"}, from : User, to : {None}, item : Voucher, amount : {0}]

Statement == {"debit", "credit", "present", "select", "record", "spend",
              "fund", "commit"}
Committed == {"reload", "done", "lateError", "unanswered"}
Uncommitted == {"refused", "error", "dropped"}

(***************************************************************************)
(* Rows are either locked for update by one transaction or, for users,     *)
(* shared by any number whose inserts refer to them.  A change of coins    *)
(* does not conflict with a shared lock, deleting the row does.            *)
(***************************************************************************)
Free(row, r) == \A q \in Req \ {r} : row \notin held[q]
Unreferenced(u) == \A q \in Req : u \notin held[q] \cup shared[q]

(***************************************************************************)
(* The accounts a number names: the row with that id or, when there is     *)
(* none, the row whose login is "id<n>".                                   *)
(***************************************************************************)
Named(id) == IF id \in Alias THEN {demo} \cap accounts ELSE {id} \cap accounts

Cost(q) == IF q.op = "gift" THEN Price[q.item] ELSE q.amount

Init ==
  /\ accounts \in SUBSET User
  /\ given = accounts
  /\ demo \in accounts
  /\ coins \in [User -> 0 .. DemoFloor]
  /\ coins[demo] = DemoFloor
  /\ \A u \in User \ accounts : coins[u] = 0
  /\ voucher = [v \in Voucher |-> [coins |-> 0, remaining |-> 0, total |-> 0]]
  /\ redeemed = {}
  /\ presents = {}
  /\ pc = [r \in Req |-> "idle"]
  /\ req = [r \in Req |-> None]
  /\ held = [r \in Req |-> {}]
  /\ shared = [r \in Req |-> {}]

Goto(r, label) == pc' = [pc EXCEPT ![r] = label]
Lock(r, row) == held' = [held EXCEPT ![r] = @ \cup {row}]

(* Mistake: a connection goes back to the pool with its transaction open. *)
RollbackForgotten(r, ending) == Goto(r, ending) /\ UNCHANGED <<tables, req, held, shared>>

(***************************************************************************)
(* ROLLBACK, explicit or by dropping the transaction: the locks go and the *)
(* tables never saw what it wrote.                                         *)
(***************************************************************************)
Rollback(r, ending) ==
  /\ Goto(r, ending)
  /\ held' = [held EXCEPT ![r] = {}]
  /\ shared' = [shared EXCEPT ![r] = {}]
  /\ UNCHANGED <<tables, req>>

-----------------------------------------------------------------------------
(***************************************************************************)
(* The request enters: the sender is signed in and so has a row, the       *)
(* receiver is another number and, for a transfer or a gift, names some    *)
(* account.                                                                *)
(***************************************************************************)
FirstStatement(q) == IF q.op = "redeem" THEN "select" ELSE "debit"

Begin(r, q) ==
  /\ pc[r] = "idle"
  /\ q.op \in Ops
  /\ q.from \in accounts
  /\ q.to # q.from
  /\ req' = [req EXCEPT ![r] = q]
  /\ Goto(r, IF q.op = "redeem" \/ Named(q.to) # {}
               THEN FirstStatement(q) ELSE "refused")
  /\ UNCHANGED <<tables, held, shared>>

(* Mistake: the balance is read first and written later, without a lock. *)
DebitUnlocked(r) ==
  /\ pc[r] = "debit"
  /\ coins[req[r].from] >= Cost(req[r])
  /\ Goto(r, IF req[r].op = "gift" THEN "present" ELSE "credit")
  /\ UNCHANGED <<tables, req, held, shared>>

(* Mistake: the debit runs on the pool and not in the transaction. *)
DebitOutsideTransaction(r) ==
  /\ pc[r] = "debit"
  /\ coins[req[r].from] >= Cost(req[r])
  /\ coins' = [coins EXCEPT ![req[r].from] = @ - Cost(req[r])]
  /\ Goto(r, IF req[r].op = "gift" THEN "present" ELSE "credit")
  /\ UNCHANGED <<accounts, given, demo, voucher, redeemed, presents, req, held, shared>>

(***************************************************************************)
(* UPDATE users SET coins = coins - n WHERE id = $1 AND coins >= n.  A row *)
(* that does not qualify is not waited for; one that does is locked.       *)
(***************************************************************************)
Debit(r) ==
  LET s == req[r].from
      funded == s \in accounts /\ coins[s] >= Cost(req[r])
  IN /\ pc[r] = "debit"
     /\ \/ /\ funded
           /\ Free(s, r)
           /\ Lock(r, s)
           /\ Goto(r, IF req[r].op = "gift" THEN "present" ELSE "credit")
           /\ UNCHANGED <<tables, req, shared>>
        \/ ~funded /\ Rollback(r, "refused")

(***************************************************************************)
(* UPDATE users SET coins = coins + n WHERE id = $1, whose row count the   *)
(* code does not look at: without such a row nothing is locked or written  *)
(* and the transaction goes on.  A sum beyond BIGINT is an SQL error.      *)
(***************************************************************************)
CreditRow(r, u, n, next) ==
  \/ /\ u \in accounts
     /\ Free(u, r)
     /\ coins[u] + n <= MaxCoins
     /\ Lock(r, u)
     /\ Goto(r, next)
     /\ UNCHANGED <<tables, req, shared>>
  \/ /\ u \in accounts
     /\ Free(u, r)
     /\ coins[u] + n > MaxCoins
     /\ Rollback(r, "error")
  \/ /\ u \notin accounts
     /\ Goto(r, next)
     /\ UNCHANGED <<tables, req, held, shared>>

(* Mistake: the receiver's row is passed over while another transaction has it. *)
CreditSkipsLocked(r) ==
  /\ pc[r] = "credit"
  /\ IF Free(req[r].to, r) THEN CreditRow(r, req[r].to, req[r].amount, "commit")
     ELSE Goto(r, "commit") /\ UNCHANGED <<tables, req, held, shared>>

Credit(r) ==
  /\ pc[r] = "credit"
  /\ CreditRow(r, req[r].to, req[r].amount, "commit")

(***************************************************************************)
(* INSERT INTO user_gifts: both users must have rows, and keep them until  *)
(* the transaction ends.                                                   *)
(***************************************************************************)
GivePresent(r) ==
  LET users == {req[r].from, req[r].to}
  IN /\ pc[r] = "present"
     /\ \/ /\ users \subseteq accounts
           /\ shared' = [shared EXCEPT ![r] = users]
           /\ Goto(r, "commit")
           /\ UNCHANGED <<tables, req, held>>
        \/ ~(users \subseteq accounts) /\ Rollback(r, "error")

(* Mistake: the voucher is selected without FOR UPDATE. *)
SelectVoucherUnlocked(r) ==
  /\ pc[r] = "select"
  /\ voucher[req[r].item].remaining > 0
  /\ Goto(r, "record")
  /\ UNCHANGED <<tables, req, held, shared>>

(***************************************************************************)
(* SELECT ... FROM vouchers FOR UPDATE, and the refusal of a serial that   *)
(* does not exist or has no uses left.  expires_at is NULL in every        *)
(* voucher this code creates, so a voucher does not expire.                *)
(***************************************************************************)
SelectVoucher(r) ==
  LET v == req[r].item
  IN /\ pc[r] = "select"
     /\ Free(v, r)
     /\ \/ /\ voucher[v].remaining > 0
           /\ Lock(r, v)
           /\ Goto(r, "record")
           /\ UNCHANGED <<tables, req, shared>>
        \/ voucher[v].remaining <= 0 /\ Rollback(r, "refused")

(***************************************************************************)
(* SELECT 1 FROM voucher_redemptions, then the INSERT.                     *)
(***************************************************************************)
RecordRedemption(r) ==
  LET u == req[r].from
      already == <<req[r].item, u>> \in redeemed
  IN /\ pc[r] = "record"
     /\ \/ already /\ Rollback(r, "refused")
        \/ ~already /\ u \notin accounts /\ Rollback(r, "error")
        \/ /\ ~already /\ u \in accounts
           /\ shared' = [shared EXCEPT ![r] = {u}]
           /\ Goto(r, "spend")
           /\ UNCHANGED <<tables, req, held>>

(***************************************************************************)
(* UPDATE vouchers SET remaining = remaining - 1.                          *)
(***************************************************************************)
SpendUse(r) ==
  /\ pc[r] = "spend"
  /\ Free(req[r].item, r)
  /\ Lock(r, req[r].item)
  /\ Goto(r, "fund")
  /\ UNCHANGED <<tables, req, shared>>

Fund(r) ==
  /\ pc[r] = "fund"
  /\ CreditRow(r, req[r].from, voucher[req[r].item].coins, "commit")

(***************************************************************************)
(* COMMIT: what the statements wrote reaches the tables at once.           *)
(***************************************************************************)
ApplyTransfer(r) ==
  LET s == req[r].from
      t == req[r].to
      n == req[r].amount
  IN /\ coins' = [u \in User |->
                    IF u = s THEN coins[u] - n
                    ELSE IF u = t /\ t \in held[r] THEN coins[u] + n
                    ELSE coins[u]]
     /\ UNCHANGED <<voucher, redeemed, presents>>

ApplyGift(r) ==
  LET s == req[r].from
  IN /\ coins' = [coins EXCEPT ![s] = @ - Cost(req[r])]
     /\ presents' = presents \cup {[slip |-> r, gift |-> req[r].item,
                                    from |-> s, to |-> req[r].to]}
     /\ UNCHANGED <<voucher, redeemed>>

ApplyRedeem(r) ==
  LET u == req[r].from
      v == req[r].item
  IN /\ redeemed' = redeemed \cup {<<v, u>>}
     /\ voucher' = [voucher EXCEPT ![v].remaining = @ - 1]
     /\ coins' = [coins EXCEPT
                    ![u] = IF u \in held[r] THEN @ + voucher[v].coins ELSE @]
     /\ UNCHANGED presents

Commit(r) ==
  /\ pc[r] = "commit"
  /\ \/ req[r].op = "transfer" /\ ApplyTransfer(r)
     \/ req[r].op = "gift" /\ ApplyGift(r)
     \/ req[r].op = "redeem" /\ ApplyRedeem(r)
  /\ Goto(r, "reload")
  /\ held' = [held EXCEPT ![r] = {}]
  /\ shared' = [shared EXCEPT ![r] = {}]
  /\ UNCHANGED <<accounts, given, demo, req>>

(***************************************************************************)
(* After the commit the profiles are read again for the answer; one that   *)
(* is gone turns the answer into an error, the effect stays.               *)
(***************************************************************************)
Reload(r) ==
  LET gone == \/ Named(req[r].from) = {}
              \/ req[r].op = "transfer" /\ Named(req[r].to) = {}
  IN /\ pc[r] = "reload"
     /\ Goto(r, IF gone THEN "lateError" ELSE "done")
     /\ UNCHANGED <<tables, req, held, shared>>

(***************************************************************************)
(* The task is dropped: the client disconnects, the connection to Postgres *)
(* breaks or the process stops.  Before the commit that is a rollback.     *)
(***************************************************************************)
Drop(r) ==
  \/ pc[r] \in Statement /\ Rollback(r, "dropped")
  \/ pc[r] = "reload" /\ Rollback(r, "unanswered")

(***************************************************************************)
(* Postgres ends a deadlock by failing one statement in the cycle.         *)
(***************************************************************************)
WaitsFor(r) ==
  LET wanted == CASE pc[r] = "debit" /\ req[r].from \in accounts
                     /\ coins[req[r].from] >= Cost(req[r]) -> {req[r].from}
                  [] pc[r] = "credit" -> {req[r].to} \cap accounts
                  [] pc[r] \in {"select", "spend"} -> {req[r].item}
                  [] pc[r] = "fund" -> {req[r].from} \cap accounts
                  [] OTHER -> {}
  IN {q \in Req \ {r} : held[q] \cap wanted # {}}

Deadlocked(r) ==
  \E S \in SUBSET Req :
    /\ r \in S
    /\ \A q \in S : WaitsFor(q) \cap S # {} /\ \E p \in S : q \in WaitsFor(p)

BreakDeadlock(r) == Deadlocked(r) /\ Rollback(r, "error")

-----------------------------------------------------------------------------
(***************************************************************************)
(* Accounts come and go, and a replica that starts runs the seed.  The row *)
(* of a deleted account takes its redemptions and presents with it.        *)
(***************************************************************************)
Register(u) ==
  /\ u \notin given
  /\ accounts' = accounts \cup {u}
  /\ given' = given \cup {u}
  /\ UNCHANGED <<coins, demo, voucher, redeemed, presents, tasks>>

DeleteAccount(u) ==
  /\ u \in accounts
  /\ Unreferenced(u)
  /\ accounts' = accounts \ {u}
  /\ coins' = [coins EXCEPT ![u] = 0]
  /\ redeemed' = {p \in redeemed : p[2] # u}
  /\ presents' = {p \in presents : u \notin {p.from, p.to}}
  /\ UNCHANGED <<given, demo, voucher, tasks>>

EnsureDemo(u) ==
  /\ demo \notin accounts
  /\ u \notin given
  /\ accounts' = accounts \cup {u}
  /\ given' = given \cup {u}
  /\ demo' = u
  /\ UNCHANGED <<coins, voucher, redeemed, presents, tasks>>

(* Mistake: the seed adds the floor instead of raising the balance to it. *)
TopUpDemoAgain ==
  /\ demo \in accounts
  /\ Free(demo, None)
  /\ coins[demo] < DemoFloor
  /\ coins' = [coins EXCEPT ![demo] = @ + DemoFloor]
  /\ UNCHANGED <<accounts, given, demo, voucher, redeemed, presents, tasks>>

TopUpDemo ==
  /\ demo \in accounts
  /\ Free(demo, None)
  /\ coins[demo] < DemoFloor
  /\ coins' = [coins EXCEPT ![demo] = DemoFloor]
  /\ UNCHANGED <<accounts, given, demo, voucher, redeemed, presents, tasks>>

CreateVoucher(v, n, uses) ==
  /\ voucher[v].total = 0
  /\ voucher' = [voucher EXCEPT
                   ![v] = [coins |-> n, remaining |-> uses, total |-> uses]]
  /\ UNCHANGED <<accounts, given, coins, demo, redeemed, presents, tasks>>

-----------------------------------------------------------------------------
Step(r) ==
  \/ Debit(r) \/ Credit(r) \/ GivePresent(r)
  \/ SelectVoucher(r) \/ RecordRedemption(r) \/ SpendUse(r) \/ Fund(r)
  \/ Commit(r) \/ Reload(r)

Outside ==
  \/ \E u \in User : Register(u) \/ DeleteAccount(u) \/ EnsureDemo(u)
  \/ TopUpDemo
  \/ \E v \in Voucher, n \in Amounts, uses \in 1 .. MaxUses :
       CreateVoucher(v, n, uses)

Next ==
  \/ \E r \in Req : \E q \in Request : Begin(r, q)
  \/ \E r \in Req : Step(r) \/ Drop(r) \/ BreakDeadlock(r)
  \/ Outside

Spec == Init /\ [][Next]_vars

(***************************************************************************)
(* The runtime polls every task that can go on, and Postgres looks for     *)
(* deadlocks among statements that wait.                                   *)
(***************************************************************************)
Fairness ==
  \A r \in Req : WF_vars(Step(r)) /\ WF_vars(BreakDeadlock(r))

FairSpec == Spec /\ Fairness
=============================================================================
