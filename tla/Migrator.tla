------------------------------ MODULE Migrator ------------------------------
(***************************************************************************)
(* The migrations of the database (src/db/migrator.rs), which every        *)
(* replica runs when it starts, statement by statement and under an        *)
(* advisory lock.  No transaction spans the statements of a migration and  *)
(* the row that records it, a start may be cut off after any of them, and  *)
(* the next one begins the migration again.  Lock and unlock are calls to  *)
(* the pool: the unlock may reach another session than the lock, which     *)
(* does nothing, and the lock then stays until its session is closed.      *)
(***************************************************************************)
EXTENDS Integers, Sequences, FiniteSets

CONSTANTS
  Replica,
  Table,     \* what a statement may need or make
  Plan,      \* Plan[v][i]: the i-th statement of the v-th migration
  MaxStops,  \* bound: starts cut off and replicas stopped
  None

Statements == [needs : SUBSET Table, makes : SUBSET Table]
Version == 1 .. Len(Plan)
Core == 1
Users == "users"

ASSUME MigratorAssumption ==
  /\ Plan \in Seq(Seq(Statements)) /\ Plan # <<>>
  /\ \A v \in Version : Plan[v] # <<>>
  /\ Users \in Table
  /\ \A v \in Version : \A i \in 1 .. Len(Plan[v]) :
       Users \in Plan[v][i].makes => v = Core
  /\ \A i \in 1 .. Len(Plan[Core]) :
       Plan[Core][i].needs \subseteq UNION {Plan[Core][j].makes : j \in 1 .. (i - 1)}
  /\ MaxStops \in Nat
  /\ None \notin Replica

(***************************************************************************)
(* A statement needs what the migrations before its own made, or the       *)
(* statements before it.                                                   *)
(***************************************************************************)
MadeBefore(v, i) ==
  {s \in UNION {{w} \X (1 .. Len(Plan[w])) : w \in Version} :
     s[1] < v \/ (s[1] = v /\ s[2] < i)}

ASSUME PlanAssumption ==
  \A v \in Version : \A i \in 1 .. Len(Plan[v]) :
    Plan[v][i].needs \subseteq UNION {Plan[s[1]][s[2]].makes : s \in MadeBefore(v, i)}

VARIABLES
  schema,    \* the tables there are
  ran,       \* the statements <<v, i>> the database has seen
  recorded,  \* rows of seaql_migrations
  holder,    \* the replica one of whose sessions holds the advisory lock
  pc,        \* the next statement of a replica
  at,        \* at[r]: the migration and the statement of it r has come to
  stops,     \* replicas stopped so far
  cutInCore, \* history: a start was cut off between two statements of Core,
             \* with the table of users there
  outlived   \* history: the session with the lock was closed before the unlock

database == <<schema, ran, recorded>>
history == <<stops, cutInCore, outlived>>
vars == <<schema, ran, recorded, holder, pc, at, stops, cutInCore, outlived>>

StatementsOf(v) == {v} \X (1 .. Len(Plan[v]))
Complete(v) == StatementsOf(v) \subseteq ran
Tables(stmts) == UNION {Plan[s[1]][s[2]].makes : s \in stmts}

(***************************************************************************)
(* A database that is empty, or one that an older release made, which has  *)
(* the tables of Core and no seaql_migrations.                             *)
(***************************************************************************)
Init ==
  /\ ran \in {{}, StatementsOf(Core)}
  /\ schema = Tables(ran)
  /\ recorded = {}
  /\ holder = None
  /\ pc = [r \in Replica |-> "down"]
  /\ at = [r \in Replica |-> <<Core, 1>>]
  /\ stops = 0 /\ cutInCore = FALSE /\ outlived = FALSE

Goto(r, label) == pc' = [pc EXCEPT ![r] = label]
Continue(r, label) == Goto(r, label) /\ UNCHANGED at

-----------------------------------------------------------------------------
(***************************************************************************)
(* run: CREATE TABLE IF NOT EXISTS seaql_migrations comes before the lock; *)
(* when two replicas make it at once one of them fails, which is a Stop.   *)
(***************************************************************************)
Boot(r) ==
  /\ pc[r] = "down"
  /\ Continue(r, "lock")
  /\ UNCHANGED <<database, holder, history>>

(* Mistake: the lock is asked for and not waited for. *)
LockUnawaited(r) ==
  /\ pc[r] = "lock"
  /\ holder' = r
  /\ Continue(r, "findUsers")
  /\ UNCHANGED <<database, history>>

Lock(r) ==
  /\ pc[r] = "lock"
  /\ holder = None
  /\ holder' = r
  /\ Continue(r, "findUsers")
  /\ UNCHANGED <<database, history>>

(***************************************************************************)
(* adopt_legacy_bootstrap: a database with a table of users and without a  *)
(* record of Core is taken for one of an older release.                    *)
(***************************************************************************)
FindUsers(r) ==
  /\ pc[r] = "findUsers"
  /\ at' = [at EXCEPT ![r] = <<Core, 1>>]
  /\ Goto(r, IF Users \in schema THEN "findCore" ELSE "check")
  /\ UNCHANGED <<database, holder, history>>

FindCore(r) ==
  /\ pc[r] = "findCore"
  /\ Continue(r, IF Core \in recorded THEN "check" ELSE "adopt")
  /\ UNCHANGED <<database, holder, history>>

Adopt(r) ==
  /\ pc[r] = "adopt"
  /\ recorded' = recorded \cup {Core}
  /\ Continue(r, "check")
  /\ UNCHANGED <<schema, ran, holder, history>>

(***************************************************************************)
(* apply: the migrations in their order, those recorded left out.          *)
(***************************************************************************)
NextVersion(r) ==
  IF at[r][1] = Len(Plan) THEN Continue(r, "unlock")
  ELSE Goto(r, "check") /\ at' = [at EXCEPT ![r] = <<at[r][1] + 1, 1>>]

(* Mistake: a migration is recorded before its statements run. *)
CheckAndRecord(r) ==
  /\ pc[r] = "check"
  /\ IF at[r][1] \in recorded THEN NextVersion(r) ELSE Continue(r, "statement")
  /\ recorded' = recorded \cup {at[r][1]}
  /\ UNCHANGED <<schema, ran, holder, history>>

(* Mistake: every start runs every migration. *)
CheckNothing(r) ==
  /\ pc[r] = "check"
  /\ Continue(r, "statement")
  /\ UNCHANGED <<database, holder, history>>

Check(r) ==
  /\ pc[r] = "check"
  /\ IF at[r][1] \in recorded THEN NextVersion(r) ELSE Continue(r, "statement")
  /\ UNCHANGED <<database, holder, history>>

Execute(s) ==
  /\ schema' = schema \cup Plan[s[1]][s[2]].makes
  /\ ran' = ran \cup {s}

Possible(s) == Plan[s[1]][s[2]].needs \subseteq schema

Advance(r) ==
  IF at[r][2] = Len(Plan[at[r][1]]) THEN Continue(r, "record")
  ELSE at' = [at EXCEPT ![r] = <<at[r][1], at[r][2] + 1>>] /\ UNCHANGED pc

(* Mistake: a statement cannot be run twice (CREATE TABLE for CREATE TABLE *)
(* IF NOT EXISTS).                                                         *)
StatementOnce(r) ==
  /\ pc[r] = "statement"
  /\ IF Possible(at[r]) /\ at[r] \notin ran
     THEN Execute(at[r]) /\ Advance(r)
     ELSE Continue(r, "giveUp") /\ UNCHANGED <<schema, ran>>
  /\ UNCHANGED <<recorded, holder, history>>

(***************************************************************************)
(* A statement may be run again; it fails for want of a table, and the     *)
(* start with it.                                                          *)
(***************************************************************************)
Statement(r) ==
  /\ pc[r] = "statement"
  /\ IF Possible(at[r]) THEN Execute(at[r]) /\ Advance(r)
     ELSE Continue(r, "giveUp") /\ UNCHANGED <<schema, ran>>
  /\ UNCHANGED <<recorded, holder, history>>

Record(r) ==
  /\ pc[r] = "record"
  /\ recorded' = recorded \cup {at[r][1]}
  /\ NextVersion(r)
  /\ UNCHANGED <<schema, ran, holder, history>>

(***************************************************************************)
(* pg_advisory_unlock, on the session that has the lock or on another one  *)
(* of the pool; then the replica serves, or exits with the error of apply, *)
(* which closes its sessions.                                              *)
(***************************************************************************)
Unlock(r) ==
  /\ pc[r] = "unlock"
  /\ \/ holder' = IF holder = r THEN None ELSE holder
     \/ UNCHANGED holder
  /\ Continue(r, "serving")
  /\ UNCHANGED <<database, history>>

Released(r) == IF holder = r THEN None ELSE holder

GiveUp(r) ==
  /\ pc[r] = "giveUp"
  /\ holder' = Released(r)
  /\ Continue(r, "down")
  /\ UNCHANGED <<database, history>>

Applying == {"findUsers", "findCore", "adopt", "check", "statement", "record",
             "unlock", "giveUp"}

(***************************************************************************)
(* The process ends or loses the database; its sessions are closed.        *)
(***************************************************************************)
Stop(r) ==
  /\ pc[r] # "down" /\ stops < MaxStops
  /\ stops' = stops + 1
  /\ cutInCore' = (cutInCore \/ (pc[r] = "statement" /\ at[r][1] = Core
                                 /\ Users \in schema))
  /\ holder' = Released(r)
  /\ Continue(r, "down")
  /\ UNCHANGED <<database, outlived>>

(***************************************************************************)
(* The pool closes a session that has reached its greatest age.            *)
(***************************************************************************)
CloseSession ==
  /\ holder # None
  /\ outlived' = (outlived \/ pc[holder] \in Applying)
  /\ holder' = None
  /\ UNCHANGED <<database, pc, at, stops, cutInCore>>

Step(r) ==
  \/ Boot(r) \/ Lock(r) \/ FindUsers(r) \/ FindCore(r) \/ Adopt(r)
  \/ Check(r) \/ Statement(r) \/ Record(r) \/ Unlock(r) \/ GiveUp(r)

Next == (\E r \in Replica : Step(r) \/ Stop(r)) \/ CloseSession

Spec == Init /\ [][Next]_vars

(***************************************************************************)
(* Replicas are restarted and run, the database answers, sessions are      *)
(* closed in the end.                                                      *)
(***************************************************************************)
Fairness == (\A r \in Replica : WF_vars(Step(r))) /\ WF_vars(CloseSession)

FairSpec == Spec /\ Fairness

-----------------------------------------------------------------------------
TypeOK ==
  /\ schema = Tables(ran)
  /\ ran \subseteq UNION {StatementsOf(v) : v \in Version}
  /\ recorded \subseteq Version
  /\ holder \in Replica \cup {None}
  /\ pc \in [Replica -> Applying \cup {"down", "lock", "serving"}]
  /\ at \in [Replica -> Version \X Nat]
  /\ \A r \in Replica : at[r] \in StatementsOf(at[r][1])
  /\ stops \in 0 .. MaxStops
  /\ cutInCore \in BOOLEAN /\ outlived \in BOOLEAN

(***************************************************************************)
(* Two replicas never migrate at the same time, although the lock and the  *)
(* statements are on different sessions, unless the session with the lock  *)
(* is closed meanwhile.                                                    *)
(***************************************************************************)
MigratorsApart ==
  outlived \/ \A r, s \in {t \in Replica : pc[t] \in Applying} : r = s

(***************************************************************************)
(* A migration that is recorded has run to its end, so that no start skips *)
(* what another left undone; but for Core, when a start was cut off within *)
(* it and the next one took the table of users for one of an older release.*)
(***************************************************************************)
RecordedIsComplete ==
  \A v \in recorded : Complete(v) \/ outlived \/ (v = Core /\ cutInCore)

(***************************************************************************)
(* No statement runs once its migration is recorded: the public ids are    *)
(* not minted again under the replicas that serve them.                    *)
(***************************************************************************)
NothingAfterRecord ==
  \A r \in Replica : pc[r] = "statement" => outlived \/ at[r][1] \notin recorded

(***************************************************************************)
(* A start gives up for one reason only: another was cut off within Core,  *)
(* or the session with its lock was closed.  However many were stopped     *)
(* elsewhere, the next one finds what its statements need.                 *)
(***************************************************************************)
FailuresExplained ==
  \A r \in Replica : pc[r] = "giveUp" => outlived \/ cutInCore

(***************************************************************************)
(* Every replica serves in the end, although starts are cut off and locks  *)
(* are left behind by replicas that serve; unless Core was cut off.        *)
(***************************************************************************)
StartsComeUp == <>[](cutInCore \/ \A r \in Replica : pc[r] = "serving")

=============================================================================
