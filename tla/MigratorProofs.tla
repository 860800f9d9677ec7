--------------------------- MODULE MigratorProofs ---------------------------
(***************************************************************************)
(* What holds of Migrator for every number of replicas, every plan of      *)
(* migrations whose core makes its own tables, and any number of stops.    *)
(***************************************************************************)
EXTENDS Migrator, TLAPS

(***************************************************************************)
(* The type invariant as the prover uses it: without the sizes of stops.   *)
(***************************************************************************)
Types ==
  /\ schema = Tables(ran)
  /\ ran \subseteq UNION {StatementsOf(v) : v \in Version}
  /\ recorded \subseteq Version
  /\ pc \in [Replica -> Applying \cup {"down", "lock", "serving"}]
  /\ at \in [Replica -> Version \X Nat]
  /\ \A r \in Replica : at[r] \in StatementsOf(at[r][1])
  /\ cutInCore \in BOOLEAN /\ outlived \in BOOLEAN

(* A replica at work on the migrations has the lock. *)
Locked ==
  outlived \/ \A r \in Replica : pc[r] \in Applying => holder = r

(* A replica has run the statements before the one it has come to. *)
RanBefore ==
  \A r \in Replica :
    /\ pc[r] \in {"findCore", "adopt", "check"} => at[r][2] = 1
    /\ pc[r] = "statement" =>
         \A j \in 1 .. Len(Plan[at[r][1]]) : j < at[r][2] => <<at[r][1], j>> \in ran
    /\ pc[r] = "record" => Complete(at[r][1])

(* Only the migration of the replica with the lock is incomplete. *)
Unrecorded ==
  outlived \/ \A r \in Replica :
                pc[r] \in {"statement", "record"} => at[r][1] \notin recorded

InCore(r) == pc[r] = "statement" /\ at[r][1] = Core

(* The table of users is there because Core is complete, was cut off, or   *)
(* is being made.                                                          *)
WhyUsers ==
  /\ \/ outlived \/ cutInCore \/ Users \notin schema \/ Complete(Core)
     \/ \E r \in Replica : InCore(r)
  /\ \A r \in Replica : pc[r] \in {"findCore", "adopt"} => Users \in schema

IInv == Types /\ Locked /\ RanBefore /\ Unrecorded /\ WhyUsers /\ RecordedIsComplete

-----------------------------------------------------------------------------
(* What a statement adds to the tables there are. *)
LEMMA MoreTables ==
  ASSUME NEW S, NEW s
  PROVE  Tables(S \cup {s}) = Tables(S) \cup Plan[s[1]][s[2]].makes
  BY DEF Tables

(* What is complete stays complete. *)
LEMMA StaysComplete ==
  ASSUME NEW v, Complete(v), ran \subseteq ran'
  PROVE  Complete(v)'
  BY DEF Complete, StatementsOf

(* There is a first migration and every migration has a first statement. *)
LEMMA PlanFacts ==
  /\ Len(Plan) \in Nat \ {0} /\ Core \in Version
  /\ \A v \in Version : v \in Nat /\ Len(Plan[v]) \in Nat \ {0} /\ <<v, 1>> \in StatementsOf(v)
<1> USE MigratorAssumption
<1>1. Len(Plan) \in Nat \ {0} /\ Core \in Version
  BY DEF Version, Core
<1>2. \A v \in Version : Len(Plan[v]) \in Nat \ {0}
  BY DEF Version
<1> QED BY <1>1, <1>2 DEF StatementsOf, Version

LEMMA InitIInv == Init => IInv
<1> SUFFICES ASSUME Init PROVE IInv
  OBVIOUS
<1> USE MigratorAssumption DEF Init
<1>3. Types
  <2>1. ran \subseteq UNION {StatementsOf(v) : v \in Version}
    BY PlanFacts
  <2>2. \A r \in Replica : at[r] \in StatementsOf(at[r][1])
    BY PlanFacts
  <2> QED BY PlanFacts, <2>1, <2>2 DEF Types, Applying
<1>4. Locked /\ RanBefore /\ Unrecorded /\ RecordedIsComplete
  BY DEF Locked, RanBefore, Unrecorded, RecordedIsComplete, Applying
<1>5. WhyUsers
  <2>1. CASE ran = {}
    <3>1. schema = {}
      BY <2>1 DEF Tables
    <3> QED BY <3>1 DEF WhyUsers
  <2>2. CASE ran = StatementsOf(Core)
    BY <2>2 DEF WhyUsers, Complete
  <2> QED BY <2>1, <2>2
<1> QED BY <1>3, <1>4, <1>5 DEF IInv

-----------------------------------------------------------------------------
(* A step of r that leaves the database alone and takes it to a statement  *)
(* of no migration: Boot, Lock, FindUsers, FindCore, Unlock, GiveUp.       *)
LEMMA QuietStep ==
  ASSUME IInv, NEW r \in Replica, NEW label,
         UNCHANGED <<database, history>>,
         pc' = [pc EXCEPT ![r] = label],
         pc[r] \notin {"statement", "record"},
         label \in (Applying \cup {"down", "lock", "serving"}) \ {"statement", "record"},
         \/ at' = at
         \/ at' = [at EXCEPT ![r] = <<Core, 1>>],
         outlived \/ \A q \in Replica : pc'[q] \in Applying => holder' = q,
         label \in {"findCore", "adopt"} => Users \in schema,
         label \in {"findCore", "adopt", "check"} => at'[r][2] = 1
  PROVE  IInv'
<1> USE DEF IInv, database, history
<1>1. Types'
  <2>1. at' \in [Replica -> Version \X Nat] /\ \A q \in Replica : at'[q] \in StatementsOf(at'[q][1])
    <3>1. CASE at' = at
      BY <3>1 DEF Types
    <3>2. CASE at' = [at EXCEPT ![r] = <<Core, 1>>]
      BY <3>2, PlanFacts DEF Types
    <3> QED BY <3>1, <3>2
  <2> QED BY <2>1 DEF Types, Applying, Tables, StatementsOf, Version
<1>2. Locked'
  BY DEF Locked, Types
<1>3. RanBefore'
  BY DEF RanBefore, Types, Complete, StatementsOf
<1>4. Unrecorded'
  BY DEF Unrecorded, Types
<1>5. WhyUsers'
  BY DEF WhyUsers, Types, InCore, Complete, StatementsOf
<1>6. RecordedIsComplete'
  BY DEF RecordedIsComplete, Complete, StatementsOf
<1> QED BY <1>1, <1>2, <1>3, <1>4, <1>5, <1>6

LEMMA BootStep == ASSUME IInv, NEW r \in Replica, Boot(r) PROVE IInv'
<1>1. outlived \/ \A q \in Replica : pc'[q] \in Applying => holder' = q
  BY DEF IInv, Types, Locked, Boot, Continue, Goto, Applying
<1> QED BY <1>1, QuietStep DEF Boot, Continue, Goto

LEMMA LockStep == ASSUME IInv, NEW r \in Replica, Lock(r) PROVE IInv'
<1>1. outlived \/ \A q \in Replica : pc'[q] \in Applying => holder' = q
  BY MigratorAssumption DEF IInv, Types, Locked, Lock, Continue, Goto, Applying
<1> QED BY <1>1, QuietStep DEF Lock, Continue, Goto, Applying

LEMMA FindUsersStep == ASSUME IInv, NEW r \in Replica, FindUsers(r) PROVE IInv'
<1> DEFINE label == IF Users \in schema THEN "findCore" ELSE "check"
<1>1. outlived \/ \A q \in Replica : pc'[q] \in Applying => holder' = q
  BY DEF IInv, Types, Locked, FindUsers, Goto, Applying
<1>2. label \in {"findCore", "check"} /\ (label = "findCore" => Users \in schema)
  OBVIOUS
<1> HIDE DEF label
<1>3. pc' = [pc EXCEPT ![r] = label]
  BY DEF FindUsers, Goto, label
<1> QED BY <1>1, <1>2, <1>3, QuietStep DEF IInv, Types, FindUsers, Applying

LEMMA FindCoreStep == ASSUME IInv, NEW r \in Replica, FindCore(r) PROVE IInv'
<1> DEFINE label == IF Core \in recorded THEN "check" ELSE "adopt"
<1>1. outlived \/ \A q \in Replica : pc'[q] \in Applying => holder' = q
  BY DEF IInv, Types, Locked, FindCore, Continue, Goto, Applying
<1>2. label \in {"adopt", "check"} /\ Users \in schema
  BY DEF IInv, WhyUsers, FindCore
<1> HIDE DEF label
<1>3. pc' = [pc EXCEPT ![r] = label]
  BY DEF FindCore, Continue, Goto, label
<1> QED BY <1>1, <1>2, <1>3, QuietStep DEF IInv, RanBefore, FindCore, Continue, Applying

LEMMA UnlockStep == ASSUME IInv, NEW r \in Replica, Unlock(r) PROVE IInv'
<1>1. outlived \/ \A q \in Replica : pc'[q] \in Applying => holder' = q
  BY DEF IInv, Types, Locked, Unlock, Continue, Goto, Applying
<1> QED BY <1>1, QuietStep DEF Unlock, Continue, Goto, Applying

LEMMA GiveUpStep == ASSUME IInv, NEW r \in Replica, GiveUp(r) PROVE IInv'
<1>1. outlived \/ \A q \in Replica : pc'[q] \in Applying => holder' = q
  BY DEF IInv, Types, Locked, GiveUp, Released, Continue, Goto, Applying
<1> QED BY <1>1, QuietStep DEF GiveUp, Continue, Goto, Applying

-----------------------------------------------------------------------------
(***************************************************************************)
(* The steps that change the database or come to a statement.              *)
(***************************************************************************)

(* The migration a replica comes to has none of its statements behind it. *)
LEMMA NextVersionTypes ==
  ASSUME Types, NEW r \in Replica, NextVersion(r)
  PROVE  /\ at' \in [Replica -> Version \X Nat]
         /\ \A q \in Replica : at'[q] \in StatementsOf(at'[q][1])
         /\ pc' \in [Replica -> Applying \cup {"down", "lock", "serving"}]
         /\ pc'[r] \in {"unlock", "check"}
         /\ pc'[r] = "check" => at'[r][2] = 1
         /\ \A q \in Replica \ {r} : pc'[q] = pc[q] /\ at'[q] = at[q]
<1>1. at[r][1] \in Version
  BY DEF Types
<1>2. CASE at[r][1] = Len(Plan)
  BY <1>2 DEF NextVersion, Continue, Goto, Types, Applying
<1>3. CASE at[r][1] # Len(Plan)
  <2>1. at[r][1] + 1 \in Version
    BY <1>1, <1>3, PlanFacts DEF Version
  <2> DEFINE next == <<at[r][1] + 1, 1>>
  <2>2. next \in Version \X Nat /\ next \in StatementsOf(next[1])
    BY <2>1, PlanFacts
  <2> HIDE DEF next
  <2>3. at' = [at EXCEPT ![r] = next] /\ pc' = [pc EXCEPT ![r] = "check"]
    BY <1>3 DEF NextVersion, Goto, next
  <2>4. next[2] = 1
    BY DEF next
  <2> QED BY <2>2, <2>3, <2>4 DEF Types, Applying
<1> QED BY <1>2, <1>3

LEMMA AdoptStep == ASSUME IInv, NEW r \in Replica, Adopt(r) PROVE IInv'
<1> USE DEF IInv, Adopt, Continue, Goto, history
<1>1. Types'
  BY PlanFacts DEF Types, Applying, Tables, StatementsOf
<1>2. Locked'
  BY DEF Locked, Types, Applying
<1>3. RanBefore'
  BY DEF RanBefore, Types, Complete, StatementsOf
<1>4. outlived \/ \A q \in Replica : pc[q] \in Applying => q = r
  BY DEF Locked, Applying
<1>5. Unrecorded'
  BY <1>4 DEF Unrecorded, Types, Applying
<1>6. WhyUsers'
  BY <1>4 DEF WhyUsers, Types, InCore, Complete, StatementsOf, Applying
<1>7. RecordedIsComplete'
  <2>1. outlived \/ cutInCore \/ Complete(Core)
    BY <1>4 DEF WhyUsers, InCore, Applying
  <2> QED BY <2>1 DEF RecordedIsComplete, Complete, StatementsOf
<1> QED BY <1>1, <1>2, <1>3, <1>5, <1>6, <1>7

LEMMA CheckStep == ASSUME IInv, NEW r \in Replica, Check(r) PROVE IInv'
<1> USE DEF IInv, history, database
<1>1. CASE at[r][1] \in recorded
  <2> USE <1>1 DEF Check
  <2>1. Types /\ NextVersion(r)
    OBVIOUS
  <2>2. Types'
    BY <2>1, NextVersionTypes DEF Types, Tables, StatementsOf
  <2>3. Locked'
    BY <2>1, NextVersionTypes DEF Locked, Applying
  <2>4. RanBefore'
    BY <2>1, NextVersionTypes DEF RanBefore, Complete, StatementsOf
  <2>5. Unrecorded'
    BY <2>1, NextVersionTypes DEF Unrecorded
  <2>6. WhyUsers'
    BY <2>1, NextVersionTypes DEF WhyUsers, Complete, StatementsOf, InCore
  <2>7. RecordedIsComplete'
    BY DEF RecordedIsComplete, Complete, StatementsOf
  <2> QED BY <2>2, <2>3, <2>4, <2>5, <2>6, <2>7
<1>2. CASE at[r][1] \notin recorded
  <2> USE <1>2 DEF Check, Continue, Goto
  <2>1. Types'
    BY DEF Types, Applying, Tables, StatementsOf
  <2>2. Locked'
    BY DEF Locked, Types, Applying
  <2>3. RanBefore'
    BY DEF RanBefore, Types, Complete, StatementsOf
  <2>4. Unrecorded'
    BY DEF Unrecorded, Types
  <2>5. WhyUsers'
    BY DEF WhyUsers, Types, InCore, Complete, StatementsOf
  <2>6. RecordedIsComplete'
    BY DEF RecordedIsComplete, Complete, StatementsOf
  <2> QED BY <2>1, <2>2, <2>3, <2>4, <2>5, <2>6
<1> QED BY <1>1, <1>2

LEMMA RecordStep == ASSUME IInv, NEW r \in Replica, Record(r) PROVE IInv'
<1> USE DEF IInv, history, Record
<1>0. Types /\ NextVersion(r)
  OBVIOUS
<1>1. Types'
  BY <1>0, NextVersionTypes DEF Types, Tables, StatementsOf
<1>2. Locked'
  BY <1>0, NextVersionTypes DEF Locked, Applying
<1>3. outlived \/ \A q \in Replica : pc[q] \in Applying => q = r
  BY DEF Locked, Applying
<1>4. Complete(at[r][1])
  BY DEF RanBefore
<1>5. RanBefore' /\ Unrecorded' /\ WhyUsers'
  BY <1>0, <1>3, NextVersionTypes
  DEF RanBefore, Unrecorded, WhyUsers, Complete, StatementsOf, InCore, Applying
<1>6. RecordedIsComplete'
  BY <1>4 DEF RecordedIsComplete, Complete, StatementsOf
<1> QED BY <1>1, <1>2, <1>5, <1>6

(* A statement of Core never fails: those before it made what it needs. *)
LEMMA CorePossible ==
  ASSUME IInv, NEW r \in Replica, InCore(r)
  PROVE  Possible(at[r])
<1> DEFINE i == at[r][2]
<1>1. at[r] = <<Core, i>> /\ i \in 1 .. Len(Plan[Core])
  BY PlanFacts DEF IInv, Types, InCore, StatementsOf
<1>2. \A j \in 1 .. (i - 1) : <<Core, j>> \in ran
  BY <1>1, PlanFacts DEF IInv, RanBefore, InCore
<1>3. ASSUME NEW j \in 1 .. (i - 1) PROVE Plan[Core][j].makes \subseteq schema
  <2> DEFINE s == <<Core, j>>
  <2>1. s \in ran
    BY <1>2
  <2>2. Plan[s[1]][s[2]].makes \subseteq Tables(ran)
    BY <2>1 DEF Tables
  <2>3. s[1] = Core /\ s[2] = j
    OBVIOUS
  <2> QED BY <2>2, <2>3 DEF IInv, Types
<1>4. Plan[Core][i].needs \subseteq UNION {Plan[Core][j].makes : j \in 1 .. (i - 1)}
  BY <1>1, MigratorAssumption
<1> QED BY <1>1, <1>3, <1>4 DEF Possible

(* A statement that fails: the replica gives up, and was not in Core. *)
LEMMA FailStep ==
  ASSUME IInv, NEW r \in Replica, Statement(r), ~Possible(at[r])
  PROVE  IInv'
<1> USE DEF IInv, Statement, Continue, Goto, history
<1>1. ~InCore(r)
  BY CorePossible
<1>2. Types'
  BY DEF Types, Applying, Tables, StatementsOf
<1>3. Locked'
  BY DEF Locked, Types, Applying
<1>4. RanBefore'
  BY DEF RanBefore, Types, Complete, StatementsOf
<1>5. Unrecorded'
  BY DEF Unrecorded, Types
<1>6. WhyUsers'
  BY <1>1 DEF WhyUsers, Types, InCore, Complete, StatementsOf
<1>7. RecordedIsComplete'
  BY DEF RecordedIsComplete, Complete, StatementsOf
<1> QED BY <1>2, <1>3, <1>4, <1>5, <1>6, <1>7

LEMMA ExecuteStep ==
  ASSUME IInv, NEW r \in Replica, Statement(r), Possible(at[r])
  PROVE  IInv'
<1> DEFINE v == at[r][1]
           i == at[r][2]
<1> USE DEF IInv, Statement, history
<1>1. /\ Execute(at[r]) /\ Advance(r) /\ pc[r] = "statement"
      /\ UNCHANGED <<recorded, holder, stops, cutInCore, outlived>>
  OBVIOUS
<1>2. at[r] = <<v, i>> /\ v \in Version /\ i \in 1 .. Len(Plan[v]) /\ at[r] \in StatementsOf(v)
  BY DEF Types, StatementsOf
<1>3. ran' = ran \cup {<<v, i>>} /\ schema' = schema \cup Plan[v][i].makes
  BY <1>1, <1>2 DEF Execute
<1>4. schema' = Tables(ran')
  BY <1>3, MoreTables DEF Types
<1>5. \/ i = Len(Plan[v]) /\ pc' = [pc EXCEPT ![r] = "record"] /\ at' = at
      \/ i # Len(Plan[v]) /\ pc' = pc /\ at' = [at EXCEPT ![r] = <<v, i + 1>>]
  BY <1>1 DEF Advance, Continue, Goto
<1> HIDE DEF Statement
<1>6. \A w : Complete(w) => Complete(w)'
  BY <1>3, StaysComplete
<1>7. \A j \in 1 .. Len(Plan[v]) : j < i => <<v, j>> \in ran
  BY <1>1 DEF RanBefore
<1>8. i = Len(Plan[v]) => StatementsOf(v) \subseteq ran'
  <2> HAVE i = Len(Plan[v])
  <2>1. \A j \in 1 .. Len(Plan[v]) : j < i \/ j = i
    BY <1>2, PlanFacts
  <2> QED BY <1>3, <1>7, <2>1 DEF StatementsOf
<1>9. Types'
  <2>1. at' \in [Replica -> Version \X Nat] /\ \A q \in Replica : at'[q] \in StatementsOf(at'[q][1])
    <3>1. CASE at' = at
      BY <3>1 DEF Types, StatementsOf
    <3>2. CASE i # Len(Plan[v]) /\ at' = [at EXCEPT ![r] = <<v, i + 1>>]
      <4>1. i + 1 \in 1 .. Len(Plan[v])
        BY <1>2, <3>2, PlanFacts
      <4>2. <<v, i + 1>> \in Version \X Nat /\ <<v, i + 1>> \in StatementsOf(v)
        BY <1>2, <4>1 DEF StatementsOf
      <4> HIDE DEF v, i
      <4>3. DEFINE next == <<v, i + 1>>
      <4>4. next \in Version \X Nat /\ next \in StatementsOf(next[1])
        BY <4>2
      <4> HIDE DEF next
      <4>5. at' = [at EXCEPT ![r] = next]
        BY <3>2 DEF next
      <4> QED BY <4>4, <4>5 DEF Types, StatementsOf
    <3> QED BY <1>5, <3>1, <3>2
  <2>2. ran' \subseteq UNION {StatementsOf(w) : w \in Version}
    BY <1>2, <1>3 DEF Types
  <2>3. pc' \in [Replica -> Applying \cup {"down", "lock", "serving"}]
    BY <1>5 DEF Types, Applying
  <2> QED BY <1>1, <1>4, <2>1, <2>2, <2>3 DEF Types, StatementsOf
<1>10. Locked'
  BY <1>1, <1>5 DEF Locked, Types, Applying
<1>11. RanBefore'
  <2> SUFFICES ASSUME NEW q \in Replica
               PROVE  /\ pc'[q] \in {"findCore", "adopt", "check"} => at'[q][2] = 1
                      /\ pc'[q] = "statement" =>
                           \A j \in 1 .. Len(Plan[at'[q][1]]) :
                             j < at'[q][2] => <<at'[q][1], j>> \in ran'
                      /\ pc'[q] = "record" => StatementsOf(at'[q][1]) \subseteq ran'
    BY DEF RanBefore, Complete, StatementsOf
  <2>1. CASE q # r
    <3>1. pc'[q] = pc[q] /\ at'[q] = at[q]
      BY <1>5, <2>1 DEF Types
    <3>2. pc[q] = "record" => StatementsOf(at[q][1]) \subseteq ran
      BY DEF RanBefore, Complete
    <3>3. pc[q] = "record" => StatementsOf(at[q][1]) \subseteq ran'
      BY <1>3, <3>2
    <3>4. pc[q] = "statement" => \A j \in 1 .. Len(Plan[at[q][1]]) :
                                   j < at[q][2] => <<at[q][1], j>> \in ran'
      BY <1>3 DEF RanBefore
    <3>5. pc[q] \in {"findCore", "adopt", "check"} => at[q][2] = 1
      BY DEF RanBefore
    <3> QED BY <3>1, <3>3, <3>4, <3>5
  <2>2. CASE q = r /\ i = Len(Plan[v]) /\ pc' = [pc EXCEPT ![r] = "record"] /\ at' = at
    <3>1. pc'[q] = "record" /\ at'[q] = at[q]
      BY <2>2 DEF Types
    <3> QED BY <1>8, <2>2, <3>1
  <2>3. CASE q = r /\ pc' = pc /\ at' = [at EXCEPT ![r] = <<v, i + 1>>]
    <3>1. at'[q][1] = v /\ at'[q][2] = i + 1 /\ pc'[q] = "statement"
      BY <1>1, <2>3 DEF Types
    <3>2. \A j \in 1 .. Len(Plan[v]) : j < i + 1 => <<v, j>> \in ran'
      BY <1>2, <1>3, <1>7, PlanFacts
    <3> QED BY <3>1, <3>2
  <2> QED BY <1>5, <2>1, <2>2, <2>3
<1>12. Unrecorded'
  BY <1>1, <1>5 DEF Unrecorded, Types
<1>13. WhyUsers'
  <2>1. Users \in schema' => Users \in schema \/ v = Core
    BY <1>2, <1>3, MigratorAssumption
  <2>2. v = Core => Complete(Core)' \/ InCore(r)'
    <3>1. CASE i = Len(Plan[v])
      BY <1>8, <3>1 DEF Complete, StatementsOf
    <3>2. CASE i # Len(Plan[v])
      BY <1>1, <1>5, <3>2 DEF InCore, Types
    <3> QED BY <3>1, <3>2
  <2>3. \A q \in Replica : q # r /\ InCore(q) => InCore(q)'
    BY <1>5 DEF InCore, Types
  <2>4. InCore(r) => v = Core
    BY DEF InCore
  <2>5. \A q \in Replica : pc'[q] \in {"findCore", "adopt"} => pc[q] \in {"findCore", "adopt"}
    BY <1>5 DEF Types
  <2> QED BY <1>1, <1>3, <1>6, <2>1, <2>2, <2>3, <2>4, <2>5 DEF WhyUsers
<1>14. RecordedIsComplete'
  BY <1>1, <1>6 DEF RecordedIsComplete
<1> QED BY <1>9, <1>10, <1>11, <1>12, <1>13, <1>14

-----------------------------------------------------------------------------
(* A replica that is stopped within Core leaves cutInCore behind. *)
LEMMA StopStep == ASSUME IInv, NEW r \in Replica, Stop(r) PROVE IInv'
<1> USE DEF IInv, Stop, Continue, Goto, database
<1>1. Types'
  BY DEF Types, Applying, Tables, StatementsOf
<1>2. Locked'
  BY DEF Locked, Types, Applying, Released
<1>3. RanBefore'
  BY DEF RanBefore, Types, Complete, StatementsOf
<1>4. Unrecorded'
  BY DEF Unrecorded, Types
<1>5. WhyUsers'
  <2>1. \A q \in Replica : pc'[q] \in {"findCore", "adopt"} => pc[q] \in {"findCore", "adopt"}
    BY DEF Types
  <2>2. \A q \in Replica : InCore(q) => InCore(q)' \/ (q = r /\ InCore(r))
    BY DEF InCore, Types
  <2>3. InCore(r) /\ Users \in schema => cutInCore'
    BY DEF InCore
  <2>4. cutInCore => cutInCore'
    BY DEF Types
  <2> QED BY <2>1, <2>2, <2>3, <2>4 DEF WhyUsers, Complete, StatementsOf
<1>6. RecordedIsComplete'
  BY DEF RecordedIsComplete, Complete, StatementsOf, Types
<1> QED BY <1>1, <1>2, <1>3, <1>4, <1>5, <1>6

(* A session that is closed has no replica at work, or is outlived. *)
LEMMA CloseSessionStep == ASSUME IInv, CloseSession PROVE IInv'
<1> USE DEF IInv, CloseSession, database
<1>1. Types'
  BY DEF Types, Applying, Tables, StatementsOf
<1>2. outlived => outlived'
  BY DEF Types
<1>3. Locked'
  BY <1>2 DEF Locked, Applying
<1>4. RanBefore'
  BY DEF RanBefore, Complete, StatementsOf
<1>5. Unrecorded'
  BY <1>2 DEF Unrecorded
<1>6. WhyUsers'
  BY <1>2 DEF WhyUsers, InCore, Complete, StatementsOf
<1>7. RecordedIsComplete'
  BY <1>2 DEF RecordedIsComplete, Complete, StatementsOf
<1> QED BY <1>1, <1>3, <1>4, <1>5, <1>6, <1>7

LEMMA NextIInv == IInv /\ [Next]_vars => IInv'
<1> SUFFICES ASSUME IInv, [Next]_vars PROVE IInv'
  OBVIOUS
<1>1. ASSUME NEW r \in Replica, Step(r) PROVE IInv'
  <2>1. CASE Statement(r)
    BY <2>1, FailStep, ExecuteStep
  <2> QED BY <1>1, <2>1, BootStep, LockStep, FindUsersStep, FindCoreStep, AdoptStep,
             CheckStep, RecordStep, UnlockStep, GiveUpStep DEF Step
<1>2. ASSUME NEW r \in Replica, Stop(r) PROVE IInv'
  BY <1>2, StopStep
<1>3. CASE CloseSession
  BY <1>3, CloseSessionStep
<1>4. CASE UNCHANGED vars
  BY <1>4 DEF vars, IInv, Types, Locked, RanBefore, Unrecorded, WhyUsers, InCore,
              RecordedIsComplete, Complete, StatementsOf, Tables
<1> QED BY <1>1, <1>2, <1>3, <1>4 DEF Next

-----------------------------------------------------------------------------
(***************************************************************************)
(* The invariant the three results below are read from.                    *)
(***************************************************************************)
LEMMA Inductive == Spec => []IInv
  BY InitIInv, NextIInv, PTL DEF Spec

(***************************************************************************)
(* run: the advisory lock keeps two replicas from migrating at once, for   *)
(* any number of replicas, although it is taken through the pool.          *)
(***************************************************************************)
THEOREM Exclusion == Spec => []MigratorsApart
<1>1. IInv => MigratorsApart
  BY DEF IInv, Locked, MigratorsApart
<1> QED BY Inductive, <1>1, PTL

(***************************************************************************)
(* already_applied and record: what is recorded has run to its end, for    *)
(* any plan of migrations and any number of starts cut off.                *)
(***************************************************************************)
THEOREM RecordTrue == Spec => []RecordedIsComplete
<1>1. IInv => RecordedIsComplete
  BY DEF IInv
<1> QED BY Inductive, <1>1, PTL

(***************************************************************************)
(* apply: no replica is in a migration that is recorded, so that the       *)
(* public ids are minted no second time once their migration is through.   *)
(***************************************************************************)
THEOREM MintedOnce == Spec => []NothingAfterRecord
<1>1. IInv => NothingAfterRecord
  BY DEF IInv, Unrecorded, NothingAfterRecord
<1> QED BY Inductive, <1>1, PTL

-----------------------------------------------------------------------------
(***************************************************************************)
(* Behind a replica at work there are only recorded migrations.  Unless    *)
(* one of them was recorded too early they are complete, and with its own  *)
(* statements before the next one they made all that this one needs.       *)
(***************************************************************************)
Behind ==
  \A r \in Replica : pc[r] \in {"findCore", "adopt", "check", "statement", "record"} =>
    \A v \in Version : v < at[r][1] => v \in recorded

LEMMA PossibleInOrder ==
  ASSUME IInv, Behind, ~outlived, ~cutInCore, NEW r \in Replica, pc[r] = "statement"
  PROVE  Possible(at[r])
<1> DEFINE v == at[r][1]
           i == at[r][2]
<1>1. at[r] = <<v, i>> /\ v \in Version /\ i \in 1 .. Len(Plan[v])
  BY PlanFacts DEF IInv, Types, StatementsOf
<1>2. ASSUME NEW s \in MadeBefore(v, i) PROVE s \in ran
  <2>1. PICK w \in Version, j \in Nat : s = <<w, j>> /\ j \in 1 .. Len(Plan[w]) /\ (w < v \/ (w = v /\ j < i))
    BY PlanFacts DEF MadeBefore
  <2>2. CASE w < v
    <3>1. w \in recorded
      BY <2>2 DEF Behind
    <3>2. Complete(w)
      BY <3>1 DEF IInv, RecordedIsComplete
    <3> QED BY <2>1, <3>2 DEF Complete, StatementsOf
  <2>3. CASE w = v /\ j < i
    BY <2>1, <2>3 DEF IInv, RanBefore
  <2> QED BY <2>1, <2>2, <2>3
<1>3. ASSUME NEW s \in MadeBefore(v, i) PROVE Plan[s[1]][s[2]].makes \subseteq schema
  BY <1>2 DEF IInv, Types, Tables
<1>4. Plan[v][i].needs \subseteq UNION {Plan[s[1]][s[2]].makes : s \in MadeBefore(v, i)}
  BY <1>1, PlanAssumption
<1>5. Plan[v][i].needs \subseteq schema
  BY <1>3, <1>4
<1> QED BY <1>1, <1>5 DEF Possible

(* The migration a replica comes to follows the one it leaves, recorded.   *)
LEMMA NextBehind ==
  ASSUME IInv, Behind, NEW r \in Replica, NextVersion(r), at[r][1] \in recorded',
         pc[r] \in {"check", "record"}, recorded \subseteq recorded'
  PROVE  Behind'
<1>1. /\ pc'[r] \in {"unlock", "check"}
      /\ \A q \in Replica \ {r} : pc'[q] = pc[q] /\ at'[q] = at[q]
  BY NextVersionTypes DEF IInv
<1>2. CASE pc'[r] = "unlock"
  BY <1>1, <1>2 DEF Behind, Version
<1>3. CASE pc'[r] = "check"
  <2>1. at'[r][1] = at[r][1] + 1 /\ at[r][1] \in Version
    <3>1. pc \in [Replica -> Applying \cup {"down", "lock", "serving"}] /\ at \in [Replica -> Version \X Nat]
      BY DEF IInv, Types
    <3>2. at[r][1] # Len(Plan)
      BY <1>3, <3>1 DEF NextVersion, Continue, Goto
    <3> QED BY <3>1, <3>2 DEF NextVersion, Goto
  <2>2. \A v \in Version : v < at[r][1] + 1 => v < at[r][1] \/ v = at[r][1]
    BY <2>1 DEF Version
  <2> QED BY <1>1, <2>1, <2>2 DEF Behind, Version
<1> QED BY <1>1, <1>2, <1>3

LEMMA NextFailures ==
  IInv /\ Behind /\ FailuresExplained /\ [Next]_vars => (Behind /\ FailuresExplained)'
<1> SUFFICES ASSUME IInv, Behind, FailuresExplained, [Next]_vars
             PROVE  Behind' /\ FailuresExplained'
  OBVIOUS
<1>1. /\ pc \in [Replica -> Applying \cup {"down", "lock", "serving"}]
      /\ at \in [Replica -> Version \X Nat] /\ recorded \subseteq Version
      /\ cutInCore \in BOOLEAN /\ outlived \in BOOLEAN
  BY DEF IInv, Types
<1>2. ASSUME NEW r \in Replica, Check(r) \/ Record(r) PROVE Behind' /\ FailuresExplained'
  <2>1. CASE NextVersion(r) /\ at[r][1] \in recorded'
    <3>1. pc[r] \in {"check", "record"} /\ recorded \subseteq recorded'
          /\ UNCHANGED <<outlived, cutInCore>>
      BY <1>2 DEF Check, Record, database, history
    <3>2. pc'[r] \in {"unlock", "check"} /\ \A q \in Replica \ {r} : pc'[q] = pc[q]
      BY <2>1, NextVersionTypes DEF IInv
    <3> QED BY <2>1, <3>1, <3>2, NextBehind DEF FailuresExplained
  <2>2. CASE Check(r) /\ at[r][1] \notin recorded
    BY <1>1, <2>2 DEF Check, Continue, Goto, database, history, Behind, FailuresExplained, Version
  <2> QED BY <1>2, <2>1, <2>2 DEF Check, Record, database
<1>3. ASSUME NEW r \in Replica, Statement(r) PROVE Behind' /\ FailuresExplained'
  <2>1. CASE Possible(at[r])
    <3>1. /\ Advance(r) /\ pc[r] = "statement"
          /\ UNCHANGED <<recorded, outlived, cutInCore>>
      BY <1>3, <2>1 DEF Statement, history
    <3>2. \A q \in Replica : /\ pc'[q] = pc[q] \/ (q = r /\ pc'[q] = "record")
                            /\ at'[q][1] = at[q][1]
      BY <1>1, <3>1 DEF Advance, Continue, Goto
    <3> QED BY <3>1, <3>2 DEF Behind, FailuresExplained, Version
  <2>2. CASE ~ Possible(at[r])
    <3>1. outlived \/ cutInCore
      BY <1>3, <2>2, PossibleInOrder DEF Statement
    <3>2. /\ pc' = [pc EXCEPT ![r] = "giveUp"] /\ at' = at
          /\ UNCHANGED <<recorded, outlived, cutInCore>>
      BY <1>3, <2>2 DEF Statement, Continue, Goto, history
    <3> QED BY <1>1, <3>1, <3>2 DEF Behind, FailuresExplained, Version
  <2> QED BY <2>1, <2>2
<1>4. ASSUME NEW r \in Replica, FindUsers(r) PROVE Behind' /\ FailuresExplained'
  <2>1. /\ at' = [at EXCEPT ![r] = <<Core, 1>>]
        /\ pc' = [pc EXCEPT ![r] = IF Users \in schema THEN "findCore" ELSE "check"]
        /\ UNCHANGED <<recorded, outlived, cutInCore>>
    BY <1>4 DEF FindUsers, Goto, database, history
  <2>2. at'[r][1] = 1 /\ pc'[r] \in {"findCore", "check"}
        /\ \A q \in Replica \ {r} : pc'[q] = pc[q] /\ at'[q] = at[q]
    BY <1>1, <2>1, PlanFacts DEF Core
  <2>3. \A v \in Version : ~ (v < 1)
    BY DEF Version
  <2> QED BY <2>1, <2>2, <2>3 DEF Behind, FailuresExplained, Version
<1>5. ASSUME NEW r \in Replica, Boot(r) \/ Lock(r) \/ FindCore(r) \/ Adopt(r) \/ Unlock(r) \/ GiveUp(r) \/ Stop(r)
      PROVE  Behind' /\ FailuresExplained'
  <2>1. /\ \A q \in Replica \ {r} : pc'[q] = pc[q]
        /\ at' = at /\ recorded \subseteq recorded'
        /\ outlived' = outlived /\ (cutInCore => cutInCore')
        /\ pc'[r] # "giveUp"
        /\ pc'[r] \in {"findCore", "adopt", "check", "statement", "record"} => pc[r] \in {"findCore", "adopt"}
    BY <1>1, <1>5 DEF Boot, Lock, FindCore, Adopt, Unlock, GiveUp, Stop, Continue, Goto, database, history
  <2> QED BY <2>1 DEF Behind, FailuresExplained, Version
<1>6. CASE CloseSession
  BY <1>1, <1>6 DEF CloseSession, database, Behind, FailuresExplained, Version
<1>7. CASE UNCHANGED vars
  BY <1>7 DEF vars, Behind, FailuresExplained, Version
<1> QED BY <1>2, <1>3, <1>4, <1>5, <1>6, <1>7 DEF Next, Step

(***************************************************************************)
(* apply: a statement fails only when a start was cut off within Core or   *)
(* the session with the lock was closed, for any plan in which statements  *)
(* need what earlier ones made and any number of starts cut off elsewhere. *)
(* It is what the restart policy relies on: to begin again is enough.      *)
(***************************************************************************)
THEOREM StartsFailForReason == Spec => []FailuresExplained
<1>1. Init => Behind /\ FailuresExplained
  BY DEF Init, Behind, FailuresExplained
<1> QED BY <1>1, NextFailures, Inductive, PTL DEF Spec
=============================================================================
