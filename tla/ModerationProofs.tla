--------------------------- MODULE ModerationProofs ---------------------------
(***************************************************************************)
(* What holds of reports and hidden posts for any number of users,         *)
(* posts, reports and requests, none of which has a transaction.           *)
(***************************************************************************)
EXTENDS Moderation, TLAPS

(***************************************************************************)
(* What a request works on, and every hidden post accounted for, post by   *)
(* post.                                                                   *)
(***************************************************************************)
Works == [op : {None, "nospam", "rollback", "close", "delete", "ban"},
          notes : SUBSET Post, users : SUBSET User,
          report : Report \cup {None}]

OnRecord(p) ==
  \/ \E n \in DOMAIN saved : p \in saved[n]
  \/ \E t \in Task : pc[t] = "save" /\ p \in job[t].notes
  \/ p \in reported \/ p \in cut

(***************************************************************************)
(* Ids are given once.                                                     *)
(***************************************************************************)
OneRow == \A row, other \in reports : row.id = other.id => row = other

ReportOK(row) ==
  /\ done[row.id] # None
  /\ row.kind = "user" => row.target \in User
  /\ row.kind = "wall" => row.target \in Post

(***************************************************************************)
(* A post deleted for a report is hidden, or excepted, or it went with its *)
(* author, who does not come back.                                         *)
(***************************************************************************)
OutOfSight(row) ==
  row.target \in hidden \cup shown \cup missed \/ Author(row.target) \notin accounts

Deletes(r, row) == row.id = r /\ row.kind = "wall" => "delete" \in done[r] /\ OutOfSight(row)
Bans(r, row) == row.id = r => Accused(row) \cap done[r] # {}

Truth(row) ==
  /\ row.status = "banned" => Bans(row.id, row)
  /\ row.status = "deleted" => Deletes(row.id, row)

(***************************************************************************)
(* What a request about a report has done for it, by the statement it is   *)
(* at: the status that will be set tells the truth already.                *)
(***************************************************************************)
AboutPost(t, row) == row.id = job[t].report => row.kind = "wall" /\ job[t].notes = {row.target}
Accuses(t, row) == row.id = job[t].report => job[t].users \subseteq Accused(row)

Handles(t) ==
  LET r == job[t].report IN
  /\ pc[t] \in {"deletePost", "findAuthor", "banTarget", "status"} =>
       r \in Report /\ done[r] # None
  /\ pc[t] = "deletePost" => job[t].op = "delete" /\ \A row \in reports : AboutPost(t, row)
  /\ pc[t] = "findAuthor" => job[t].op = "ban" /\ \A row \in reports : AboutPost(t, row)
  /\ pc[t] = "banTarget" => job[t].op = "ban" /\ \A row \in reports : Accuses(t, row)
  /\ pc[t] = "status" =>
       /\ job[t].op \in {"close", "delete", "ban"}
       /\ job[t].op = "ban" => \A row \in reports : Bans(r, row)
       /\ job[t].op = "delete" => \A row \in reports : Deletes(r, row)

ModerationIInv ==
  /\ TypeOK
  /\ job \in [Task -> Works]
  /\ \A p \in hidden : OnRecord(p)
  /\ OneRow
  /\ \A row \in reports : ReportOK(row) /\ Truth(row)
  /\ \A t \in Task : Handles(t)

LEMMA ModerationInit ==
  ASSUME Init
  PROVE  ModerationIInv
<1> USE DEF Init
<1>1. Idle \in Works /\ Idle.notes = {} /\ Idle.users = {}
  BY DEF Idle, Works
<1>2. TypeOK
  BY <1>1, ModerationAssumption DEF TypeOK, Label
<1>3. job \in [Task -> Works]
  BY <1>1
<1>4. (\A p \in hidden : OnRecord(p)) /\ OneRow /\ (\A row \in reports : ReportOK(row) /\ Truth(row))
  BY DEF OneRow
<1>5. \A t \in Task : Handles(t)
  BY DEF Handles
<1> QED BY <1>2, <1>3, <1>4, <1>5 DEF ModerationIInv

(***************************************************************************)
(* What a request does to its own label and work.                          *)
(***************************************************************************)
LEMMA TaskFacts ==
  ASSUME ModerationIInv, NEW t \in Task, NEW l \in Label, NEW j \in Works,
         pc' = [pc EXCEPT ![t] = l], job' = [job EXCEPT ![t] = j]
  PROVE  /\ pc' \in [Task -> Label] /\ job' \in [Task -> Works]
         /\ pc'[t] = l /\ job'[t] = j
         /\ \A s \in Task \ {t} : pc'[s] = pc[s] /\ job'[s] = job[s]
         /\ \A s \in Task : job'[s].notes \in SUBSET Post /\ job'[s].users \in SUBSET User
<1>1. pc \in [Task -> Label] /\ job \in [Task -> Works]
  BY DEF ModerationIInv, TypeOK
<1>2. pc' \in [Task -> Label] /\ job' \in [Task -> Works]
  BY <1>1
<1>3. \A s \in Task : job'[s].notes \in SUBSET Post /\ job'[s].users \in SUBSET User
  BY <1>2 DEF Works
<1> QED BY <1>1, <1>2, <1>3

(***************************************************************************)
(* What is known of reports and requests stays true while reports only go, *)
(* more is done for them and what is out of sight stays there.             *)
(***************************************************************************)
DoneGrows == \A r \in Report : done[r] # None => done'[r] # None /\ done[r] \subseteq done'[r]
SightKept == \A row : OutOfSight(row) => OutOfSight(row)'

LEMMA NoReport ==
  ASSUME NEW t \in Task, pc'[t] \notin {"deletePost", "findAuthor", "banTarget", "status"}
  PROVE  Handles(t)'
  BY DEF Handles

LEMMA Kept ==
  ASSUME ModerationIInv, reports' \subseteq reports, DoneGrows, SightKept
  PROVE  /\ OneRow' /\ \A row \in reports' : ReportOK(row)' /\ Truth(row)'
         /\ \A s \in Task : pc'[s] = pc[s] /\ job'[s] = job[s] => Handles(s)'
<1>1. \A row \in reports : row.id \in Report /\ ReportOK(row) /\ Truth(row)
  BY DEF ModerationIInv, TypeOK
<1>2. ASSUME NEW r \in Report, NEW row, done[r] # None
      PROVE  (Deletes(r, row) => Deletes(r, row)') /\ (Bans(r, row) => Bans(r, row)')
  <2>1. done[r] \subseteq done'[r]
    BY <1>2 DEF DoneGrows
  <2>2. Deletes(r, row) => Deletes(r, row)'
    BY <2>1 DEF Deletes, SightKept
  <2>3. Accused(row)' = Accused(row)
    BY DEF Accused
  <2>4. Bans(r, row) => Bans(r, row)'
    BY <2>1, <2>3 DEF Bans
  <2> QED BY <2>2, <2>4
<1>3. OneRow'
  BY DEF ModerationIInv, OneRow
<1>4. \A row \in reports' : ReportOK(row)'
  BY <1>1 DEF ReportOK, DoneGrows
<1>5. \A row \in reports' : Truth(row)'
  BY <1>1, <1>2 DEF ReportOK, Truth
<1>6. ASSUME NEW s \in Task, pc'[s] = pc[s], job'[s] = job[s] PROVE Handles(s)'
  <2> DEFINE r == job[s].report
  <2>1. SUFFICES ASSUME pc[s] \in {"deletePost", "findAuthor", "banTarget", "status"}
                 PROVE  Handles(s)'
    BY <1>6, NoReport
  <2>2. Handles(s) /\ r \in Report /\ done[r] # None /\ done'[r] # None
    BY <2>1 DEF ModerationIInv, Handles, DoneGrows
  <2>3. ASSUME NEW row
        PROVE  (Deletes(r, row) => Deletes(r, row)') /\ (Bans(r, row) => Bans(r, row)')
    BY <1>6, <2>2, <1>2 DEF Deletes, Bans
  <2>4. \A row : (AboutPost(s, row) => AboutPost(s, row)') /\ (Accuses(s, row) => Accuses(s, row)')
    BY <1>6 DEF AboutPost, Accuses, Accused
  <2> QED BY <1>6, <2>2, <2>3, <2>4 DEF Handles
<1> QED BY <1>3, <1>4, <1>5, <1>6

LEMMA NothingDone ==
  ASSUME UNCHANGED <<accounts, hidden, done, shown, missed>>
  PROVE  DoneGrows /\ SightKept
  BY DEF DoneGrows, SightKept, OutOfSight

(***************************************************************************)
(* Steps that change nothing but a request.                                *)
(***************************************************************************)
LEMMA RequestOnly ==
  ASSUME ModerationIInv, NEW t \in Task, NEW l \in Label, NEW j \in Works,
         pc' = [pc EXCEPT ![t] = l], job' = [job EXCEPT ![t] = j],
         pc[t] # "save", l # "save", Handles(t)',
         UNCHANGED <<accounts, posts, hidden, reports, saved, cut, reported, shown, missed, done>>
  PROVE  ModerationIInv'
<1>1. /\ pc' \in [Task -> Label] /\ job' \in [Task -> Works]
      /\ pc'[t] = l /\ job'[t] = j
      /\ \A s \in Task \ {t} : pc'[s] = pc[s] /\ job'[s] = job[s]
      /\ \A s \in Task : job'[s].notes \in SUBSET Post /\ job'[s].users \in SUBSET User
  BY TaskFacts
<1>2. TypeOK'
  BY <1>1 DEF ModerationIInv, TypeOK
<1>3. \A p \in hidden' : OnRecord(p)'
  BY <1>1 DEF ModerationIInv, OnRecord
<1>4. /\ OneRow' /\ \A row \in reports' : ReportOK(row)' /\ Truth(row)'
      /\ \A s \in Task : pc'[s] = pc[s] /\ job'[s] = job[s] => Handles(s)'
  BY NothingDone, Kept
<1> QED BY <1>1, <1>2, <1>3, <1>4 DEF ModerationIInv

LEMMA StartStep ==
  ASSUME ModerationIInv, NEW t \in Task, NEW l \in Label, NEW j \in Works,
         Start(t, l, j), l # "save",
         l \in {"deletePost", "findAuthor", "banTarget", "status"} => Handles(t)',
         UNCHANGED <<accounts, posts, hidden, reports, saved, cut, reported, shown, missed, done>>
  PROVE  ModerationIInv'
<1>1. /\ pc' = [pc EXCEPT ![t] = l] /\ job' = [job EXCEPT ![t] = j] /\ pc[t] = "idle"
  BY DEF Start, Goto
<1>2. pc'[t] = l
  BY <1>1, TaskFacts
<1>3. Handles(t)'
  BY <1>2, NoReport
<1> QED BY <1>1, <1>3, RequestOnly

LEMMA EndFacts ==
  ASSUME ModerationIInv, NEW t \in Task, End(t)
  PROVE  /\ "idle" \in Label /\ Idle \in Works
         /\ pc' = [pc EXCEPT ![t] = "idle"] /\ job' = [job EXCEPT ![t] = Idle]
         /\ pc'[t] = "idle" /\ Handles(t)'
<1>1. Idle \in Works /\ "idle" \in Label
  BY DEF Idle, Works, Label
<1>2. pc' = [pc EXCEPT ![t] = "idle"] /\ job' = [job EXCEPT ![t] = Idle]
  BY DEF End, Goto
<1>3. pc'[t] = "idle"
  BY <1>2 DEF ModerationIInv, TypeOK
<1>4. Handles(t)'
  BY <1>3, NoReport
<1> QED BY <1>1, <1>2, <1>3, <1>4

LEMMA EndStep ==
  ASSUME ModerationIInv, NEW t \in Task, End(t), pc[t] # "save",
         UNCHANGED <<accounts, posts, hidden, reports, saved, cut, reported, shown, missed, done>>
  PROVE  ModerationIInv'
  BY EndFacts, RequestOnly

(***************************************************************************)
(* The author of a post is a user.                                         *)
(***************************************************************************)
LEMMA Authors ==
  ASSUME NEW S \in SUBSET Post
  PROVE  {Author(p) : p \in S} \in SUBSET User
  BY ModerationAssumption DEF Post, Author

LEMMA SearchWallStep ==
  ASSUME ModerationIInv, NEW t \in Task,
         NEW found \in SUBSET posts, NEW banAuthors \in BOOLEAN,
         SearchWall(t, found, banAuthors)
  PROVE  ModerationIInv'
<1> DEFINE whom == IF banAuthors THEN {Author(p) : p \in found} ELSE {}
           j == [Idle EXCEPT !.op = "nospam", !.notes = found, !.users = whom]
<1>1. found \in SUBSET Post
  BY DEF ModerationIInv, TypeOK
<1>2. whom \in SUBSET User
  BY <1>1, Authors
<1>3. Start(t, "hide", j)
  BY DEF SearchWall
<1> HIDE DEF whom
<1>4. j \in Works
  BY <1>1, <1>2 DEF Idle, Works
<1>5. UNCHANGED <<accounts, posts, hidden, reports, saved, cut, reported, shown, missed, done>>
  BY DEF SearchWall, content, history
<1>6. "hide" \in Label
  BY DEF Label
<1> HIDE DEF j
<1> QED BY <1>3, <1>4, <1>5, <1>6, StartStep

LEMMA ReadActionStep ==
  ASSUME ModerationIInv, NEW t \in Task, NEW n, ReadAction(t, n)
  PROVE  ModerationIInv'
<1> DEFINE j == [Idle EXCEPT !.op = "rollback", !.notes = saved[n]]
<1>1. saved[n] \in SUBSET Post
  BY DEF ReadAction, ModerationIInv, TypeOK
<1>2. j \in Works
  BY <1>1 DEF Idle, Works
<1>3. Start(t, "restore", j)
  BY DEF ReadAction
<1>4. UNCHANGED <<accounts, posts, hidden, reports, saved, cut, reported, shown, missed, done>>
  BY DEF ReadAction, content, history
<1>5. "restore" \in Label
  BY DEF Label
<1> HIDE DEF j
<1> QED BY <1>2, <1>3, <1>4, <1>5, StartStep

LEMMA BanAuthorStep ==
  ASSUME ModerationIInv, NEW t \in Task, BanAuthor(t)
  PROVE  ModerationIInv'
<1>1. pc[t] = "banAuthor"
  BY DEF BanAuthor
<1>2. UNCHANGED <<accounts, posts, hidden, reports, saved, cut, reported, shown, missed, done>>
  BY DEF BanAuthor, content, history
<1>3. pc \in [Task -> Label] /\ job \in [Task -> Works]
  BY DEF ModerationIInv, TypeOK
<1>4. CASE End(t)
  BY <1>1, <1>2, <1>4, EndStep
<1>5. ASSUME NEW u \in job[t].users, job' = [job EXCEPT ![t].users = @ \ {u}], UNCHANGED pc
      PROVE  ModerationIInv'
  <2> DEFINE j == [job[t] EXCEPT !.users = @ \ {u}]
  <2>1. job[t] \in Works
    BY <1>3
  <2>2. j \in Works
    BY <2>1 DEF Works
  <2>3. job' = [job EXCEPT ![t] = j] /\ pc' = [pc EXCEPT ![t] = "banAuthor"]
    BY <1>1, <1>3, <1>5
  <2>4. "banAuthor" \in Label /\ pc'[t] = "banAuthor"
    BY <1>1, <1>5 DEF Label
  <2>5. Handles(t)'
    BY <2>4, NoReport
  <2> HIDE DEF j
  <2> QED BY <1>1, <1>2, <2>2, <2>3, <2>4, <2>5, RequestOnly
<1> QED BY <1>4, <1>5 DEF BanAuthor

-----------------------------------------------------------------------------
(***************************************************************************)
(* What a request about a report begins with.                              *)
(***************************************************************************)
LEMMA BeginReportStep ==
  ASSUME ModerationIInv, NEW t \in Task, NEW row \in reports,
         NEW action \in {"close", "delete", "ban"}, BeginReport(t, row, action)
  PROVE  ModerationIInv'
<1> DEFINE l == CASE action = "close" -> "status"
                  [] action = "delete" -> IF row.kind = "wall" THEN "deletePost" ELSE "status"
                  [] action = "ban" -> IF row.kind = "wall" THEN "findAuthor" ELSE "banTarget"
           notes == IF row.kind = "wall" THEN {row.target} ELSE {}
           whom == CASE row.kind = "user" -> {row.target}
                     [] row.kind = "comment" -> {row.author}
                     [] OTHER -> {}
           j == [op |-> action, report |-> row.id, notes |-> notes, users |-> whom]
<1>1. Start(t, l, j)
  BY DEF BeginReport
<1>2. UNCHANGED <<accounts, posts, hidden, reports, saved, cut, reported, shown, missed, done>>
  BY DEF BeginReport, content, history
<1>3. /\ row.id \in Report /\ row.author \in User /\ row.kind \in Kinds /\ ReportOK(row)
      /\ \A other \in reports : other.id = row.id => other = row
  BY DEF ModerationIInv, TypeOK, OneRow
<1>4. notes \in SUBSET Post
  BY <1>3 DEF ReportOK
<1>5. whom \in SUBSET User
  BY <1>3 DEF ReportOK, Kinds
<1>6. /\ l \in {"status", "deletePost", "findAuthor", "banTarget"}
      /\ l = "status" => action = "close" \/ (action = "delete" /\ row.kind # "wall")
      /\ l = "deletePost" => action = "delete" /\ row.kind = "wall"
      /\ l = "findAuthor" => action = "ban" /\ row.kind = "wall"
      /\ l = "banTarget" => action = "ban" /\ row.kind # "wall"
  OBVIOUS
<1>7. (row.kind = "wall" => notes = {row.target}) /\ (row.kind # "wall" => whom \subseteq Accused(row))
  BY DEF Accused
<1> HIDE DEF l, notes, whom
<1>8. j \in Works /\ j.report = row.id /\ j.op = action /\ j.notes = notes /\ j.users = whom
  BY <1>3, <1>4, <1>5 DEF Works
<1> HIDE DEF j
<1>9. l \in Label /\ l # "save"
  BY <1>6 DEF Label
<1>10. pc'[t] = l /\ job'[t] = j
  BY <1>1, <1>8, <1>9, TaskFacts DEF Start, Goto
<1>11. Handles(t)'
  <2>1. row.id \in Report /\ done'[row.id] # None
    BY <1>2, <1>3 DEF ReportOK
  <2>2. \A other \in reports' : other.id = row.id => other = row
    BY <1>2, <1>3
  <2>3. CASE l = "status"
    BY <1>6, <1>8, <1>10, <2>1, <2>2, <2>3 DEF Handles, Deletes
  <2>4. CASE l \in {"deletePost", "findAuthor"}
    BY <1>6, <1>7, <1>8, <1>10, <2>1, <2>2, <2>4 DEF Handles, AboutPost
  <2>5. CASE l = "banTarget"
    <3>1. Accuses(t, row)' /\ \A other \in reports' : Accuses(t, other)'
      BY <1>6, <1>7, <1>8, <1>10, <2>2, <2>5 DEF Accuses, Accused
    <3> QED BY <1>6, <1>8, <1>10, <2>1, <2>5, <3>1 DEF Handles
  <2> QED BY <1>6, <2>3, <2>4, <2>5
<1> QED BY <1>1, <1>2, <1>8, <1>9, <1>11, StartStep

LEMMA FindAuthorStep ==
  ASSUME ModerationIInv, NEW t \in Task, FindAuthor(t)
  PROVE  ModerationIInv'
<1>1. pc[t] = "findAuthor" /\ pc' = [pc EXCEPT ![t] = "banTarget"]
  BY DEF FindAuthor, Goto
<1>2. UNCHANGED <<accounts, posts, hidden, reports, saved, cut, reported, shown, missed, done>>
  BY DEF FindAuthor, content, history
<1>3. /\ pc \in [Task -> Label] /\ job \in [Task -> Works] /\ job[t] \in Works
      /\ job[t].notes \in SUBSET Post /\ Handles(t)
      /\ \A row \in reports : ReportOK(row)
  BY DEF ModerationIInv, TypeOK
<1>4. PICK whom : /\ job' = [job EXCEPT ![t].users = whom]
                  /\ \/ whom = {Author(p) : p \in job[t].notes}
                     \/ whom = {Twin[p] : p \in job[t].notes} \cap User
  BY DEF FindAuthor
<1>5. whom \in SUBSET User
  BY <1>3, <1>4, Authors
<1> DEFINE j == [job[t] EXCEPT !.users = whom]
<1>6. job' = [job EXCEPT ![t] = j]
  BY <1>3, <1>4
<1>7. /\ j \in Works /\ j.report = job[t].report /\ j.op = job[t].op
      /\ j.notes = job[t].notes /\ j.users = whom
  BY <1>3, <1>5 DEF Works
<1> HIDE DEF j
<1>8. "banTarget" \in Label /\ pc'[t] = "banTarget" /\ job'[t] = j
  BY <1>1, <1>3, <1>6 DEF Label
<1>9. ASSUME NEW row \in reports PROVE Accuses(t, row)'
  <2>1. SUFFICES ASSUME row.id = job[t].report PROVE whom \subseteq Accused(row)
    BY <1>7, <1>8 DEF Accuses, Accused
  <2>2. row.kind = "wall" /\ job[t].notes = {row.target}
    BY <1>1, <1>3, <2>1 DEF Handles, AboutPost
  <2>3. Accused(row) = {Author(row.target)} \cup ({Twin[row.target]} \ {None})
    BY <2>2 DEF Accused
  <2> QED BY <1>4, <1>5, <2>2, <2>3, ModerationAssumption
<1>10. Handles(t)'
  BY <1>1, <1>2, <1>3, <1>7, <1>8, <1>9 DEF Handles
<1> QED BY <1>1, <1>2, <1>6, <1>7, <1>8, <1>10, RequestOnly

-----------------------------------------------------------------------------
(***************************************************************************)
(* Outside of moderation.                                                  *)
(***************************************************************************)
LEMMA WritePostStep ==
  ASSUME ModerationIInv, NEW p \in Post, WritePost(p)
  PROVE  ModerationIInv'
<1>1. /\ posts' = posts \cup {p} /\ Author(p) \in accounts
      /\ UNCHANGED <<accounts, hidden, reports, saved, pc, job,
                     cut, reported, shown, missed, done>>
  BY DEF WritePost, tasks, history
<1>2. TypeOK /\ hidden \subseteq posts /\ shown \subseteq posts
  BY DEF ModerationIInv, TypeOK
<1>3. TypeOK'
  BY <1>1, <1>2 DEF TypeOK
<1>4. \A q \in hidden' : OnRecord(q)'
  BY <1>1 DEF ModerationIInv, OnRecord
<1>5. /\ OneRow' /\ \A row \in reports' : ReportOK(row)' /\ Truth(row)'
      /\ \A s \in Task : Handles(s)'
  BY <1>1, NothingDone, Kept
<1> QED BY <1>1, <1>3, <1>4, <1>5 DEF ModerationIInv

LEMMA CreateReportStep ==
  ASSUME ModerationIInv, NEW r \in Report, NEW u \in User,
         NEW kind \in Kinds, NEW target \in User \cup Post \cup {None},
         CreateReport(r, u, kind, target)
  PROVE  ModerationIInv'
<1> DEFINE new == [id |-> r, author |-> u, kind |-> kind, target |-> target, status |-> "open"]
<1>1. /\ u \in accounts /\ done[r] = None /\ done' = [done EXCEPT ![r] = {}]
      /\ reports' = reports \cup {new}
      /\ UNCHANGED <<accounts, posts, hidden, saved, pc, job, cut, reported, shown, missed>>
  BY DEF CreateReport, tasks, content
<1>2. /\ kind = "user" => target \in User
      /\ kind = "wall" => target \in Post
  BY DEF CreateReport
<1>3. /\ new \in [id : Report, author : accounts, kind : Kinds,
                  target : User \cup Post \cup {None}, status : Status]
      /\ new.id = r /\ new.kind = kind /\ new.target = target /\ new.status = "open"
  BY <1>1 DEF Status
<1> HIDE DEF new
<1>4. /\ TypeOK
      /\ \A row \in reports : ReportOK(row) /\ Truth(row) /\ row.id # r /\ row.id \in Report
  BY <1>1 DEF ModerationIInv, ReportOK, TypeOK
<1>5. /\ done'[r] = {} /\ {} # None
      /\ done' \in [Report -> {None} \cup SUBSET ({"delete"} \cup User)]
      /\ \A s \in Report \ {r} : done'[s] = done[s]
  BY <1>1, <1>4, ModerationAssumption DEF TypeOK
<1>6. TypeOK'
  BY <1>1, <1>3, <1>4, <1>5 DEF TypeOK
<1>7. \A q \in hidden' : OnRecord(q)'
  BY <1>1 DEF ModerationIInv, OnRecord
<1>8. OneRow'
  BY <1>1, <1>3, <1>4 DEF ModerationIInv, OneRow
<1>9. ASSUME NEW s \in Report, s # r, NEW row
      PROVE  (Deletes(s, row) => Deletes(s, row)') /\ (Bans(s, row) => Bans(s, row)')
  BY <1>1, <1>5, <1>9 DEF Deletes, Bans, OutOfSight, Accused
<1>10. ASSUME NEW s \in Report, s # r PROVE Deletes(s, new)' /\ Bans(s, new)'
  BY <1>3, <1>10 DEF Deletes, Bans
<1>11. \A row \in reports' : ReportOK(row)' /\ Truth(row)'
  <2>1. ReportOK(new)' /\ Truth(new)'
    BY <1>2, <1>3, <1>5 DEF ReportOK, Truth
  <2>2. ASSUME NEW row \in reports PROVE ReportOK(row)' /\ Truth(row)'
    BY <1>4, <1>5, <1>9 DEF ReportOK, Truth
  <2> QED BY <1>1, <2>1, <2>2
<1>12. ASSUME NEW t \in Task PROVE Handles(t)'
  <2>1. SUFFICES ASSUME pc[t] \in {"deletePost", "findAuthor", "banTarget", "status"}
                 PROVE  Handles(t)'
    BY <1>1, NoReport
  <2>2. PICK s \in Report : s = job[t].report /\ s # r /\ done'[s] = done[s] /\ Handles(t)
    BY <1>1, <1>5, <2>1 DEF ModerationIInv, Handles
  <2>3. ASSUME NEW row \in reports
        PROVE  /\ (Deletes(s, row) => Deletes(s, row)') /\ (Bans(s, row) => Bans(s, row)')
               /\ (AboutPost(t, row) => AboutPost(t, row)') /\ (Accuses(t, row) => Accuses(t, row)')
    <3>1. (Deletes(s, row) => Deletes(s, row)') /\ (Bans(s, row) => Bans(s, row)')
      BY <1>9, <2>2
    <3>2. (AboutPost(t, row) => AboutPost(t, row)') /\ (Accuses(t, row) => Accuses(t, row)')
      BY <1>1 DEF AboutPost, Accuses, Accused
    <3> QED BY <3>1, <3>2
  <2>4. Deletes(s, new)' /\ Bans(s, new)' /\ AboutPost(t, new)' /\ Accuses(t, new)'
    <3>1. Deletes(s, new)' /\ Bans(s, new)'
      BY <1>10, <2>2
    <3>2. AboutPost(t, new)' /\ Accuses(t, new)'
      BY <1>1, <1>3, <2>2 DEF AboutPost, Accuses
    <3> QED BY <3>1, <3>2
  <2>5. \A row \in reports' : row \in reports \/ row = new
    BY <1>1
  <2>6. job'[t].report = s /\ job'[t] = job[t] /\ pc'[t] = pc[t] /\ done'[s] # None
    BY <1>1, <2>1, <2>2 DEF Handles
  <2>7. CASE pc[t] \in {"deletePost", "findAuthor", "banTarget"}
    BY <2>2, <2>3, <2>4, <2>5, <2>6, <2>7 DEF Handles
  <2>8. CASE pc[t] = "status"
    BY <2>2, <2>3, <2>4, <2>5, <2>6, <2>8 DEF Handles
  <2> QED BY <2>1, <2>7, <2>8
<1> QED BY <1>1, <1>6, <1>7, <1>8, <1>11, <1>12 DEF ModerationIInv

LEMMA DeleteAccountStep ==
  ASSUME ModerationIInv, NEW u \in User, DeleteAccount(u)
  PROVE  ModerationIInv'
<1>1. /\ accounts' = accounts \ {u}
      /\ posts' = {p \in posts : Author(p) # u}
      /\ hidden' = {p \in hidden : Author(p) # u}
      /\ shown' = {p \in shown : Author(p) # u}
      /\ reports' = {row \in reports : row.author # u}
      /\ UNCHANGED <<saved, pc, job, cut, reported, missed, done>>
  BY DEF DeleteAccount, tasks
<1>2. TypeOK
  BY DEF ModerationIInv
<1>3. TypeOK'
  <2>1. reports' \in SUBSET [id : Report, author : accounts', kind : Kinds,
                             target : User \cup Post \cup {None}, status : Status]
    BY <1>1, <1>2 DEF TypeOK
  <2>2. /\ accounts' \in SUBSET User /\ posts' \in SUBSET {p \in Post : Author(p) \in accounts'}
        /\ hidden' \in SUBSET posts' /\ shown' \in SUBSET (posts' \ hidden')
    BY <1>1, <1>2 DEF TypeOK
  <2> QED BY <1>1, <1>2, <2>1, <2>2 DEF TypeOK
<1>4. \A q \in hidden' : OnRecord(q)'
  BY <1>1 DEF ModerationIInv, OnRecord
<1>5. DoneGrows /\ SightKept /\ reports' \subseteq reports
  BY <1>1 DEF DoneGrows, SightKept, OutOfSight
<1>6. /\ OneRow' /\ \A row \in reports' : ReportOK(row)' /\ Truth(row)'
      /\ \A s \in Task : Handles(s)'
  BY <1>1, <1>5, Kept
<1> QED BY <1>1, <1>3, <1>4, <1>6 DEF ModerationIInv

LEMMA DeleteAdministratorStep ==
  ASSUME ModerationIInv, DeleteAdministrator
  PROVE  ModerationIInv'
<1>1. /\ saved' = <<>>
      /\ cut' = cut \cup (hidden \cap UNION {saved[n] : n \in DOMAIN saved})
      /\ UNCHANGED <<accounts, posts, hidden, reports, pc, job, reported, shown, missed, done>>
  BY DEF DeleteAdministrator, tasks
<1>2. TypeOK'
  <2>1. saved' \in Seq(SUBSET Post) /\ Len(saved') <= MaxActions
    BY <1>1, ModerationAssumption
  <2>2. cut' \in SUBSET Post
    BY <1>1 DEF ModerationIInv, TypeOK
  <2> QED BY <1>1, <2>1, <2>2 DEF ModerationIInv, TypeOK
<1>3. \A q \in hidden' : OnRecord(q)'
  BY <1>1 DEF ModerationIInv, OnRecord
<1>4. /\ OneRow' /\ \A row \in reports' : ReportOK(row)' /\ Truth(row)'
      /\ \A s \in Task : Handles(s)'
  BY <1>1, NothingDone, Kept
<1> QED BY <1>1, <1>2, <1>3, <1>4 DEF ModerationIInv

-----------------------------------------------------------------------------
(***************************************************************************)
(* noSpam and its rollback.                                                *)
(***************************************************************************)
LEMMA HidePostsStep ==
  ASSUME ModerationIInv, NEW t \in Task, HidePosts(t)
  PROVE  ModerationIInv'
<1>1. /\ pc[t] = "hide" /\ pc' = [pc EXCEPT ![t] = "save"]
      /\ hidden' = hidden \cup (job[t].notes \cap posts) /\ shown' = shown \ job[t].notes
      /\ UNCHANGED <<accounts, posts, reports, saved, job, cut, reported, missed, done>>
  BY DEF HidePosts, Goto
<1>2. TypeOK /\ "save" \in Label
  BY DEF ModerationIInv, Label
<1>3. /\ pc' \in [Task -> Label] /\ pc'[t] = "save"
      /\ \A s \in Task \ {t} : pc'[s] = pc[s]
  BY <1>1, <1>2 DEF TypeOK
<1>4. TypeOK'
  BY <1>1, <1>2, <1>3 DEF TypeOK
<1>5. \A q \in hidden' : OnRecord(q)'
  BY <1>1, <1>3 DEF ModerationIInv, OnRecord
<1>6. DoneGrows /\ SightKept
  BY <1>1, <1>2 DEF DoneGrows, SightKept, OutOfSight, TypeOK
<1>7. /\ OneRow' /\ \A row \in reports' : ReportOK(row)' /\ Truth(row)'
      /\ \A s \in Task : pc'[s] = pc[s] /\ job'[s] = job[s] => Handles(s)'
  BY <1>1, <1>6, Kept
<1>8. Handles(t)'
  BY <1>3, NoReport
<1> QED BY <1>1, <1>3, <1>4, <1>5, <1>7, <1>8 DEF ModerationIInv

LEMMA SaveActionStep ==
  ASSUME ModerationIInv, NEW t \in Task, SaveAction(t)
  PROVE  ModerationIInv'
<1>1. /\ pc[t] = "save" /\ pc' = [pc EXCEPT ![t] = "banAuthor"]
      /\ Len(saved) < MaxActions /\ saved' = Append(saved, job[t].notes)
      /\ UNCHANGED <<accounts, posts, hidden, reports, job, cut, reported, shown, missed, done>>
  BY DEF SaveAction, Goto, history
<1>2. TypeOK /\ "banAuthor" \in Label /\ job[t].notes \in SUBSET Post
  BY DEF ModerationIInv, Label, TypeOK
<1>3. /\ pc' \in [Task -> Label] /\ pc'[t] = "banAuthor"
      /\ \A s \in Task \ {t} : pc'[s] = pc[s]
  BY <1>1, <1>2 DEF TypeOK
<1>4. /\ saved' \in Seq(SUBSET Post) /\ Len(saved') = Len(saved) + 1
      /\ saved'[Len(saved) + 1] = job[t].notes /\ Len(saved) + 1 \in DOMAIN saved'
      /\ \A n \in DOMAIN saved : n \in DOMAIN saved' /\ saved'[n] = saved[n]
  BY <1>1, <1>2 DEF TypeOK
<1>5. TypeOK'
  <2>1. Len(saved') <= MaxActions
    BY <1>1, <1>2, <1>4, ModerationAssumption DEF TypeOK
  <2> QED BY <1>1, <1>2, <1>3, <1>4, <2>1 DEF TypeOK
<1>6. ASSUME NEW q \in hidden PROVE OnRecord(q)'
  <2>1. CASE \E n \in DOMAIN saved : q \in saved[n]
    BY <1>4, <2>1 DEF OnRecord
  <2>2. ASSUME NEW s \in Task, pc[s] = "save", q \in job[s].notes PROVE OnRecord(q)'
    BY <1>1, <1>3, <1>4, <2>2 DEF OnRecord
  <2>3. CASE q \in reported \/ q \in cut
    BY <1>1, <2>3 DEF OnRecord
  <2> QED BY <2>1, <2>2, <2>3 DEF ModerationIInv, OnRecord
<1>7. /\ OneRow' /\ \A row \in reports' : ReportOK(row)' /\ Truth(row)'
      /\ \A s \in Task : pc'[s] = pc[s] /\ job'[s] = job[s] => Handles(s)'
  BY <1>1, NothingDone, Kept
<1>8. Handles(t)'
  BY <1>3, NoReport
<1> QED BY <1>1, <1>3, <1>5, <1>6, <1>7, <1>8 DEF ModerationIInv

LEMMA RestorePostsStep ==
  ASSUME ModerationIInv, NEW t \in Task, RestorePosts(t)
  PROVE  ModerationIInv'
<1>1. /\ pc[t] = "restore" /\ End(t)
      /\ hidden' = hidden \ job[t].notes /\ cut' = cut \ job[t].notes
      /\ reported' = reported \ job[t].notes
      /\ shown' = shown \cup (job[t].notes \cap posts)
      /\ UNCHANGED <<accounts, posts, reports, saved, missed, done>>
  BY DEF RestorePosts
<1>2. /\ pc' \in [Task -> Label] /\ job' \in [Task -> Works] /\ Handles(t)'
      /\ \A s \in Task \ {t} : pc'[s] = pc[s] /\ job'[s] = job[s]
      /\ \A s \in Task : job'[s].notes \in SUBSET Post /\ job'[s].users \in SUBSET User
  BY <1>1, EndFacts, TaskFacts
<1>3. TypeOK'
  BY <1>1, <1>2 DEF ModerationIInv, TypeOK
<1>4. \A q \in hidden' : OnRecord(q)'
  BY <1>1, <1>2 DEF ModerationIInv, OnRecord
<1>5. DoneGrows /\ SightKept
  BY <1>1 DEF DoneGrows, SightKept, OutOfSight, ModerationIInv, TypeOK
<1>6. /\ OneRow' /\ \A row \in reports' : ReportOK(row)' /\ Truth(row)'
      /\ \A s \in Task : pc'[s] = pc[s] /\ job'[s] = job[s] => Handles(s)'
  BY <1>1, <1>5, Kept
<1> QED BY <1>2, <1>3, <1>4, <1>6 DEF ModerationIInv

LEMMA DropStep ==
  ASSUME ModerationIInv, NEW t \in Task, Drop(t)
  PROVE  ModerationIInv'
<1>1. /\ End(t)
      /\ UNCHANGED <<accounts, posts, hidden, reports, saved, reported, shown, missed, done>>
      /\ cut' = IF pc[t] = "save" THEN cut \cup job[t].notes ELSE cut
  BY DEF Drop, content
<1>2. /\ pc' \in [Task -> Label] /\ job' \in [Task -> Works] /\ Handles(t)'
      /\ \A s \in Task \ {t} : pc'[s] = pc[s] /\ job'[s] = job[s]
      /\ \A s \in Task : job'[s].notes \in SUBSET Post /\ job'[s].users \in SUBSET User
  BY <1>1, EndFacts, TaskFacts
<1>3. cut' \in SUBSET Post
  BY <1>1 DEF ModerationIInv, TypeOK
<1>4. TypeOK'
  BY <1>1, <1>2, <1>3 DEF ModerationIInv, TypeOK
<1>5. \A q \in hidden' : OnRecord(q)'
  BY <1>1, <1>2 DEF ModerationIInv, OnRecord
<1>6. /\ OneRow' /\ \A row \in reports' : ReportOK(row)' /\ Truth(row)'
      /\ \A s \in Task : pc'[s] = pc[s] /\ job'[s] = job[s] => Handles(s)'
  BY <1>1, NothingDone, Kept
<1> QED BY <1>2, <1>4, <1>5, <1>6 DEF ModerationIInv

-----------------------------------------------------------------------------
(***************************************************************************)
(* What is done about a report is noted before its status says so.         *)
(***************************************************************************)
LEMMA ActFacts ==
  ASSUME ModerationIInv, NEW t \in Task, NEW what \in {"delete"} \cup User,
         job[t].report \in Report, done[job[t].report] # None, Act(t, what)
  PROVE  /\ done' \in [Report -> {None} \cup SUBSET ({"delete"} \cup User)]
         /\ done'[job[t].report] # None /\ what \in done'[job[t].report]
         /\ DoneGrows
<1> DEFINE r == job[t].report
           Acts == {"delete"} \cup User
<1>1. done \in [Report -> {None} \cup SUBSET Acts] /\ done[r] \in SUBSET Acts
  BY DEF ModerationIInv, TypeOK
<1>2. done' = [done EXCEPT ![r] = @ \cup {what}]
  BY DEF Act
<1>3. done[r] \cup {what} \in SUBSET Acts /\ done[r] \cup {what} # None
  BY <1>1, ModerationAssumption
<1>4. done'[r] = done[r] \cup {what} /\ \A s \in Report \ {r} : done'[s] = done[s]
  BY <1>1, <1>2
<1> HIDE DEF r
<1>5. done' \in [Report -> {None} \cup SUBSET Acts]
  BY <1>1, <1>2, <1>3
<1>6. DoneGrows
  BY <1>3, <1>4 DEF DoneGrows
<1> QED BY <1>3, <1>4, <1>5, <1>6 DEF r

LEMMA DeletePostStep ==
  ASSUME ModerationIInv, NEW t \in Task, DeletePost(t)
  PROVE  ModerationIInv'
<1> DEFINE r == job[t].report
<1>1. /\ pc[t] = "deletePost" /\ pc' = [pc EXCEPT ![t] = "status"]
      /\ hidden' = hidden \cup (job[t].notes \cap posts) /\ shown' = shown \ job[t].notes
      /\ reported' = reported \cup (job[t].notes \cap posts)
      /\ missed' = (missed \cup (job[t].notes \ posts)) \ (job[t].notes \cap posts)
      /\ Act(t, "delete")
      /\ UNCHANGED <<accounts, posts, reports, saved, job, cut>>
  BY DEF DeletePost, Goto
<1>2. TypeOK /\ Handles(t) /\ "status" \in Label /\ job[t].notes \in SUBSET Post
  BY DEF ModerationIInv, Label, TypeOK
<1>3. /\ r \in Report /\ done[r] # None /\ job[t].op = "delete"
      /\ \A row \in reports : AboutPost(t, row)
  BY <1>1, <1>2 DEF Handles
<1>4. /\ pc' \in [Task -> Label] /\ pc'[t] = "status"
      /\ \A s \in Task \ {t} : pc'[s] = pc[s]
  BY <1>1, <1>2 DEF TypeOK
<1>5. /\ done' \in [Report -> {None} \cup SUBSET ({"delete"} \cup User)]
      /\ done'[r] # None /\ "delete" \in done'[r] /\ DoneGrows
  BY <1>1, <1>3, ActFacts
<1>6. TypeOK'
  BY <1>1, <1>2, <1>4, <1>5 DEF TypeOK
<1>7. \A q \in hidden' : OnRecord(q)'
  BY <1>1, <1>4 DEF ModerationIInv, OnRecord
<1>8. SightKept
  BY <1>1, <1>2 DEF SightKept, OutOfSight, TypeOK
<1>9. /\ OneRow' /\ \A row \in reports' : ReportOK(row)' /\ Truth(row)'
      /\ \A s \in Task : pc'[s] = pc[s] /\ job'[s] = job[s] => Handles(s)'
  BY <1>1, <1>5, <1>8, Kept
<1>10. Handles(t)'
  <2>1. ASSUME NEW row \in reports PROVE Deletes(r, row)'
    BY <1>1, <1>3, <1>5 DEF Deletes, OutOfSight, AboutPost
  <2> QED BY <1>1, <1>3, <1>4, <1>5, <2>1 DEF Handles
<1> QED BY <1>1, <1>4, <1>6, <1>7, <1>9, <1>10 DEF ModerationIInv

LEMMA BanTargetStep ==
  ASSUME ModerationIInv, NEW t \in Task, BanTarget(t)
  PROVE  ModerationIInv'
<1> DEFINE r == job[t].report
<1>1. /\ pc[t] = "banTarget"
      /\ UNCHANGED <<accounts, posts, hidden, reports, saved, cut, reported, shown, missed>>
  BY DEF BanTarget, content
<1>2. TypeOK /\ Handles(t) /\ "status" \in Label /\ job[t].users \in SUBSET User
  BY DEF ModerationIInv, Label, TypeOK
<1>3. /\ r \in Report /\ done[r] # None /\ job[t].op = "ban"
      /\ \A row \in reports : Accuses(t, row)
  BY <1>1, <1>2 DEF Handles
<1>4. CASE End(t) /\ UNCHANGED done
  BY <1>1, <1>2, <1>4, EndStep
<1>5. ASSUME NEW u \in job[t].users, Act(t, u), Goto(t, "status"), UNCHANGED job
      PROVE  ModerationIInv'
  <2>1. /\ pc' \in [Task -> Label] /\ pc'[t] = "status"
        /\ \A s \in Task \ {t} : pc'[s] = pc[s]
    BY <1>2, <1>5 DEF TypeOK, Goto
  <2>2. /\ done' \in [Report -> {None} \cup SUBSET ({"delete"} \cup User)]
        /\ done'[r] # None /\ u \in done'[r] /\ DoneGrows
    BY <1>2, <1>3, <1>5, ActFacts
  <2>3. TypeOK'
    BY <1>1, <1>2, <1>5, <2>1, <2>2 DEF TypeOK
  <2>4. \A q \in hidden' : OnRecord(q)'
    BY <1>1, <1>5, <2>1 DEF ModerationIInv, OnRecord
  <2>5. SightKept
    BY <1>1 DEF SightKept, OutOfSight
  <2>6. /\ OneRow' /\ \A row \in reports' : ReportOK(row)' /\ Truth(row)'
        /\ \A s \in Task : pc'[s] = pc[s] /\ job'[s] = job[s] => Handles(s)'
    BY <1>1, <2>2, <2>5, Kept
  <2>7. ASSUME NEW row \in reports PROVE Bans(r, row)'
    <3>1. row.id = r => u \in Accused(row)
      BY <1>3 DEF Accuses
    <3>2. Accused(row)' = Accused(row)
      BY DEF Accused
    <3> QED BY <1>5, <2>2, <3>1, <3>2 DEF Bans
  <2>8. Handles(t)'
    BY <1>1, <1>3, <1>5, <2>1, <2>2, <2>7 DEF Handles
  <2> QED BY <1>5, <2>1, <2>3, <2>4, <2>6, <2>8 DEF ModerationIInv
<1> QED BY <1>4, <1>5 DEF BanTarget

(***************************************************************************)
(* The status is set last, on the one row with the id.                     *)
(***************************************************************************)
LEMMA SetStatusStep ==
  ASSUME ModerationIInv, NEW t \in Task, SetStatus(t)
  PROVE  ModerationIInv'
<1> DEFINE r == job[t].report
           status == CASE job[t].op = "close" -> "closed"
                       [] job[t].op = "delete" -> "deleted"
                       [] job[t].op = "ban" -> "banned"
           new(row) == IF row.id = r THEN [row EXCEPT !.status = status] ELSE row
<1>1. /\ pc[t] = "status" /\ End(t)
      /\ reports' = {new(row) : row \in reports}
      /\ UNCHANGED <<accounts, posts, hidden, saved, cut, reported, shown, missed, done>>
  BY DEF SetStatus, content, history
<1>2. TypeOK /\ Handles(t) /\ OneRow /\ \A row \in reports : ReportOK(row) /\ Truth(row)
  BY DEF ModerationIInv
<1>3. /\ job[t].op \in {"close", "delete", "ban"}
      /\ job[t].op = "ban" => \A row \in reports : Bans(r, row)
      /\ job[t].op = "delete" => \A row \in reports : Deletes(r, row)
  BY <1>1, <1>2 DEF Handles
<1>4. /\ status \in Status
      /\ status = "banned" => job[t].op = "ban"
      /\ status = "deleted" => job[t].op = "delete"
  BY <1>3 DEF Status
<1> HIDE DEF status
<1>5. ASSUME NEW row \in reports
      PROVE  /\ new(row) \in [id : Report, author : accounts, kind : Kinds,
                              target : User \cup Post \cup {None}, status : Status]
             /\ new(row).id = row.id /\ new(row).author = row.author /\ new(row).kind = row.kind /\ new(row).target = row.target
             /\ new(row).status = IF row.id = r THEN status ELSE row.status
  <2>1. row \in [id : Report, author : accounts, kind : Kinds,
                 target : User \cup Post \cup {None}, status : Status]
    BY <1>2 DEF TypeOK
  <2>2. [row EXCEPT !.status = status] \in
          [id : Report, author : accounts, kind : Kinds,
           target : User \cup Post \cup {None}, status : Status]
    BY <1>4, <2>1
  <2>3. CASE row.id = r
    BY <2>1, <2>2, <2>3
  <2>4. CASE row.id # r
    BY <2>1, <2>4
  <2> QED BY <2>3, <2>4
<1>6. \A one \in reports' : \E row \in reports : one = new(row)
  BY <1>1
<1> HIDE DEF new
<1>7. /\ pc' \in [Task -> Label] /\ job' \in [Task -> Works] /\ Handles(t)'
      /\ \A s \in Task \ {t} : pc'[s] = pc[s] /\ job'[s] = job[s]
      /\ \A s \in Task : job'[s].notes \in SUBSET Post /\ job'[s].users \in SUBSET User
  BY <1>1, EndFacts, TaskFacts
<1>8. TypeOK'
  <2>1. reports' \in SUBSET [id : Report, author : accounts, kind : Kinds,
                             target : User \cup Post \cup {None}, status : Status]
    BY <1>5, <1>6
  <2> QED BY <1>1, <1>2, <1>7, <2>1 DEF TypeOK
<1>9. \A q \in hidden' : OnRecord(q)'
  BY <1>1, <1>7 DEF ModerationIInv, OnRecord
<1>10. OneRow'
  <2> SUFFICES ASSUME NEW one \in reports', NEW two \in reports', one.id = two.id PROVE one = two
    BY DEF OneRow
  <2>1. PICK row \in reports : one = new(row)
    BY <1>6
  <2>2. PICK other \in reports : two = new(other)
    BY <1>6
  <2>3. row.id = other.id
    BY <1>5, <2>1, <2>2
  <2> QED BY <1>2, <2>1, <2>2, <2>3 DEF OneRow
<1>11. ASSUME NEW one \in reports', NEW s \in Task, s # t
       PROVE  LET q == job[s].report IN
              /\ (\A row \in reports : AboutPost(s, row)) => AboutPost(s, one)'
              /\ (\A row \in reports : Accuses(s, row)) => Accuses(s, one)'
              /\ (\A row \in reports : Bans(q, row)) => Bans(q, one)'
              /\ (\A row \in reports : Deletes(q, row)) => Deletes(q, one)'
  <2>1. PICK row \in reports : one = new(row)
    BY <1>6
  <2>2. /\ one.id = row.id /\ one.kind = row.kind /\ one.target = row.target
        /\ one.author = row.author /\ job'[s] = job[s]
    BY <1>5, <1>7, <1>11, <2>1
  <2>3. Accused(one)' = Accused(row) /\ (OutOfSight(row) => OutOfSight(one)')
    BY <1>1, <2>2 DEF Accused, OutOfSight
  <2> QED BY <1>1, <2>2, <2>3 DEF AboutPost, Accuses, Bans, Deletes
<1>12. ASSUME NEW one \in reports' PROVE ReportOK(one)' /\ Truth(one)'
  <2>1. PICK row \in reports : one = new(row)
    BY <1>6
  <2>2. /\ one.id = row.id /\ one.kind = row.kind /\ one.target = row.target
        /\ one.author = row.author
        /\ one.status = IF row.id = r THEN status ELSE row.status
    BY <1>5, <2>1
  <2>3. ReportOK(one)'
    <3>1. ReportOK(row)
      BY <1>2
    <3> QED BY <1>1, <2>2, <3>1 DEF ReportOK
  <2>4. Accused(one)' = Accused(row) /\ (OutOfSight(row) => OutOfSight(one)')
    BY <1>1, <2>2 DEF Accused, OutOfSight
  <2>5. CASE row.id = r
    <3>1. /\ one.status = "banned" => Bans(row.id, row)
          /\ one.status = "deleted" => Deletes(row.id, row)
      BY <1>3, <1>4, <2>2, <2>5
    <3> QED BY <1>1, <2>2, <2>3, <2>4, <3>1 DEF Truth, Bans, Deletes
  <2>6. CASE row.id # r
    <3>1. Truth(row)
      BY <1>2
    <3> QED BY <1>1, <2>2, <2>3, <2>4, <2>6, <3>1 DEF Truth, Bans, Deletes
  <2> QED BY <2>5, <2>6
<1>13. ASSUME NEW s \in Task \ {t} PROVE Handles(s)'
  <2>1. Handles(s) /\ pc'[s] = pc[s] /\ job'[s] = job[s]
    BY <1>7 DEF ModerationIInv
  <2> QED BY <1>1, <1>11, <2>1 DEF Handles
<1> QED BY <1>1, <1>7, <1>8, <1>9, <1>10, <1>12, <1>13 DEF ModerationIInv

LEMMA ModerationSteps ==
  ASSUME ModerationIInv, [Next]_vars
  PROVE  ModerationIInv'
<1>1. ASSUME NEW t \in Task, Begin(t) PROVE ModerationIInv'
  <2>1. ASSUME NEW found \in SUBSET posts, NEW banAuthors \in BOOLEAN,
               SearchWall(t, found, banAuthors)
        PROVE  ModerationIInv'
    BY <2>1, SearchWallStep
  <2>2. ASSUME NEW n \in 1 .. MaxActions, ReadAction(t, n) PROVE ModerationIInv'
    BY <2>2, ReadActionStep
  <2>3. ASSUME NEW row \in reports, NEW action \in {"close", "delete", "ban"},
               BeginReport(t, row, action)
        PROVE  ModerationIInv'
    BY <2>3, BeginReportStep
  <2> QED BY <1>1, <2>1, <2>2, <2>3 DEF Begin
<1>2. ASSUME NEW t \in Task, Step(t) PROVE ModerationIInv'
  BY <1>2, HidePostsStep, SaveActionStep, BanAuthorStep, RestorePostsStep,
     DeletePostStep, FindAuthorStep, BanTargetStep, SetStatusStep DEF Step
<1>3. ASSUME NEW t \in Task, Drop(t) PROVE ModerationIInv'
  BY <1>3, DropStep
<1>4. ASSUME NEW u \in User, DeleteAccount(u) PROVE ModerationIInv'
  BY <1>4, DeleteAccountStep
<1>5. ASSUME NEW p \in Post, WritePost(p) PROVE ModerationIInv'
  BY <1>5, WritePostStep
<1>6. ASSUME NEW r \in Report, NEW u \in User, NEW kind \in Kinds,
             NEW target \in User \cup Post \cup {None}, CreateReport(r, u, kind, target)
      PROVE  ModerationIInv'
  BY <1>6, CreateReportStep
<1>7. ASSUME DeleteAdministrator PROVE ModerationIInv'
  BY <1>7, DeleteAdministratorStep
<1>8. ASSUME UNCHANGED vars PROVE ModerationIInv'
  <2> USE <1>8 DEF vars
  <2>1. TypeOK' /\ job' \in [Task -> Works] /\ \A p \in hidden' : OnRecord(p)'
    BY DEF ModerationIInv, TypeOK, OnRecord
  <2>2. /\ OneRow' /\ \A row \in reports' : ReportOK(row)' /\ Truth(row)'
        /\ \A s \in Task : Handles(s)'
    BY NothingDone, Kept
  <2> QED BY <2>1, <2>2 DEF ModerationIInv
<1> QED BY <1>1, <1>2, <1>3, <1>4, <1>5, <1>6, <1>7, <1>8 DEF Next

LEMMA ModerationInductive == Spec => []ModerationIInv
<1>1. Init => ModerationIInv
  BY ModerationInit
<1>2. ModerationIInv /\ [Next]_vars => ModerationIInv'
  BY ModerationSteps
<1> QED BY <1>1, <1>2, PTL DEF Spec

(***************************************************************************)
(* The rows of moderation have their types, and the references between     *)
(* them hold: the type invariant of Moderation, for any users and posts.   *)
(***************************************************************************)
THEOREM ModerationTypesHold == Spec => []TypeOK
<1>1. ModerationIInv => TypeOK
  BY DEF ModerationIInv
<1> QED BY <1>1, ModerationInductive, PTL

(***************************************************************************)
(* No post is hidden without a trace: apply_nospam hides before it saves   *)
(* the action, and what is lost in between is what was dropped there.      *)
(***************************************************************************)
THEOREM HiddenStaysOnRecord == Spec => []HiddenOnRecord
<1>1. ModerationIInv => HiddenOnRecord
  <2> DEFINE rows == UNION {saved[n] : n \in DOMAIN saved}
             saving == UNION {job[t].notes : t \in {s \in Task : pc[s] = "save"}}
  <2> SUFFICES ASSUME ModerationIInv, NEW p \in hidden
               PROVE  p \in rows \cup saving \cup reported \cup cut
    BY Zenon DEF HiddenOnRecord
  <2>1. ASSUME NEW t \in Task, pc[t] = "save", p \in job[t].notes PROVE p \in saving
    <3>1. t \in {s \in Task : pc[s] = "save"}
      BY <2>1
    <3> QED BY <2>1, <3>1
  <2>2. ASSUME NEW n \in DOMAIN saved, p \in saved[n] PROVE p \in rows
    BY <2>2
  <2>3. OnRecord(p)
    BY DEF ModerationIInv
  <2> HIDE DEF rows, saving
  <2> QED BY <2>1, <2>2, <2>3 DEF OnRecord
<1> QED BY <1>1, ModerationInductive, PTL

(***************************************************************************)
(* report_action sets the status after what it does, so that the status of *)
(* a report is never ahead of it, however many requests handle the report  *)
(* at once and wherever each of them ends; a deleted post is out of sight  *)
(* but for a rollback, and for a post written under the reported number    *)
(* later.                                                                  *)
(***************************************************************************)
THEOREM StatusIsTrue == Spec => []StatusTellsTruth
<1>1. ModerationIInv => StatusTellsTruth
  <2> SUFFICES ASSUME ModerationIInv, NEW row \in reports
               PROVE  /\ row.status = "banned" => Accused(row) \cap done[row.id] # {}
                      /\ row.status = "deleted" /\ row.kind = "wall" =>
                           /\ "delete" \in done[row.id]
                           /\ {row.target} \cap posts \subseteq hidden \cup shown \cup missed
    BY DEF StatusTellsTruth
  <2>1. Truth(row) /\ \A p \in posts : Author(p) \in accounts
    BY DEF ModerationIInv, TypeOK
  <2> QED BY <2>1 DEF Truth, Bans, Deletes, OutOfSight
<1> QED BY <1>1, ModerationInductive, PTL
===============================================================================
