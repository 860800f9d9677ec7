----------------------------- MODULE Moderation -----------------------------
(***************************************************************************)
(* Moderation by the desk (src/modules/desk): reports and what is done     *)
(* about them, noSpam, which hides the posts a search finds and may ban    *)
(* their authors, and its rollback.  That a user is banned is noted, for   *)
(* the report it is done for; how bans are kept and end is in              *)
(* ProfileCache.                                                           *)
(*                                                                         *)
(* None of this uses a transaction: each statement commits on its own, and *)
(* a request may fail or be dropped between any two.  An action is one     *)
(* statement; the checks of role and form before the first are left out.   *)
(***************************************************************************)
EXTENDS Naturals, Sequences

CONSTANTS
  User,       \* accounts that can be banned
  Twin,       \* Twin[p]: the user whose id is the number of post p, or None
  Writer,     \* bound: the users that write posts
  Note,       \* bound: posts of a writer, one for each
  Report,     \* ids of reports
  Task,       \* requests that run at once
  MaxActions, \* bound: runs of noSpam that hide posts
  None

Post == Writer \X Note    \* a post, with its author
Author(p) == p[1]

ASSUME ModerationAssumption ==
  /\ MaxActions \in Nat /\ Writer \subseteq User
  /\ Twin \in [Post -> User \cup {None}]
  /\ None \notin User /\ "delete" \notin User
  /\ \A what \in SUBSET ({"delete"} \cup User) : None # what

VARIABLES
  accounts,   \* the users that have a row
  posts,      \* rows of wall_posts
  hidden,     \* the posts with deleted_at
  reports,    \* rows of reports
  saved,      \* rows of nospam_actions: the posts each hid
  pc, job,    \* the next statement of a request, and what it works on
  cut,        \* history: hidden posts of a noSpam that is not saved (any more)
  reported,   \* history: hidden posts that a report deleted
  shown,      \* history: posts in sight that a rollback showed
  missed,     \* history: posts that were not there when a report deleted them last
  done        \* history: done[r]: "delete" and the users banned, as done for report
              \* r, None before it is made

content == <<posts, hidden, saved>>
tasks == <<pc, job>>
history == <<cut, reported, shown, missed, done>>
vars == <<accounts, posts, hidden, reports, saved, pc, job,
          cut, reported, shown, missed, done>>

Kinds == {"user", "wall", "comment"}   \* photo, video and club are as comment
Status == {"open", "closed", "deleted", "banned"}
Idle == [op |-> None, notes |-> {}, users |-> {}, report |-> None]

Init ==
  /\ accounts = User
  /\ posts = {} /\ hidden = {} /\ reports = {} /\ saved = <<>>
  /\ pc = [t \in Task |-> "idle"] /\ job = [t \in Task |-> Idle]
  /\ cut = {} /\ reported = {} /\ shown = {} /\ missed = {}
  /\ done = [r \in Report |-> None]

Goto(t, label) == pc' = [pc EXCEPT ![t] = label]
End(t) == Goto(t, "idle") /\ job' = [job EXCEPT ![t] = Idle]
Start(t, label, fields) ==
  pc[t] = "idle" /\ Goto(t, label) /\ job' = [job EXCEPT ![t] = fields]

-----------------------------------------------------------------------------
(***************************************************************************)
(* Outside of moderation: posts and reports are written, and accounts go,  *)
(* with their posts and reports.  A report that names the wall as well as  *)
(* the post is made if the post is there; otherwise the number is taken as *)
(* it comes, and there may be no such post, or not yet.                    *)
(***************************************************************************)
WritePost(p) ==
  /\ Author(p) \in accounts
  /\ posts' = posts \cup {p}
  /\ UNCHANGED <<accounts, hidden, reports, saved, tasks, history>>

CreateReport(r, u, kind, target) ==
  /\ u \in accounts
  /\ done[r] = None
  /\ done' = [done EXCEPT ![r] = {}]
  /\ \/ kind = "user" /\ target \in User
     \/ kind = "wall" /\ target \in Post
     \/ kind = "comment" /\ target = None
  /\ reports' = reports \cup {[id |-> r, author |-> u, kind |-> kind,
                               target |-> target, status |-> "open"]}
  /\ UNCHANGED <<accounts, content, tasks, cut, reported, shown, missed>>

DeleteAccount(u) ==
  /\ u \in accounts
  /\ accounts' = accounts \ {u}
  /\ posts' = {p \in posts : Author(p) # u}
  /\ hidden' = {p \in hidden : Author(p) # u}
  /\ shown' = {p \in shown : Author(p) # u}
  /\ reports' = {row \in reports : row.author # u}
  /\ UNCHANGED <<saved, tasks, cut, reported, missed, done>>

(* The noSpam actions of an administrator go with the account. *)
DeleteAdministrator ==
  /\ saved # <<>>
  /\ saved' = <<>>
  /\ cut' = cut \cup (hidden \cap UNION {saved[n] : n \in DOMAIN saved})
  /\ UNCHANGED <<accounts, posts, hidden, reports, tasks, reported, shown, missed, done>>

-----------------------------------------------------------------------------
(***************************************************************************)
(* noSpam: search, hide, save, and ban the authors one by one, up to the   *)
(* first that has no row any more.                                         *)
(***************************************************************************)
SearchWall(t, found, banAuthors) ==
  /\ found # {} /\ found \subseteq posts \ hidden
  /\ Len(saved) < MaxActions
  /\ Start(t, "hide", [Idle EXCEPT !.op = "nospam", !.notes = found,
                         !.users = IF banAuthors THEN {Author(p) : p \in found} ELSE {}])
  /\ UNCHANGED <<accounts, content, reports, history>>

HidePosts(t) ==
  /\ pc[t] = "hide"
  /\ hidden' = hidden \cup (job[t].notes \cap posts)
  /\ shown' = shown \ job[t].notes
  /\ Goto(t, "save")
  /\ UNCHANGED <<accounts, posts, reports, saved, job, cut, reported, missed, done>>

(* Mistake: the action is saved only when authors are banned too. *)
SaveActionWithBans(t) ==
  /\ pc[t] = "save"
  /\ saved' = IF job[t].users = {} THEN saved ELSE Append(saved, job[t].notes)
  /\ Goto(t, "banAuthor")
  /\ UNCHANGED <<accounts, posts, hidden, reports, job, history>>

SaveAction(t) ==
  /\ pc[t] = "save"
  /\ Len(saved) < MaxActions
  /\ saved' = Append(saved, job[t].notes)
  /\ Goto(t, "banAuthor")
  /\ UNCHANGED <<accounts, posts, hidden, reports, job, history>>

BanAuthor(t) ==
  /\ pc[t] = "banAuthor"
  /\ \/ job[t].users = {} /\ End(t)
     \/ \E u \in job[t].users :
          \/ /\ u \in accounts
             /\ job' = [job EXCEPT ![t].users = @ \ {u}]
             /\ UNCHANGED pc
          \/ u \notin accounts /\ End(t)
  /\ UNCHANGED <<accounts, content, reports, history>>

(***************************************************************************)
(* Rollback shows the posts of the action again; the action stays and may  *)
(* be rolled back any number of times.                                     *)
(***************************************************************************)
ReadAction(t, n) ==
  /\ n \in DOMAIN saved
  /\ Start(t, "restore", [Idle EXCEPT !.op = "rollback", !.notes = saved[n]])
  /\ UNCHANGED <<accounts, content, reports, history>>

RestorePosts(t) ==
  /\ pc[t] = "restore"
  /\ hidden' = hidden \ job[t].notes
  /\ cut' = cut \ job[t].notes
  /\ reported' = reported \ job[t].notes
  /\ shown' = shown \cup (job[t].notes \cap posts)
  /\ End(t)
  /\ UNCHANGED <<accounts, posts, reports, saved, missed, done>>

-----------------------------------------------------------------------------
(***************************************************************************)
(* A report is ignored or closed, its post deleted, or somebody banned:    *)
(* the user reported, the author of the post reported and, for any other   *)
(* kind of report, the author of the report.  A report that is not about a *)
(* post deletes nothing.  The status is set last.                          *)
(***************************************************************************)
BeginReport(t, row, action) ==
  /\ row \in reports
  /\ Start(t,
           CASE action = "close" -> "status"
             [] action = "delete" -> IF row.kind = "wall" THEN "deletePost" ELSE "status"
             [] action = "ban" -> IF row.kind = "wall" THEN "findAuthor" ELSE "banTarget",
           [op |-> action, report |-> row.id,
            notes |-> IF row.kind = "wall" THEN {row.target} ELSE {},
            users |-> CASE row.kind = "user" -> {row.target}
                        [] row.kind = "comment" -> {row.author}
                        [] OTHER -> {}])
  /\ UNCHANGED <<accounts, content, reports, history>>

Act(t, what) == done' = [done EXCEPT ![job[t].report] = @ \cup {what}]

DeletePost(t) ==
  /\ pc[t] = "deletePost"
  /\ hidden' = hidden \cup (job[t].notes \cap posts)
  /\ reported' = reported \cup (job[t].notes \cap posts)
  /\ missed' = (missed \cup (job[t].notes \ posts)) \ (job[t].notes \cap posts)
  /\ shown' = shown \ job[t].notes
  /\ Act(t, "delete")
  /\ Goto(t, "status")
  /\ UNCHANGED <<accounts, posts, reports, saved, job, cut>>

(***************************************************************************)
(* wall_author; if there is no row, or the query fails, the id of the post *)
(* is taken for a user's.                                                  *)
(***************************************************************************)
FindAuthor(t) ==
  /\ pc[t] = "findAuthor"
  /\ \/ /\ job[t].notes \subseteq posts
        /\ job' = [job EXCEPT ![t].users = {Author(p) : p \in job[t].notes}]
     \/ job' = [job EXCEPT ![t].users = {Twin[p] : p \in job[t].notes} \cap User]
  /\ Goto(t, "banTarget")
  /\ UNCHANGED <<accounts, content, reports, history>>

(* Mistake: a user without a row is not noticed. *)
BanTargetOrNobody(t) ==
  /\ pc[t] = "banTarget"
  /\ \/ \E u \in job[t].users \cap accounts : Act(t, u)
     \/ job[t].users \cap accounts = {} /\ UNCHANGED done
  /\ Goto(t, "status")
  /\ UNCHANGED <<accounts, content, reports, job, cut, reported, shown, missed>>

BanTarget(t) ==
  /\ pc[t] = "banTarget"
  /\ \/ /\ \E u \in job[t].users \cap accounts : Act(t, u)
        /\ Goto(t, "status")
        /\ UNCHANGED job
     \/ job[t].users \cap accounts = {} /\ End(t) /\ UNCHANGED done
  /\ UNCHANGED <<accounts, content, reports, cut, reported, shown, missed>>

SetStatus(t) ==
  LET status == CASE job[t].op = "close" -> "closed"
                  [] job[t].op = "delete" -> "deleted"
                  [] job[t].op = "ban" -> "banned"
  IN /\ pc[t] = "status"
     /\ reports' = {IF row.id = job[t].report THEN [row EXCEPT !.status = status] ELSE row
                      : row \in reports}
     /\ End(t)
     /\ UNCHANGED <<accounts, content, history>>

-----------------------------------------------------------------------------
(***************************************************************************)
(* The request fails or its task is dropped.                               *)
(***************************************************************************)
Drop(t) ==
  /\ pc[t] # "idle"
  /\ cut' = IF pc[t] = "save" THEN cut \cup job[t].notes ELSE cut
  /\ End(t)
  /\ UNCHANGED <<accounts, content, reports, reported, shown, missed, done>>

Begin(t) ==
  \/ \E found \in SUBSET posts, banAuthors \in BOOLEAN : SearchWall(t, found, banAuthors)
  \/ \E n \in 1 .. MaxActions : ReadAction(t, n)
  \/ \E row \in reports, action \in {"close", "delete", "ban"} : BeginReport(t, row, action)

Step(t) ==
  \/ HidePosts(t) \/ SaveAction(t) \/ BanAuthor(t) \/ RestorePosts(t)
  \/ DeletePost(t) \/ FindAuthor(t) \/ BanTarget(t) \/ SetStatus(t)

Next ==
  \/ \E t \in Task : Begin(t) \/ Step(t) \/ Drop(t)
  \/ \E u \in User : DeleteAccount(u)
  \/ \E p \in Post : WritePost(p)
  \/ \E r \in Report, u \in User, kind \in Kinds, target \in User \cup Post \cup {None} :
       CreateReport(r, u, kind, target)
  \/ DeleteAdministrator

Spec == Init /\ [][Next]_vars

-----------------------------------------------------------------------------
Label == {"idle", "hide", "save", "banAuthor", "restore", "status",
          "deletePost", "findAuthor", "banTarget"}

(***************************************************************************)
(* The types, and what the foreign keys say.                               *)
(***************************************************************************)
TypeOK ==
  /\ accounts \in SUBSET User
  /\ posts \in SUBSET {p \in Post : Author(p) \in accounts}
  /\ hidden \in SUBSET posts
  /\ reports \in SUBSET [id : Report, author : accounts, kind : Kinds,
                         target : User \cup Post \cup {None}, status : Status]
  /\ saved \in Seq(SUBSET Post) /\ Len(saved) <= MaxActions
  /\ pc \in [Task -> Label]
  /\ \A t \in Task : job[t].notes \in SUBSET Post /\ job[t].users \in SUBSET User
  /\ cut \in SUBSET Post /\ reported \in SUBSET Post /\ shown \in SUBSET (posts \ hidden)
  /\ missed \in SUBSET Post
  /\ done \in [Report -> {None} \cup SUBSET ({"delete"} \cup User)]

(***************************************************************************)
(* Every post that moderation hid is accounted for, by a report it was     *)
(* deleted for or by a saved action that can be rolled back, or noSpam is  *)
(* about to save it, or was dropped just then, or the administrator has    *)
(* left and the action with them.                                          *)
(***************************************************************************)
HiddenOnRecord ==
  hidden \subseteq
    (UNION {saved[n] : n \in DOMAIN saved})
      \cup (UNION {job[t].notes : t \in {s \in Task : pc[s] = "save"}})
      \cup reported \cup cut

(***************************************************************************)
(* Whom a report can get banned: the user or the author of the post it is  *)
(* about, or its own author, who reported something else.  If the post     *)
(* cannot be read, the user who has its number is taken for the author.    *)
(***************************************************************************)
Accused(row) ==
  CASE row.kind = "user" -> {row.target}
    [] row.kind = "wall" -> {Author(row.target)} \cup ({Twin[row.target]} \ {None})
    [] OTHER -> {row.author}

(***************************************************************************)
(* The status of a report tells what was done about it, whatever else was  *)
(* tried on it at the same time, failed or was dropped; a post deleted for *)
(* one stays out of sight, unless an action that hid it before, or after,  *)
(* was rolled back (a rollback can be repeated, and shows what others      *)
(* hid), or the report named a number that no post had until later.        *)
(***************************************************************************)
StatusTellsTruth ==
  \A row \in reports :
    /\ row.status = "banned" => Accused(row) \cap done[row.id] # {}
    /\ row.status = "deleted" /\ row.kind = "wall" =>
         /\ "delete" \in done[row.id]
         /\ {row.target} \cap posts \subseteq hidden \cup shown \cup missed

=============================================================================
