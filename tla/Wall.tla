-------------------------------- MODULE Wall --------------------------------
(***************************************************************************)
(* Walls and the numbers of their posts (src/modules/wall), beside the     *)
(* seed that every start of a replica runs (src/db/seed.rs), moderation,   *)
(* which hides and shows posts, and accounts that are deleted with all     *)
(* their posts.                                                            *)
(*                                                                         *)
(* A post is written in one transaction, which locks the row of the wall   *)
(* while it counts wall_seq up; the seed issues autocommitted statements.  *)
(* id1 and anna, who own two of the walls and, as "Owner", write some of   *)
(* the seed's posts, keep their accounts here.                             *)
(***************************************************************************)
EXTENDS Integers, FiniteSets

CONSTANTS
  Ivan, Anna, Club,   \* the walls the seed fills: of id1, of anna, of the club
  Owner,              \* the account of a wall's owner
  Guest, Pavel,       \* accounts that may be deleted, the seed's among them
  Taker,              \* accounts that may take up pavel's e-mail address
  Replica, Task,
  WriteTo,            \* the walls clients write to
  MaxSeq,             \* bound: posts of a wall
  MaxStops,           \* bound: how often replicas stop
  None

Walls == {Ivan, Anna, Club}

ASSUME WallAssumption ==
  /\ Ivan # Anna /\ Ivan # Club /\ Anna # Club
  /\ Pavel \in Guest /\ Owner \notin Guest /\ None \notin Guest \cup {Owner}
  /\ Taker \subseteq (Guest \ {Pavel}) \cup {Owner}
  /\ WriteTo \subseteq Walls
  /\ MaxSeq \in Nat /\ MaxSeq >= 2 /\ MaxStops \in Nat

VARIABLES
  guests,   \* the guests who have a row in users
  address,  \* the account, not pavel's, that has pavel's e-mail address, or None
  lost,     \* starts whose pavel has gone since they looked up the id
  seq,      \* seq[w]: wall_seq of the user or group
  posts,    \* table wall_posts
  pc,       \* pc[t]: the next statement of the write t
  job,      \* job[t]: the wall and the author of the write t
  got,      \* got[t]: the local id t was given
  boot,     \* boot[s]: the next step of the start of replica s
  stops,    \* how often a replica stopped
  torn,     \* history: walls whose seed was cut off before it set wall_seq
  issued    \* history: issued[w]: the local ids of all posts w ever had

writers == <<pc, job, got>>
vars == <<guests, address, lost, seq, posts, pc, job, got, boot, stops, torn, issued>>

Author == Guest \cup {Owner}
Post == [wall : Walls, id : 1 .. MaxSeq, author : Author, hidden : BOOLEAN]
Job == [wall : WriteTo, author : Author]

Visible(w) == {p \in posts : p.wall = w /\ ~p.hidden}
Taken(w, n) == \E p \in posts : p.wall = w /\ p.id = n
Note(w, n, a) == [wall |-> w, id |-> n, author |-> a, hidden |-> FALSE]

(***************************************************************************)
(* Transactions that hold the row of wall w, and those whose insert keeps  *)
(* the row of account a or the number n of w until they end.               *)
(***************************************************************************)
Holding(w) == {t \in Task : pc[t] \in {"insert", "commit"} /\ job[t].wall = w}
Citing(a) == {t \in Task : pc[t] = "commit" /\ job[t].author = a}
Claiming(w, n) ==
  {t \in Task : pc[t] = "commit" /\ job[t].wall = w /\ got[t] = n}

Init ==
  /\ guests \in SUBSET (Guest \ {Pavel})
  /\ address = None
  /\ lost = {}
  /\ seq = [w \in Walls |-> 0]
  /\ posts = {}
  /\ pc = [t \in Task |-> "idle"]
  /\ job = [t \in Task |-> None]
  /\ got = [t \in Task |-> 0]
  /\ boot = [s \in Replica |-> "down"]
  /\ stops = 0
  /\ torn = {}
  /\ issued = [w \in Walls |-> {}]

-----------------------------------------------------------------------------
(***************************************************************************)
(* A client writes on a wall.                                              *)
(***************************************************************************)
Serving == \E s \in Replica : boot[s] = "up"
Goto(t, label) == pc' = [pc EXCEPT ![t] = label]

End(t) ==
  /\ Goto(t, "idle")
  /\ job' = [job EXCEPT ![t] = None]
  /\ got' = [got EXCEPT ![t] = 0]

Begin(t, j) ==
  /\ pc[t] = "idle"
  /\ Serving
  /\ j.author \in guests \cup {Owner}
  /\ job' = [job EXCEPT ![t] = j]
  /\ Goto(t, "bump")
  /\ UNCHANGED <<guests, address, lost, seq, posts, got, boot, stops, torn, issued>>

(* Mistake: wall_seq is counted up on the pool, not in the transaction. *)
BumpOutsideTransaction(t) ==
  /\ pc[t] = "bump"
  /\ Holding(job[t].wall) = {}
  /\ seq[job[t].wall] < MaxSeq
  /\ got' = [got EXCEPT ![t] = seq[job[t].wall] + 1]
  /\ seq' = [seq EXCEPT ![job[t].wall] = @ + 1]
  /\ Goto(t, "insert")
  /\ UNCHANGED <<guests, address, lost, posts, job, boot, stops, torn, issued>>

(***************************************************************************)
(* UPDATE ... SET wall_seq = wall_seq + 1 ... RETURNING wall_seq.          *)
(***************************************************************************)
Bump(t) ==
  /\ pc[t] = "bump"
  /\ Holding(job[t].wall) = {}
  /\ seq[job[t].wall] < MaxSeq
  /\ got' = [got EXCEPT ![t] = seq[job[t].wall] + 1]
  /\ Goto(t, "insert")
  /\ UNCHANGED <<guests, address, lost, seq, posts, job, boot, stops, torn, issued>>

(***************************************************************************)
(* INSERT INTO wall_posts, refused for a number that is taken or an author *)
(* without a row; the transaction is then rolled back.                     *)
(***************************************************************************)
Insert(t) ==
  LET possible == /\ job[t].author \in guests \cup {Owner}
                  /\ ~Taken(job[t].wall, got[t])
  IN /\ pc[t] = "insert"
     /\ IF possible THEN Goto(t, "commit") /\ UNCHANGED <<job, got>> ELSE End(t)
     /\ UNCHANGED <<guests, address, lost, seq, posts, boot, stops, torn, issued>>

(* Mistake: the post is committed, wall_seq is not. *)
CommitPostOnly(t) ==
  LET w == job[t].wall
  IN /\ pc[t] = "commit"
     /\ posts' = posts \cup {Note(w, got[t], job[t].author)}
     /\ issued' = [issued EXCEPT ![w] = @ \cup {got[t]}]
     /\ End(t)
     /\ UNCHANGED <<guests, address, lost, seq, boot, stops, torn>>

Commit(t) ==
  LET w == job[t].wall
  IN /\ pc[t] = "commit"
     /\ posts' = posts \cup {Note(w, got[t], job[t].author)}
     /\ seq' = [seq EXCEPT ![w] = got[t]]
     /\ issued' = [issued EXCEPT ![w] = @ \cup {got[t]}]
     /\ End(t)
     /\ UNCHANGED <<guests, address, lost, boot, stops, torn>>

Drop(t) ==
  /\ pc[t] # "idle"
  /\ End(t)
  /\ UNCHANGED <<guests, address, lost, seq, posts, boot, stops, torn, issued>>

Write(t) == Bump(t) \/ Insert(t) \/ Commit(t)

-----------------------------------------------------------------------------
(***************************************************************************)
(* A replica starts: the seed, statement by statement.  A statement that   *)
(* fails ends the process, and the restart policy starts it again.  Until  *)
(* the notes are inserted a start uses the id of pavel it looked up.       *)
(***************************************************************************)
Using == {"join", "count", "insertNotes"}

Proceed(s, label) ==
  /\ boot' = [boot EXCEPT ![s] = label]
  /\ lost' = IF label \in Using THEN lost ELSE lost \ {s}

(***************************************************************************)
(* Pavel's row is made if there is none with his login, then his id is     *)
(* looked up.  ON CONFLICT (login) does not help against an account that   *)
(* has taken his e-mail address or screen name: the unique index refuses   *)
(* the row, and such a start ends as "down" as before.                     *)
(***************************************************************************)
EnsureUsers(s) ==
  /\ boot[s] = "down"
  /\ \/ /\ Pavel \in guests \/ address = None
        /\ guests' = guests \cup {Pavel}
        /\ Proceed(s, "join")
     \/ /\ Pavel \notin guests /\ address # None
        /\ UNCHANGED <<guests, lost, boot>>
  /\ UNCHANGED <<address, seq, posts, writers, stops, torn, issued>>

(***************************************************************************)
(* Friendships, profiles and the members of the club refer to that id.     *)
(***************************************************************************)
JoinClub(s) ==
  /\ boot[s] = "join"
  /\ Proceed(s, IF s \in lost THEN "down" ELSE "count")
  /\ UNCHANGED <<guests, address, seq, posts, writers, stops, torn, issued>>

(* Mistake: the notes are inserted on every start. *)
InsertAlways(s) ==
  /\ boot[s] = "count"
  /\ Proceed(s, "insertNotes")
  /\ UNCHANGED <<guests, address, seq, posts, writers, stops, torn, issued>>

CountPosts(s) ==
  /\ boot[s] = "count"
  /\ Proceed(s, IF posts = {} THEN "insertNotes" ELSE "countClub")
  /\ UNCHANGED <<guests, address, seq, posts, writers, stops, torn, issued>>

(***************************************************************************)
(* An INSERT of the seed waits for writes that claim one of its numbers    *)
(* and fails when one is taken, or its pavel has gone.                     *)
(***************************************************************************)
InsertOrFail(s, notes, next) ==
  LET possible == \A p \in notes : /\ ~Taken(p.wall, p.id)
                                   /\ p.author \in guests \cup {Owner}
                                   /\ p.author = Pavel => s \notin lost
  IN /\ \A p \in notes : Claiming(p.wall, p.id) = {}
     /\ \/ /\ possible
           /\ posts' = posts \cup notes
           /\ issued' = [w \in Walls |->
                           issued[w] \cup {p.id : p \in {q \in notes : q.wall = w}}]
           /\ Proceed(s, next)
        \/ /\ ~possible
           /\ Proceed(s, "down")
           /\ UNCHANGED <<posts, issued>>
     /\ UNCHANGED <<guests, address, seq, writers, stops, torn>>

InsertNotes(s) ==
  /\ boot[s] = "insertNotes"
  /\ InsertOrFail(s, {Note(Ivan, 1, Owner), Note(Ivan, 2, Pavel),
                      Note(Anna, 1, Owner)}, "setSeq")

Raise(w, n) == IF seq[w] < n THEN n ELSE seq[w]

SetSeq(s) ==
  /\ boot[s] = "setSeq"
  /\ Holding(Ivan) = {}
  /\ seq' = [seq EXCEPT ![Ivan] = 2]
  /\ Proceed(s, "raiseSeq")
  /\ UNCHANGED <<guests, address, posts, writers, stops, torn, issued>>

RaiseSeq(s) ==
  /\ boot[s] = "raiseSeq"
  /\ Holding(Anna) = {}
  /\ seq' = [seq EXCEPT ![Anna] = Raise(Anna, 1)]
  /\ Proceed(s, "countClub")
  /\ UNCHANGED <<guests, address, posts, writers, stops, torn, issued>>

(***************************************************************************)
(* The posts of the club are counted without the hidden ones.              *)
(***************************************************************************)
CountClub(s) ==
  /\ boot[s] = "countClub"
  /\ Proceed(s, IF Visible(Club) = {} THEN "insertClub" ELSE "up")
  /\ UNCHANGED <<guests, address, seq, posts, writers, stops, torn, issued>>

InsertClub(s) ==
  /\ boot[s] = "insertClub"
  /\ InsertOrFail(s, {Note(Club, 1, Owner)}, "raiseClubSeq")

RaiseClubSeq(s) ==
  /\ boot[s] = "raiseClubSeq"
  /\ Holding(Club) = {}
  /\ seq' = [seq EXCEPT ![Club] = Raise(Club, 1)]
  /\ Proceed(s, "up")
  /\ UNCHANGED <<guests, address, posts, writers, stops, torn, issued>>

Seed(s) ==
  \/ EnsureUsers(s) \/ JoinClub(s) \/ CountPosts(s) \/ InsertNotes(s) \/ SetSeq(s)
  \/ RaiseSeq(s) \/ CountClub(s) \/ InsertClub(s) \/ RaiseClubSeq(s)

(***************************************************************************)
(* The walls a start still owes their wall_seq.                            *)
(***************************************************************************)
Owed(label) ==
  CASE label = "setSeq" -> {Ivan, Anna}
    [] label = "raiseSeq" -> {Anna}
    [] label = "raiseClubSeq" -> {Club}
    [] OTHER -> {}

(***************************************************************************)
(* A replica is stopped or dies.                                           *)
(***************************************************************************)
Stop(s) ==
  /\ boot[s] # "down"
  /\ stops < MaxStops
  /\ stops' = stops + 1
  /\ torn' = torn \cup Owed(boot[s])
  /\ Proceed(s, "down")
  /\ UNCHANGED <<guests, address, seq, posts, writers, issued>>

-----------------------------------------------------------------------------
(***************************************************************************)
(* delete_posts and restore_posts of moderation, for any set of posts.     *)
(***************************************************************************)
SetHidden(set, flag) ==
  /\ posts' = {IF p \in set THEN [p EXCEPT !.hidden = flag] ELSE p : p \in posts}
  /\ UNCHANGED <<guests, address, lost, seq, writers, boot, stops, torn, issued>>

Moderate ==
  /\ Serving
  /\ \E p \in posts, flag \in BOOLEAN : p.hidden # flag /\ SetHidden({p}, flag)

Register(a) ==
  /\ Serving
  /\ a \notin guests
  /\ guests' = guests \cup {a}
  /\ UNCHANGED <<address, lost, seq, posts, writers, boot, stops, torn, issued>>

(***************************************************************************)
(* An account takes up the e-mail address, or the screen name, of the      *)
(* seed's pavel, which he gave up or left behind, or changes to another    *)
(* one; either is unique.                                                  *)
(***************************************************************************)
ChangeAddress(a) ==
  /\ Serving
  /\ a \in guests \cup {Owner}
  /\ \/ address = None /\ address' = a
     \/ address = a /\ address' = None
  /\ UNCHANGED <<guests, lost, seq, posts, writers, boot, stops, torn, issued>>

(***************************************************************************)
(* Deleting an account removes the posts it wrote, on any wall, and leaves *)
(* starts that use pavel's id with one that has no row.                    *)
(***************************************************************************)
DeleteAccount(a) ==
  /\ Serving
  /\ a \in guests
  /\ Citing(a) = {}
  /\ guests' = guests \ {a}
  /\ address' = IF address = a THEN None ELSE address
  /\ lost' = IF a = Pavel THEN lost \cup {s \in Replica : boot[s] \in Using} ELSE lost
  /\ posts' = {p \in posts : p.author # a}
  /\ UNCHANGED <<seq, writers, boot, stops, torn, issued>>

Next ==
  \/ \E t \in Task : \E j \in Job : Begin(t, j)
  \/ \E t \in Task : Write(t) \/ Drop(t)
  \/ \E s \in Replica : Seed(s) \/ Stop(s)
  \/ Moderate
  \/ \E a \in Guest : Register(a) \/ DeleteAccount(a)
  \/ \E a \in Taker : ChangeAddress(a)

Spec == Init /\ [][Next]_vars

(***************************************************************************)
(* A process that is down is started again, one that runs goes on, and     *)
(* Postgres completes what it was asked for.  A statement that waits for a *)
(* row has its turn among those who ask for it (Postgres queues waiters),  *)
(* hence the strong fairness.                                              *)
(***************************************************************************)
Fairness ==
  /\ \A s \in Replica : SF_vars(Seed(s))
  /\ \A t \in Task : WF_vars(Write(t))

FairSpec == Spec /\ Fairness

-----------------------------------------------------------------------------
TypeOK ==
  /\ guests \in SUBSET Guest
  /\ address \in Taker \cup {None}
  /\ lost \in SUBSET Replica
  /\ seq \in [Walls -> 0 .. MaxSeq]
  /\ posts \in SUBSET Post
  /\ pc \in [Task -> {"idle", "bump", "insert", "commit"}]
  /\ job \in [Task -> Job \cup {None}]
  /\ got \in [Task -> 0 .. MaxSeq]
  /\ boot \in [Replica -> {"down", "join", "count", "insertNotes", "setSeq",
                           "raiseSeq", "countClub", "insertClub", "raiseClubSeq", "up"}]
  /\ stops \in 0 .. MaxStops
  /\ torn \in SUBSET Walls
  /\ issued \in [Walls -> SUBSET (1 .. MaxSeq)]
  /\ \A t \in Task : pc[t] # "idle" => job[t] \in Job
  /\ \A p \in posts : p.author \in guests \cup {Owner}

(***************************************************************************)
(* The numbers of a wall are sequential: the posts it ever had were given  *)
(* 1 .. wall_seq, without a gap for a write that failed and without one    *)
(* beyond wall_seq (which the next write would run into), however writes,  *)
(* starts, moderation and deletions interleave.  The exceptions are named: *)
(* a start that has yet to set wall_seq, or was stopped before it did.     *)
(***************************************************************************)
Unsettled == torn \cup UNION {Owed(boot[s]) : s \in Replica}

SequentialIds ==
  \A w \in Walls :
    /\ 1 .. seq[w] \subseteq issued[w]
    /\ w \notin Unsettled => issued[w] \subseteq 1 .. seq[w]

(***************************************************************************)
(* A permalink /wall{owner}_{local} names one post for ever: the number of *)
(* a post that appears was never given before, nor is it less than that of *)
(* any post its wall ever had, so comments and likes, which refer to posts *)
(* by these numbers, never reach another post.                             *)
(***************************************************************************)
PermalinksNameOnePost ==
  [][ \A p \in Post :
        p \in posts' /\ ~Taken(p.wall, p.id) =>
          \A n \in issued[p.wall] : n < p.id ]_vars

(***************************************************************************)
(* The number a write has drawn is free when it inserts the post, so that  *)
(* none is refused by the unique index and answered with an error, however *)
(* many write at once; but on a wall a start has yet to set wall_seq of,   *)
(* or was cut off before it did.                                           *)
(***************************************************************************)
WritesFindRoom ==
  \A t \in Task : pc[t] = "insert" /\ Taken(job[t].wall, got[t]) => job[t].wall \in Unsettled

(***************************************************************************)
(* A wall whose start was cut off between the INSERT of its first notes    *)
(* and the UPDATE of wall_seq is never written to again: the count stays   *)
(* at 0, every write draws the number 1, which a note has, and no later    *)
(* start sets the count, since it finds the notes there.                   *)
(***************************************************************************)
TornWallsAreShut ==
  [][ \A w \in torn : issued'[w] = issued[w] /\ seq'[w] = seq[w] ]_vars

(***************************************************************************)
(* Counting up, inserting and committing, the seed and moderation are, to  *)
(* whoever follows permalinks, a counter for each wall whose next number   *)
(* each post takes as it appears: whether a start has yet to set wall_seq, *)
(* was cut off before it did, or two of them run beside the writes.        *)
(***************************************************************************)
T == INSTANCE Timeline WITH given <- [w \in Walls |-> Cardinality(issued[w])]
ImplementsTimeline == T!Spec

(***************************************************************************)
(* "The API exits [...] and the restart policy brings it back."            *)
(***************************************************************************)
RestartBringsBack == \A s \in Replica : boot[s] = "down" ~> boot[s] = "up"

(***************************************************************************)
(* Every start ends up serving, also when several replicas start at once   *)
(* on an empty database and trip over each other's inserts.  Three things  *)
(* are asked of users: moderation leaves the club's wall a visible post,   *)
(* nobody has pavel's e-mail address or screen name while pavel has no     *)
(* account (no start gets past either), and pavel does not delete his      *)
(* account over and over (each deletion may cost the starts under way one  *)
(* attempt).                                                               *)
(***************************************************************************)
ClubKept == Taken(Club, 1) => Visible(Club) # {}
AddressKept == Pavel \in guests \/ address = None
PavelStays == Pavel \in guests => Pavel \in guests'

StartsServe ==
  [](ClubKept /\ AddressKept) /\ <>[][PavelStays]_vars => RestartBringsBack
=============================================================================
