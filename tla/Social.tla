------------------------------- MODULE Social -------------------------------
(***************************************************************************)
(* Likes and comments on one post of a wall, the notices they leave, and   *)
(* the cache of posts of each replica (src/modules/likes, comments,        *)
(* notifications; get_wall_post of src/modules/wall/services).  A request  *)
(* looks the post up, reads whether its user likes it, and inserts or      *)
(* deletes the like on what it read, each in a statement of its own; the   *)
(* owner is told on what the like was before and after.  A request may be  *)
(* dropped, or lose the database, at any step.                             *)
(***************************************************************************)
EXTENDS Integers, FiniteSets

CONSTANTS
  User,
  Replica,
  Request,  \* bound: each is used for one request
  Kinds,    \* what a request may be: its operation, its user, its replica
  Author,   \* who wrote the post, on a wall of his own
  None

LikeOps == {"toggle", "like", "unlike"}

ASSUME SocialAssumption ==
  /\ Kinds \subseteq [op : LikeOps \cup {"comment", "show"}, user : User, replica : Replica]
  /\ Author \in User

VARIABLES
  shown,     \* wall_posts.deleted_at IS NULL
  likes,     \* the users with a row in likes
  comments,  \* the requests that inserted a comment
  notices,   \* the requests that inserted a notification
  cached,    \* caches.posts of a replica: the comments it counts
  pc, req, found, before, after, telling,
  crossed,   \* history: requests during which another one of the same user
             \* inserted or deleted the like
  fresh,     \* history: requests during which their user's like was inserted
  crowded,   \* history: users with three requests for likes under way at once
  outdated   \* history: replicas that cached a post without a comment that
             \* was inserted since the post was read

tables == <<shown, likes, comments, notices>>
locals == <<req, found, before, after, telling>>
history == <<crossed, fresh, crowded, outdated>>
vars == <<shown, likes, comments, notices, cached, pc, req, found, before, after,
          telling, crossed, fresh, crowded, outdated>>

Ended == {"ok", "error"}
UnderWay(t) == pc[t] \notin Ended \cup {"new"}
ForLikes(t) == UnderWay(t) /\ req[t].op \in LikeOps
OfSameUser(t) == {s \in Request : UnderWay(s) /\ req[s].user = req[t].user}

Init ==
  /\ shown = TRUE /\ likes = {} /\ comments = {} /\ notices = {}
  /\ cached = [r \in Replica |-> None]
  /\ pc = [t \in Request |-> "new"]
  /\ req = [t \in Request |-> None]
  /\ found = [t \in Request |-> None]
  /\ before = [t \in Request |-> FALSE]
  /\ after = [t \in Request |-> FALSE]
  /\ telling = [t \in Request |-> FALSE]
  /\ crossed = {} /\ fresh = {} /\ crowded = {} /\ outdated = {}

Goto(t, label) == pc' = [pc EXCEPT ![t] = label]
Liked(t) == req[t].user \in likes

-----------------------------------------------------------------------------
Begin(t) ==
  /\ pc[t] = "new"
  /\ \E k \in Kinds :
       /\ req' = [req EXCEPT ![t] = k]
       /\ crowded' = IF /\ k.op \in LikeOps
                        /\ \E s, s2 \in {x \in Request : ForLikes(x) /\ req[x].user = k.user} : s # s2
                     THEN crowded \cup {k.user} ELSE crowded
  /\ Goto(t, "lookup")
  /\ UNCHANGED <<tables, cached, found, before, after, telling, crossed, fresh, outdated>>

(***************************************************************************)
(* get_wall_post: ensure_target, and once more to learn whom to tell.      *)
(***************************************************************************)
AfterLookup(t) ==
  CASE telling[t] -> "notify"
    [] ~telling[t] /\ req[t].op = "show" -> "ok"
    [] ~telling[t] /\ req[t].op = "comment" -> "comment"
    [] ~telling[t] /\ req[t].op \in LikeOps -> "before"

Lookup(t) ==
  /\ pc[t] = "lookup"
  /\ Goto(t, IF cached[req[t].replica] = None THEN "read" ELSE AfterLookup(t))
  /\ UNCHANGED <<tables, cached, locals, history>>

ReadPost(t) ==
  /\ pc[t] = "read"
  /\ IF shown THEN found' = [found EXCEPT ![t] = comments] /\ Goto(t, "fill")
     ELSE Goto(t, "error") /\ UNCHANGED found
  /\ UNCHANGED <<tables, cached, req, before, after, telling, history>>

FillPost(t) ==
  /\ pc[t] = "fill"
  /\ cached' = [cached EXCEPT ![req[t].replica] = found[t]]
  /\ outdated' = IF found[t] = comments THEN outdated \ {req[t].replica}
                 ELSE outdated \cup {req[t].replica}
  /\ found' = [found EXCEPT ![t] = None]
  /\ Goto(t, AfterLookup(t))
  /\ UNCHANGED <<tables, req, before, after, telling, crossed, fresh, crowded>>

-----------------------------------------------------------------------------
(***************************************************************************)
(* toggle and set: before, then (set) whether there is anything to do.     *)
(***************************************************************************)

(* Mistake: toggle and set do not look at what the like was before. *)
BeforeUnread(t) ==
  /\ pc[t] = "before"
  /\ Goto(t, IF req[t].op = "toggle" THEN "find" ELSE "current")
  /\ UNCHANGED <<tables, cached, locals, history>>

Before(t) ==
  /\ pc[t] = "before"
  /\ before' = [before EXCEPT ![t] = Liked(t)]
  /\ Goto(t, IF req[t].op = "toggle" THEN "find" ELSE "current")
  /\ UNCHANGED <<tables, cached, req, found, after, telling, history>>

(* Mistake: set toggles whatever the like is. *)
CurrentIgnored(t) ==
  /\ pc[t] = "current"
  /\ Goto(t, "find")
  /\ UNCHANGED <<tables, cached, locals, history>>

Current(t) ==
  /\ pc[t] = "current"
  /\ IF Liked(t) = (req[t].op = "like")
     THEN after' = [after EXCEPT ![t] = Liked(t)] /\ Goto(t, "forget")
     ELSE Goto(t, "find") /\ UNCHANGED after
  /\ UNCHANGED <<tables, cached, req, found, before, telling, history>>

Find(t) ==
  /\ pc[t] = "find"
  /\ Goto(t, IF Liked(t) THEN "delete" ELSE "insert")
  /\ UNCHANGED <<tables, cached, locals, history>>

Cross(t) == crossed' = crossed \cup (OfSameUser(t) \ {t})

Delete(t) ==
  /\ pc[t] = "delete"
  /\ likes' = likes \ {req[t].user}
  /\ IF Liked(t) THEN Cross(t) ELSE UNCHANGED crossed
  /\ Goto(t, "state")
  /\ UNCHANGED <<shown, comments, notices, cached, locals, fresh, crowded, outdated>>

(* The primary key lets one of two inserts through. *)
Insert(t) ==
  /\ pc[t] = "insert"
  /\ IF Liked(t) THEN Goto(t, "error") /\ UNCHANGED <<likes, crossed, fresh>>
     ELSE /\ likes' = likes \cup {req[t].user}
          /\ Cross(t)
          /\ fresh' = fresh \cup OfSameUser(t)
          /\ Goto(t, "state")
  /\ UNCHANGED <<shown, comments, notices, cached, locals, crowded, outdated>>

State(t) ==
  /\ pc[t] = "state"
  /\ after' = [after EXCEPT ![t] = Liked(t)]
  /\ Goto(t, "forget")
  /\ UNCHANGED <<tables, cached, req, found, before, telling, history>>

InsertComment(t) ==
  /\ pc[t] = "comment"
  /\ comments' = comments \cup {t}
  /\ Goto(t, "forget")
  /\ UNCHANGED <<shown, likes, notices, cached, locals, history>>

-----------------------------------------------------------------------------
(***************************************************************************)
(* The post leaves the cache of this replica; then whether to tell.  A     *)
(* comment knows from its lookup whom to tell, a like looks the post up    *)
(* again.                                                                  *)
(***************************************************************************)
ToTell(t) ==
  IF req[t].op = "comment" THEN Goto(t, "notify") /\ UNCHANGED telling
  ELSE IF after[t] /\ ~before[t]
       THEN Goto(t, "lookup") /\ telling' = [telling EXCEPT ![t] = TRUE]
       ELSE Goto(t, "ok") /\ UNCHANGED telling

(* Mistake: the post stays in the cache. *)
ForgetNothing(t) ==
  /\ pc[t] = "forget"
  /\ ToTell(t)
  /\ UNCHANGED <<tables, cached, req, found, before, after, history>>

(* Mistake: set tells nobody. *)
ForgetQuietly(t) ==
  /\ pc[t] = "forget"
  /\ cached' = [cached EXCEPT ![req[t].replica] = None]
  /\ IF req[t].op = "like" THEN Goto(t, "ok") /\ UNCHANGED telling ELSE ToTell(t)
  /\ UNCHANGED <<tables, req, found, before, after, history>>

Forget(t) ==
  /\ pc[t] = "forget"
  /\ cached' = [cached EXCEPT ![req[t].replica] = None]
  /\ ToTell(t)
  /\ UNCHANGED <<tables, req, found, before, after, history>>

Notify(t) ==
  /\ pc[t] = "notify"
  /\ notices' = IF req[t].user = Author THEN notices ELSE notices \cup {t}
  /\ Goto(t, "ok")
  /\ UNCHANGED <<shown, likes, comments, cached, locals, history>>

Drop(t) ==
  /\ UnderWay(t)
  /\ Goto(t, "error")
  /\ UNCHANGED <<tables, cached, locals, history>>

(***************************************************************************)
(* An administrator deletes the post or takes the deletion back, and no    *)
(* cache hears of it; an entry of a cache reaches its age.                 *)
(***************************************************************************)
SetDeleted ==
  /\ shown' = ~shown
  /\ UNCHANGED <<likes, comments, notices, cached, pc, locals, history>>

Expire(r) ==
  /\ cached[r] # None
  /\ cached' = [cached EXCEPT ![r] = None]
  /\ UNCHANGED <<tables, pc, locals, history>>

Step(t) ==
  \/ Begin(t) \/ Lookup(t) \/ ReadPost(t) \/ FillPost(t)
  \/ Before(t) \/ Current(t) \/ Find(t) \/ Delete(t) \/ Insert(t) \/ State(t)
  \/ InsertComment(t) \/ Forget(t) \/ Notify(t) \/ Drop(t)

Next == (\E t \in Request : Step(t)) \/ SetDeleted \/ (\E r \in Replica : Expire(r))

Spec == Init /\ [][Next]_vars

-----------------------------------------------------------------------------
TypeOK ==
  /\ shown \in BOOLEAN /\ likes \subseteq User
  /\ comments \subseteq Request /\ notices \subseteq Request
  /\ cached \in [Replica -> {None} \cup SUBSET Request]
  /\ pc \in [Request -> Ended \cup {"new", "lookup", "read", "fill", "before", "current",
                "find", "delete", "insert", "state", "comment", "forget", "notify"}]
  /\ \A t \in Request : pc[t] = "new" \/ req[t] \in Kinds
  /\ \A t \in Request : pc[t] = "fill" => found[t] # None
  /\ before \in [Request -> BOOLEAN] /\ after \in [Request -> BOOLEAN]
  /\ telling \in [Request -> BOOLEAN]
  /\ crossed \subseteq Request /\ fresh \subseteq Request
  /\ crowded \subseteq User /\ outdated \subseteq Replica

Answered(t) == pc[t] \in {"forget", "notify"} /\ pc'[t] = "ok"
Asked(t) == CASE req[t].op = "toggle" -> ~before[t]
              [] req[t].op = "like" -> TRUE
              [] req[t].op = "unlike" -> FALSE

(***************************************************************************)
(* A request for a like that is answered leaves the like as it was asked   *)
(* for, unless another request of its user changed it meanwhile: no order  *)
(* of reads and writes of other users, and no lookup, turns it around.     *)
(***************************************************************************)
AnswersHold ==
  [][\A t \in Request :
       Answered(t) /\ req[t].op \in LikeOps /\ t \notin crossed => Liked(t)' = Asked(t)]_vars

(***************************************************************************)
(* The owner is told of a like only by a request during which it was made, *)
(* by this request or by another one of the same user; to like again what  *)
(* is liked tells nobody.                                                  *)
(***************************************************************************)
NoticesAreOfNewLikes ==
  \A t \in notices : req[t].op \in LikeOps => t \in fresh

AtRest(u) == \A t \in Request : UnderWay(t) => req[t].user # u
SentBy(u) == {t \in Request : pc[t] # "new" /\ req[t].user = u /\ req[t].op \in LikeOps}

(***************************************************************************)
(* A like that stands has been told to the owner of the post, unless a     *)
(* request of this user failed or three of them were under way at once: of *)
(* three, the first may see its like deleted by the second, and the third  *)
(* have read "before" while it was there.                                  *)
(***************************************************************************)
LikesAreTold ==
  \A u \in likes \ {Author} :
    AtRest(u) => \/ SentBy(u) \cap notices # {}
                 \/ u \in crowded
                 \/ \E t \in SentBy(u) : pc[t] = "error"

(***************************************************************************)
(* A replica's post counts the comments the replica itself has answered,   *)
(* however late its lookups fill the cache; unless one of them had read    *)
(* the post before the comment came.                                       *)
(***************************************************************************)
OwnCommentsCounted ==
  \A t \in comments :
    LET r == req[t].replica
    IN pc[t] = "ok" /\ cached[r] # None => t \in cached[r] \/ r \in outdated
=============================================================================
