---------------------------- MODULE ContentProofs ----------------------------
(***************************************************************************)
(* What users put on the site: the likes and comments of a post, and the   *)
(* photos, tracks and avatars of a user.  What holds of Social for any     *)
(* number of users, replicas and requests, and of Media for any number of  *)
(* uploads, albums and requests.                                           *)
(***************************************************************************)
EXTENDS Social, Media, WellFoundedInduction, TLAPS

Labels == Ended \cup {"new", "lookup", "read", "fill", "before", "current", "find",
                      "delete", "insert", "state", "comment", "forget", "notify"}

(* The part of the type invariant that concerns likes. *)
Types ==
  /\ pc \in [Request -> Labels]
  /\ req \in [Request -> Kinds \cup {None}]
  /\ \A t \in Request : pc[t] # "new" => req[t] \in Kinds
  /\ before \in [Request -> BOOLEAN] /\ after \in [Request -> BOOLEAN]
  /\ telling \in [Request -> BOOLEAN]
  /\ notices \subseteq Request /\ likes \subseteq User

(* Between the two lookups a request is for a like; it tells after them. *)
Shape(t) ==
  /\ pc[t] \in {"before", "current", "find", "delete", "insert", "state"} =>
       req[t].op \in LikeOps /\ ~telling[t]
  /\ pc[t] = "current" => req[t].op # "toggle"
  /\ pc[t] = "comment" => req[t].op = "comment"
  /\ pc[t] = "forget" => req[t].op # "show" /\ ~telling[t]
  /\ pc[t] = "notify" => req[t].op = "comment" \/ telling[t]
  /\ pc[t] = "new" => ~telling[t]
  /\ telling[t] => req[t].op \in LikeOps

(* A like that was not there "before" was made since. *)
Freshness(t) ==
  /\ pc[t] \in {"current", "find", "delete", "insert", "state"} /\ Liked(t) =>
       before[t] \/ t \in fresh
  /\ pc[t] = "forget" /\ req[t].op \in LikeOps /\ after[t] => before[t] \/ t \in fresh
  /\ telling[t] => t \in fresh
  /\ t \in notices => pc[t] = "ok" /\ (req[t].op \in LikeOps => t \in fresh)

Wrote(t) ==
  \/ pc[t] = "state"
  \/ pc[t] = "forget" /\ req[t].op \in LikeOps
  \/ telling[t] /\ UnderWay(t)

(* How far a request that no other crossed has come to what it was asked. *)
Progress(t) ==
  t \notin crossed =>
    /\ pc[t] \in {"current", "find", "delete", "insert"} => Liked(t) = before[t]
    /\ pc[t] \in {"find", "delete", "insert"} => Liked(t) = ~Asked(t)
    /\ pc[t] = "delete" => Liked(t)
    /\ pc[t] = "insert" => ~Liked(t)
    /\ Wrote(t) => Liked(t) = Asked(t)

Good(t) == Shape(t) /\ Freshness(t) /\ Progress(t)

IInv == Types /\ \A t \in Request : Good(t)

-----------------------------------------------------------------------------
LEMMA InitIInv == Init => IInv
<1> SUFFICES ASSUME Init PROVE IInv
  OBVIOUS
<1> USE DEF Init
<1>1. Types
  BY DEF Types, Labels
<1>2. ASSUME NEW t \in Request PROVE Good(t)
  BY DEF Good, Shape, Freshness, Progress, Wrote, UnderWay, Ended
<1> QED BY <1>1, <1>2 DEF IInv

LEMMA KindFacts ==
  ASSUME Types, NEW t \in Request, pc[t] # "new"
  PROVE  req[t].op \in LikeOps \cup {"comment", "show"}
  BY SocialAssumption DEF Types

LEMMA AfterLookupLabels ==
  ASSUME Types, NEW t \in Request, pc[t] # "new"
  PROVE  AfterLookup(t) \in {"notify", "ok", "comment", "before"}
  BY KindFacts DEF AfterLookup, Types

LEMMA TypesStep ==
  ASSUME Types, NEW t \in Request, Step(t)
  PROVE  Types'
<1> USE DEF Types, Labels, Ended, Goto, locals, tables
<1>1. CASE Begin(t)
  BY <1>1 DEF Begin
<1>2. CASE Lookup(t) \/ FillPost(t)
  BY <1>2, AfterLookupLabels DEF Lookup, FillPost
<1>3. CASE ReadPost(t)
  BY <1>3 DEF ReadPost
<1>4. CASE Before(t) \/ Current(t) \/ Find(t) \/ State(t)
  <2>1. Liked(t) \in BOOLEAN
    BY DEF Liked
  <2>2. CASE Before(t)
    BY <2>1, <2>2 DEF Before
  <2>3. CASE Current(t)
    BY <2>1, <2>3 DEF Current
  <2>4. CASE Find(t)
    BY <2>4 DEF Find
  <2>5. CASE State(t)
    BY <2>1, <2>5 DEF State
  <2> QED BY <1>4, <2>2, <2>3, <2>4, <2>5
<1>5. CASE Delete(t) \/ Insert(t) \/ InsertComment(t)
  <2>1. pc[t] # "new" => req[t].user \in User
    BY SocialAssumption
  <2> QED BY <1>5, <2>1 DEF Delete, Insert, InsertComment
<1>6. CASE Forget(t)
  BY <1>6 DEF Forget, ToTell
<1>7. CASE Notify(t)
  BY <1>7 DEF Notify
<1>8. CASE Drop(t)
  BY <1>8 DEF Drop, UnderWay
<1> QED BY <1>1, <1>2, <1>3, <1>4, <1>5, <1>6, <1>7, <1>8 DEF Step

-----------------------------------------------------------------------------
(***************************************************************************)
(* The steps of a request, one after another.                              *)
(***************************************************************************)
LEMMA LookingStep ==
  ASSUME IInv, NEW t \in Request,
         Begin(t) \/ Lookup(t) \/ ReadPost(t) \/ FillPost(t) \/ Drop(t)
  PROVE  Good(t)'
<1> USE DEF IInv, Types, Goto, locals, tables, history
<1>1. Good(t)
  OBVIOUS
<1>2. CASE Begin(t)
  <2>1. pc[t] = "new" /\ pc'[t] = "lookup" /\ telling'[t] = telling[t] /\ notices' = notices
    BY <1>2 DEF Begin
  <2> QED BY <1>1, <2>1 DEF Good, Shape, Freshness, Progress, Wrote
<1>3. CASE Lookup(t) \/ FillPost(t)
  <2>1. /\ pc[t] \in {"lookup", "fill"} /\ pc'[t] \in {"read", AfterLookup(t)}
        /\ UNCHANGED <<req, before, after, telling, notices, likes, fresh, crossed>>
    BY <1>3 DEF Lookup, FillPost
  <2>2. req[t].op \in LikeOps \cup {"comment", "show"} /\ telling[t] \in BOOLEAN
    BY <2>1, KindFacts
  <2>3. \/ pc'[t] = "read"
        \/ pc'[t] = "notify" /\ telling[t]
        \/ pc'[t] = "ok" /\ ~telling[t]
        \/ pc'[t] = "comment" /\ ~telling[t] /\ req[t].op = "comment"
        \/ pc'[t] = "before" /\ ~telling[t] /\ req[t].op \in LikeOps
    BY <2>1, <2>2 DEF AfterLookup
  <2>4. Shape(t)'
    BY <1>1, <2>1, <2>3 DEF Good, Shape
  <2>5. Freshness(t)'
    BY <1>1, <2>1, <2>3 DEF Good, Freshness
  <2>6. Progress(t)'
    BY <1>1, <2>1, <2>3 DEF Good, Progress, Wrote, UnderWay, Ended, Liked, Asked
  <2> QED BY <2>4, <2>5, <2>6 DEF Good
<1>4. CASE ReadPost(t) \/ Drop(t)
  <2>1. /\ UnderWay(t) /\ pc'[t] \in {"fill", "error"}
        /\ UNCHANGED <<req, before, after, telling, notices, likes, fresh, crossed>>
    BY <1>4 DEF ReadPost, Drop, UnderWay, Ended
  <2> QED BY <1>1, <2>1 DEF Good, Shape, Freshness, Progress, Wrote, UnderWay, Ended, Liked, Asked
<1> QED BY <1>2, <1>3, <1>4

LEMMA ReadingStep ==
  ASSUME IInv, NEW t \in Request, Before(t) \/ Current(t) \/ Find(t) \/ State(t)
  PROVE  Good(t)'
<1> USE DEF IInv, Types, Goto, locals, tables, history
<1>1. Good(t)
  OBVIOUS
<1>2. CASE Before(t)
  <2>1. /\ pc[t] = "before" /\ before'[t] = Liked(t)
        /\ pc'[t] = IF req[t].op = "toggle" THEN "find" ELSE "current"
        /\ UNCHANGED <<req, after, telling, notices, likes, fresh, crossed>>
    BY <1>2 DEF Before
  <2>2. Liked(t)' = Liked(t) /\ Liked(t) \in BOOLEAN /\ before'[t] \in BOOLEAN
    BY <2>1 DEF Liked
  <2>3. Shape(t)'
    BY <1>1, <2>1 DEF Good, Shape
  <2>4. Freshness(t)'
    BY <1>1, <2>1, <2>2 DEF Good, Freshness
  <2>5. Progress(t)'
    BY <1>1, <2>1, <2>2 DEF Good, Shape, Progress, Wrote, Asked
  <2> QED BY <2>3, <2>4, <2>5 DEF Good
<1>3. CASE Current(t)
  <2>1. /\ pc[t] = "current"
        /\ IF Liked(t) = (req[t].op = "like")
           THEN after'[t] = Liked(t) /\ pc'[t] = "forget"
           ELSE after'[t] = after[t] /\ pc'[t] = "find"
        /\ UNCHANGED <<req, before, telling, notices, likes, fresh, crossed>>
    BY <1>3 DEF Current
  <2> QED BY <1>1, <2>1 DEF Good, Shape, Freshness, Progress, Wrote, UnderWay, Ended, Liked, Asked, LikeOps
<1>4. CASE Find(t)
  <2>1. /\ pc[t] = "find" /\ pc'[t] = IF Liked(t) THEN "delete" ELSE "insert"
        /\ UNCHANGED <<req, before, after, telling, notices, likes, fresh, crossed>>
    BY <1>4 DEF Find
  <2> QED BY <1>1, <2>1 DEF Good, Shape, Freshness, Progress, Wrote, UnderWay, Ended, Liked, Asked
<1>5. CASE State(t)
  <2>1. /\ pc[t] = "state" /\ pc'[t] = "forget" /\ after'[t] = Liked(t)
        /\ UNCHANGED <<req, before, telling, notices, likes, fresh, crossed>>
    BY <1>5 DEF State
  <2> QED BY <1>1, <2>1 DEF Good, Shape, Freshness, Progress, Wrote, UnderWay, Ended, Liked, Asked, LikeOps
<1> QED BY <1>2, <1>3, <1>4, <1>5

LEMMA WritingStep ==
  ASSUME IInv, NEW t \in Request, Delete(t) \/ Insert(t) \/ InsertComment(t)
  PROVE  Good(t)'
<1> USE DEF IInv, Types, Goto, locals, tables, history
<1>1. Good(t)
  OBVIOUS
<1>2. CASE Delete(t)
  <2>1. /\ pc[t] = "delete" /\ pc'[t] = "state" /\ ~Liked(t)' /\ (t \in crossed' <=> t \in crossed)
        /\ UNCHANGED <<req, before, after, telling, notices, fresh>>
    BY <1>2 DEF Delete, Cross, Liked
  <2>2. Asked(t)' = Asked(t)
    BY <2>1 DEF Asked
  <2>3. t \notin crossed => Liked(t) /\ Liked(t) = ~Asked(t)
    BY <1>1, <2>1 DEF Good, Progress
  <2>4. Asked(t) \in BOOLEAN
    BY <1>1, <2>1 DEF Good, Shape, Asked, LikeOps
  <2>5. Shape(t)' /\ Freshness(t)'
    BY <1>1, <2>1 DEF Good, Shape, Freshness
  <2>6. Liked(t)' = FALSE
    BY <2>1 DEF Liked
  <2>7. Progress(t)'
    <3> SUFFICES ASSUME (t \notin crossed)' PROVE Liked(t)' = Asked(t)'
      BY <2>1 DEF Progress
    <3>1. Asked(t) = FALSE
      BY <2>1, <2>3, <2>4
    <3> QED BY <2>2, <2>6, <3>1
  <2> QED BY <2>5, <2>7 DEF Good
<1>3. CASE Insert(t)
  <2>1. /\ pc[t] = "insert" /\ UNCHANGED <<req, before, after, telling, notices>>
        /\ t \in crossed' <=> t \in crossed
        /\ \/ pc'[t] = "error" /\ UNCHANGED <<likes, fresh>>
           \/ pc'[t] = "state" /\ Liked(t)' /\ t \in fresh'
    BY <1>3 DEF Insert, Cross, Liked, OfSameUser, UnderWay, Ended
  <2> QED BY <1>1, <2>1 DEF Good, Shape, Freshness, Progress, Wrote, UnderWay, Ended, Asked, Liked
<1>4. CASE InsertComment(t)
  <2>1. /\ pc[t] = "comment" /\ pc'[t] = "forget"
        /\ UNCHANGED <<req, before, after, telling, notices, likes, fresh, crossed>>
    BY <1>4 DEF InsertComment
  <2> QED BY <1>1, <2>1 DEF Good, Shape, Freshness, Progress, Wrote, UnderWay, Ended, Asked, Liked, LikeOps
<1> QED BY <1>2, <1>3, <1>4

LEMMA TellingStep ==
  ASSUME IInv, NEW t \in Request, Forget(t) \/ Notify(t)
  PROVE  Good(t)'
<1> USE DEF IInv, Types, Goto, locals, tables, history
<1>1. Good(t) /\ (pc[t] # "new" => req[t].op \in LikeOps \cup {"comment", "show"})
  BY KindFacts
<1>2. CASE Forget(t)
  <2>1. /\ pc[t] = "forget" /\ UNCHANGED <<req, before, after, notices, likes, fresh, crossed>>
        /\ \/ pc'[t] = "notify" /\ req[t].op = "comment" /\ telling'[t] = telling[t]
           \/ pc'[t] = "lookup" /\ req[t].op # "comment" /\ after[t] /\ ~before[t] /\ telling'[t]
           \/ pc'[t] = "ok" /\ req[t].op # "comment" /\ telling'[t] = telling[t]
    BY <1>2 DEF Forget, ToTell
  <2> QED BY <1>1, <2>1 DEF Good, Shape, Freshness, Progress, Wrote, UnderWay, Ended, Asked, Liked
<1>3. CASE Notify(t)
  <2>1. /\ pc[t] = "notify" /\ pc'[t] = "ok" /\ notices' \subseteq notices \cup {t}
        /\ UNCHANGED <<req, before, after, telling, likes, fresh, crossed>>
    BY <1>3 DEF Notify
  <2> QED BY <1>1, <2>1 DEF Good, Shape, Freshness, Progress, Wrote, UnderWay, Ended, Asked, Liked, LikeOps
<1> QED BY <1>2, <1>3

-----------------------------------------------------------------------------
(* What the step of another request may do to t: only its user's requests *)
(* change the like, and they are seen in crossed and fresh.               *)
LEMMA OtherStep ==
  ASSUME IInv, NEW s \in Request, Step(s), NEW t \in Request, t # s
  PROVE  /\ pc'[t] = pc[t] /\ req'[t] = req[t] /\ before'[t] = before[t]
         /\ after'[t] = after[t] /\ telling'[t] = telling[t]
         /\ (t \in notices' <=> t \in notices)
         /\ crossed \subseteq crossed' /\ fresh \subseteq fresh'
         /\ UnderWay(t) /\ Liked(t)' # Liked(t) => t \in crossed'
         /\ UnderWay(t) /\ Liked(t)' /\ ~Liked(t) => t \in fresh'
<1> USE DEF IInv, Types, Goto, locals, tables, history, Liked
<1>1. CASE Begin(s)
  BY <1>1 DEF Begin
<1>2. CASE Lookup(s) \/ ReadPost(s) \/ FillPost(s) \/ Drop(s)
  BY <1>2 DEF Lookup, ReadPost, FillPost, Drop
<1>3. CASE Before(s) \/ Current(s) \/ Find(s) \/ State(s) \/ InsertComment(s)
  BY <1>3 DEF Before, Current, Find, State, InsertComment
<1>4. CASE Delete(s)
  BY <1>4 DEF Delete, Cross, OfSameUser
<1>5. CASE Insert(s)
  BY <1>5 DEF Insert, Cross, OfSameUser
<1>6. CASE Forget(s) \/ Notify(s)
  BY <1>6 DEF Forget, ToTell, Notify
<1> QED BY <1>1, <1>2, <1>3, <1>4, <1>5, <1>6 DEF Step

LEMMA OthersStayGood ==
  ASSUME IInv, NEW s \in Request, Step(s), NEW t \in Request, t # s
  PROVE  Good(t)'
<1>1. Good(t) /\ telling[t] \in BOOLEAN /\ before[t] \in BOOLEAN
  BY DEF IInv, Types
<1>2. Shape(t)'
  BY <1>1, OtherStep DEF Good, Shape
<1>3. Freshness(t)'
  BY <1>1, OtherStep DEF Good, Freshness, UnderWay, Ended
<1>4. Progress(t)'
  BY <1>1, OtherStep DEF Good, Progress, Wrote, UnderWay, Ended, Asked
<1> QED BY <1>2, <1>3, <1>4 DEF Good

LEMMA NextIInv == IInv /\ [Next]_vars => IInv'
<1> SUFFICES ASSUME IInv, [Next]_vars PROVE IInv'
  OBVIOUS
<1>1. ASSUME NEW s \in Request, Step(s) PROVE IInv'
  <2>1. Types'
    BY <1>1, TypesStep DEF IInv
  <2>2. Good(s)'
    BY <1>1, LookingStep, ReadingStep, WritingStep, TellingStep DEF Step
  <2>3. ASSUME NEW t \in Request PROVE Good(t)'
    BY <1>1, <2>2, OthersStayGood
  <2> QED BY <2>1, <2>3 DEF IInv
<1>2. CASE UNCHANGED <<likes, notices, pc, locals, history>>
  BY <1>2 DEF IInv, Types, Good, Shape, Freshness, Progress, Wrote, UnderWay, Asked, Liked,
              locals, history
<1>3. CASE SetDeleted \/ (\E r \in Replica : Expire(r)) \/ UNCHANGED vars
  BY <1>2, <1>3 DEF SetDeleted, Expire, vars, tables, locals, history
<1> QED BY <1>1, <1>3 DEF Next

LEMMA Inductive == Spec => []IInv
  BY InitIInv, NextIInv, PTL DEF Spec

-----------------------------------------------------------------------------
(***************************************************************************)
(* toggle, set and notify of the likes' services: the owner is told only   *)
(* of likes made during the request that tells, for any number of requests *)
(* of a user at once.                                                      *)
(***************************************************************************)
THEOREM ToldOfNewLikes == Spec => []NoticesAreOfNewLikes
<1>1. IInv => NoticesAreOfNewLikes
  BY DEF IInv, Types, Good, Freshness, NoticesAreOfNewLikes
<1> QED BY Inductive, <1>1, PTL

LEMMA AnswerStep ==
  ASSUME IInv, [Next]_vars, NEW t \in Request,
         Answered(t), req[t].op \in LikeOps, t \notin crossed
  PROVE  Liked(t)' = Asked(t)
<1> USE DEF IInv, Types, Goto, locals, tables, history
<1>1. pc[t] \in {"forget", "notify"} /\ pc'[t] = "ok" /\ Good(t)
  BY DEF Answered
<1>2. Liked(t) = Asked(t)
  BY <1>1 DEF Good, Shape, Progress, Wrote, UnderWay, Ended, LikeOps
<1>3. ASSUME NEW s \in Request, Step(s) PROVE s = t
  BY <1>1, <1>3, OtherStep
<1>4. CASE Step(t)
  <2>1. Forget(t) \/ Notify(t) \/ Drop(t)
    BY <1>1, <1>4 DEF Step, Begin, Lookup, ReadPost, FillPost, Before, Current, Find,
                     Delete, Insert, State, InsertComment
  <2>2. likes' = likes /\ req' = req
    BY <2>1 DEF Forget, Notify, Drop
  <2> QED BY <1>2, <2>2 DEF Liked
<1>5. ~(SetDeleted \/ (\E r \in Replica : Expire(r)) \/ UNCHANGED vars)
  BY <1>1 DEF SetDeleted, Expire, vars
<1> QED BY <1>3, <1>4, <1>5 DEF Next

(***************************************************************************)
(* toggle and set: the answer of a request that no other of its user       *)
(* crossed leaves the like as it was asked for, whatever other users do.   *)
(***************************************************************************)
THEOREM AnswersStand == Spec => AnswersHold
<1>1. ASSUME IInv, [Next]_vars
      PROVE  \A t \in Request :
               Answered(t) /\ req[t].op \in LikeOps /\ t \notin crossed => Liked(t)' = Asked(t)
  BY <1>1, AnswerStep
<1> QED BY Inductive, <1>1, PTL DEF Spec, AnswersHold

-----------------------------------------------------------------------------
(***************************************************************************)
(* The comments of a replica's own requests, once they are answered.       *)
(***************************************************************************)
Counted(t) ==
  t \in comments =>
    /\ req[t] \in Kinds /\ req[t].op = "comment"
    /\ pc[t] \in {"forget", "notify", "ok", "error"}
    /\ pc[t] \in {"notify", "ok"} /\ cached[req[t].replica] # None =>
         t \in cached[req[t].replica] \/ req[t].replica \in outdated

Comments ==
  /\ cached \in [Replica -> {None} \cup SUBSET Request]
  /\ outdated \subseteq Replica
  /\ found \in [Request -> {None} \cup SUBSET Request]
  /\ \A t \in comments : Counted(t)
  /\ comments \subseteq Request

(***************************************************************************)
(* A like that stands is told, or its request is between the insert and    *)
(* the second look at it.                                                  *)
(***************************************************************************)
Sure(s) ==
  \/ telling[s] /\ UnderWay(s)
  \/ pc[s] = "forget" /\ after[s] /\ ~before[s]

Told(u) == \E s \in SentBy(u) : s \in notices \/ Sure(s)
Pending(u) == \E s \in SentBy(u) : pc[s] = "state" /\ ~before[s]
Failed(u) == \E s \in SentBy(u) : pc[s] = "error"

LikeOwed(u) == u \in likes => Told(u) \/ Pending(u)

(* A request that saw the like and may insert it again will not tell. *)
SeenOwed(u) ==
  \A t \in Request :
    pc[t] \in {"current", "find", "insert"} /\ before[t] /\ req[t].user = u =>
      Told(u) \/ (u \in likes /\ Pending(u))

AtOnce(t, u) == ForLikes(t) /\ req[t].user = u
FewAtOnce(u) ==
  u \notin crowded =>
    \A a, b, c \in Request :
      AtOnce(a, u) /\ AtOnce(b, u) /\ AtOnce(c, u) => a = b \/ a = c \/ b = c

Owed(u) ==
  /\ FewAtOnce(u)
  /\ u \in crowded \/ Failed(u) \/ (LikeOwed(u) /\ SeenOwed(u))

Owings == \A u \in User \ {Author} : Owed(u)

LEMMA InitComments == Init => Comments
BY DEF Init, Comments

LEMMA CountedStep ==
  ASSUME IInv, Comments, NEW s \in Request, Step(s)
  PROVE  Comments'
<1> USE DEF Comments, IInv, Types, Goto, locals, tables, history
<1>1. /\ pc \in [Request -> Labels] /\ pc' \in [Request -> Labels]
      /\ pc[s] # "new" => req[s] \in Kinds /\ req[s].replica \in Replica
  BY TypesStep, SocialAssumption
<1>2. CASE Begin(s)
  BY <1>2 DEF Begin, Counted
<1>3. CASE Lookup(s) \/ Before(s) \/ Current(s) \/ Find(s) \/ Delete(s)
           \/ Insert(s) \/ State(s) \/ Drop(s)
  <2>1. /\ UNCHANGED <<comments, cached, outdated, req, found>>
        /\ s \in comments => pc[s] # "lookup" /\ Drop(s)
    BY <1>3 DEF Lookup, Before, Current, Find, Delete, Insert, State, Drop, Counted
  <2>2. \A t \in Request \ {s} : pc'[t] = pc[t]
    BY <1>3 DEF Lookup, Before, Current, Find, Delete, Insert, State, Drop
  <2>3. s \in comments => pc'[s] = "error"
    BY <2>1 DEF Drop
  <2>5. ASSUME NEW t \in comments PROVE Counted(t)'
    BY <2>1, <2>2, <2>3, <2>5 DEF Counted
  <2> QED BY <2>1, <2>5
<1>4. CASE ReadPost(s)
  <2>1. s \notin comments
    BY <1>4 DEF ReadPost, Counted
  <2>2. ASSUME NEW t \in comments PROVE Counted(t)'
    BY <1>4, <2>1 DEF ReadPost, Counted
  <2> QED BY <1>4, <2>2 DEF ReadPost
<1>5. CASE FillPost(s)
  <2> DEFINE r == req[s].replica
  <2>1. pc[s] = "fill" /\ r \in Replica
    BY <1>1, <1>5 DEF FillPost
  <2>2. /\ cached' = [cached EXCEPT ![r] = found[s]]
        /\ comments' = comments /\ req' = req
        /\ outdated' = IF found[s] = comments THEN outdated \ {r} ELSE outdated \cup {r}
        /\ s \notin comments
        /\ \A t \in Request \ {s} : pc'[t] = pc[t]
    BY <1>5, <2>1 DEF FillPost, Counted
  <2>3. ASSUME NEW t \in comments PROVE Counted(t)'
    <3>1. Counted(t) /\ t # s /\ pc'[t] = pc[t]
      BY <2>2, <2>3
    <3>2. CASE req[t].replica = r
      BY <2>1, <2>2, <2>3, <3>1, <3>2 DEF Counted
    <3>3. CASE req[t].replica # r
      BY <2>1, <2>2, <3>1, <3>3 DEF Counted
    <3> QED BY <3>2, <3>3
  <2>4. cached' \in [Replica -> {None} \cup SUBSET Request] /\ outdated' \subseteq Replica
    BY <2>1, <2>2
  <2>5. found' \in [Request -> {None} \cup SUBSET Request]
    BY <1>5 DEF FillPost
  <2> QED BY <2>2, <2>3, <2>4, <2>5
<1>6. CASE InsertComment(s)
  <2>1. /\ req[s] \in Kinds /\ req[s].op = "comment" /\ pc'[s] = "forget"
        /\ comments' = comments \cup {s} /\ UNCHANGED <<cached, outdated, req, found>>
        /\ \A t \in Request \ {s} : pc'[t] = pc[t]
    BY <1>1, <1>6 DEF InsertComment, Good, Shape
  <2>2. ASSUME NEW t \in comments' PROVE Counted(t)'
    BY <2>1, <2>2 DEF Counted
  <2> QED BY <2>1, <2>2
<1>7. CASE Forget(s)
  <2> DEFINE r == req[s].replica
  <2>1. /\ pc[s] = "forget" /\ r \in Replica
        /\ cached' = [cached EXCEPT ![r] = None]
        /\ UNCHANGED <<comments, outdated, req, found>>
        /\ pc'[s] \in {"notify", "lookup", "ok"}
        /\ req[s].op = "comment" => pc'[s] = "notify"
        /\ \A t \in Request \ {s} : pc'[t] = pc[t]
    BY <1>1, <1>7 DEF Forget, ToTell
  <2>2. ASSUME NEW t \in comments PROVE Counted(t)'
    <3>1. Counted(t)
      OBVIOUS
    <3>2. CASE t = s
      BY <2>1, <3>1, <3>2 DEF Counted
    <3>3. CASE t # s
      BY <2>1, <3>1, <3>3 DEF Counted
    <3> QED BY <3>2, <3>3
  <2> QED BY <2>1, <2>2
<1>8. CASE Notify(s)
  <2>1. /\ pc[s] = "notify" /\ pc'[s] = "ok"
        /\ UNCHANGED <<comments, cached, outdated, req, found>>
        /\ \A t \in Request \ {s} : pc'[t] = pc[t]
    BY <1>8 DEF Notify
  <2>2. ASSUME NEW t \in comments PROVE Counted(t)'
    BY <2>1, <2>2 DEF Counted
  <2> QED BY <2>1, <2>2
<1> QED BY <1>2, <1>3, <1>4, <1>5, <1>6, <1>7, <1>8 DEF Step

LEMMA NextComments == IInv /\ Comments /\ [Next]_vars => Comments'
<1> SUFFICES ASSUME IInv, Comments, [Next]_vars PROVE Comments'
  OBVIOUS
<1> USE DEF Comments, Counted, tables, locals, history
<1>1. ASSUME NEW s \in Request, Step(s) PROVE Comments'
  BY <1>1, CountedStep
<1>2. CASE SetDeleted
  BY <1>2 DEF SetDeleted
<1>3. CASE \E r \in Replica : Expire(r)
  BY <1>3 DEF Expire
<1>4. CASE UNCHANGED vars
  BY <1>4 DEF vars
<1> QED BY <1>1, <1>2, <1>3, <1>4 DEF Next

(***************************************************************************)
(* write of the comments drops the post from its replica's cache after the *)
(* insert: what this replica caches from then on counts the comment, or    *)
(* comes of a lookup that read the post before another comment came.       *)
(***************************************************************************)
THEOREM CommentsAreCounted == Spec => []OwnCommentsCounted
<1>1. Comments => OwnCommentsCounted
  BY DEF Comments, Counted, OwnCommentsCounted
<1> QED BY Inductive, InitComments, NextComments, <1>1, PTL DEF Spec

-----------------------------------------------------------------------------
LEMMA InitOwings == Init => Owings
BY DEF Init, Owings, Owed, FewAtOnce, AtOnce, ForLikes, UnderWay, LikeOwed, SeenOwed

(* What a step of s does to s and to the tables of likes and notices. *)
LEMMA OwnStep ==
  ASSUME IInv, NEW s \in Request, Step(s)
  PROVE  /\ pc[s] \notin Ended /\ pc'[s] # "new"
         /\ Begin(s) \/ (req'[s] = req[s] /\ pc[s] # "new" /\ crowded' = crowded)
         /\ crowded \subseteq crowded' /\ notices \subseteq notices'
         /\ likes' # likes => (Delete(s) \/ Insert(s)) /\ req' = req
<1> USE DEF IInv, Types, Goto, Ended, locals, tables, history
<1>1. CASE Begin(s)
  BY <1>1 DEF Begin
<1>2. CASE Lookup(s) \/ FillPost(s)
  BY <1>2, AfterLookupLabels DEF Lookup, FillPost
<1>3. CASE ReadPost(s) \/ Before(s) \/ Current(s) \/ Find(s) \/ State(s) \/ InsertComment(s)
  BY <1>3 DEF ReadPost, Before, Current, Find, State, InsertComment
<1>4. CASE Delete(s) \/ Insert(s)
  BY <1>4 DEF Delete, Insert
<1>5. CASE Forget(s) \/ Notify(s) \/ Drop(s)
  BY <1>5 DEF Forget, ToTell, Notify, Drop, UnderWay
<1> QED BY <1>1, <1>2, <1>3, <1>4, <1>5 DEF Step

LEMMA SentStays ==
  ASSUME IInv, NEW s \in Request, Step(s), NEW u, NEW x \in SentBy(u)
  PROVE  x \in SentBy(u)'
<1>1. x \in Request /\ pc[x] # "new" /\ req[x].user = u /\ req[x].op \in LikeOps
  BY DEF SentBy
<1>2. pc'[x] # "new" /\ req'[x] = req[x]
  BY <1>1, OwnStep, OtherStep DEF Begin
<1> QED BY <1>1, <1>2 DEF SentBy

LEMMA FailureStays ==
  ASSUME IInv, NEW s \in Request, Step(s), NEW u, Failed(u)
  PROVE  Failed(u)'
<1>1. PICK x \in SentBy(u) : pc[x] = "error"
  BY DEF Failed
<1>2. x \in Request /\ x # s
  BY <1>1, OwnStep DEF SentBy, Ended
<1>3. pc'[x] = "error" /\ x \in SentBy(u)'
  BY <1>1, <1>2, OtherStep, SentStays
<1> QED BY <1>3 DEF Failed

(***************************************************************************)
(* Once it is sure that somebody tells, nothing but a failure prevents it. *)
(***************************************************************************)
LEMMA TellerGoesOn ==
  ASSUME IInv, NEW s \in Request, Step(s), Sure(s), pc[s] # "new",
         req[s].op \in LikeOps, req[s].user # Author
  PROVE  s \in notices' \/ Sure(s)' \/ pc'[s] = "error"
<1> USE DEF IInv, Types, Goto, locals, tables, history
<1>1. Shape(s)
  BY DEF Good
<1>2. CASE pc[s] = "forget"
  <2>1. after[s] /\ ~before[s] /\ ~telling[s]
    BY <1>1, <1>2 DEF Sure, Shape
  <2>2. Forget(s) \/ Drop(s)
    BY <1>2 DEF Step, Begin, Lookup, ReadPost, FillPost, Before, Current, Find, Delete,
                Insert, State, InsertComment, Notify
  <2>3. CASE Forget(s)
    <3>1. pc'[s] = "lookup" /\ telling'[s]
      BY <2>1, <2>3 DEF Forget, ToTell, LikeOps
    <3> QED BY <3>1 DEF Sure, UnderWay, Ended
  <2> QED BY <2>2, <2>3 DEF Drop
<1>3. CASE pc[s] # "forget"
  <2>1. telling[s] /\ UnderWay(s)
    BY <1>3 DEF Sure
  <2>2. pc[s] \in {"lookup", "read", "fill", "notify"}
    BY <1>1, <1>3, <2>1, KindFacts DEF Shape, UnderWay, Ended, Labels, LikeOps
  <2>3. Lookup(s) \/ ReadPost(s) \/ FillPost(s) \/ Notify(s) \/ Drop(s)
    BY <2>2 DEF Step, Begin, Before, Current, Find, Delete, Insert, State,
                InsertComment, Forget
  <2>4. CASE Lookup(s) \/ FillPost(s)
    <3>1. pc'[s] \in {"read", "notify"} /\ telling'[s]
      BY <2>1, <2>4 DEF Lookup, FillPost, AfterLookup
    <3> QED BY <3>1 DEF Sure, UnderWay, Ended
  <2>5. CASE ReadPost(s)
    <3>1. pc'[s] \in {"fill", "error"} /\ telling'[s]
      BY <2>1, <2>5 DEF ReadPost
    <3> QED BY <3>1 DEF Sure, UnderWay, Ended
  <2>6. CASE Notify(s)
    BY <2>6 DEF Notify
  <2> QED BY <2>3, <2>4, <2>5, <2>6 DEF Drop
<1> QED BY <1>2, <1>3

LEMMA ToldStays ==
  ASSUME IInv, NEW s \in Request, Step(s), NEW u \in User \ {Author}, Told(u)
  PROVE  Told(u)' \/ Failed(u)'
<1>1. PICK x \in SentBy(u) : x \in notices \/ Sure(x)
  BY DEF Told
<1>2. /\ x \in Request /\ pc[x] # "new" /\ req[x].user = u /\ req[x].op \in LikeOps
      /\ x \in SentBy(u)'
  BY SentStays DEF SentBy
<1>3. CASE x \in notices
  BY <1>2, <1>3, OwnStep DEF Told
<1>4. CASE Sure(x) /\ x = s
  <2>1. x \in notices' \/ Sure(x)' \/ pc'[x] = "error"
    BY <1>2, <1>4, TellerGoesOn
  <2> QED BY <1>2, <2>1 DEF Told, Failed
<1>5. CASE Sure(x) /\ x # s
  <2>1. Sure(x)'
    BY <1>2, <1>5, OtherStep DEF Sure, UnderWay
  <2> QED BY <1>2, <2>1 DEF Told
<1> QED BY <1>1, <1>3, <1>4, <1>5

LEMMA PendingStays ==
  ASSUME IInv, NEW s \in Request, Step(s), NEW u \in User \ {Author},
         Pending(u), u \in likes'
  PROVE  Pending(u)' \/ Told(u)' \/ Failed(u)'
<1> USE DEF IInv, Types, Goto, locals, tables, history
<1>1. PICK x \in SentBy(u) : pc[x] = "state" /\ ~before[x]
  BY DEF Pending
<1>2. /\ x \in Request /\ req[x].user = u
      /\ x \in SentBy(u)'
  BY SentStays DEF SentBy
<1>3. CASE x # s
  <2>1. pc'[x] = "state" /\ ~before'[x]
    BY <1>1, <1>2, <1>3, OtherStep
  <2> QED BY <1>2, <2>1 DEF Pending
<1>4. CASE x = s
  <2>1. State(s) \/ Drop(s)
    BY <1>1, <1>4 DEF Step, Begin, Lookup, ReadPost, FillPost, Before, Current, Find, Delete,
                      Insert, InsertComment, Forget, Notify
  <2>2. CASE State(s)
    <3>1. pc'[s] = "forget" /\ after'[s] = Liked(s) /\ ~before'[s] /\ likes' = likes
      BY <1>1, <1>4, <2>2 DEF State
    <3>2. Sure(s)'
      BY <1>2, <1>4, <3>1 DEF Sure, Liked
    <3> QED BY <1>2, <1>4, <3>2 DEF Told
  <2>3. CASE Drop(s)
    BY <1>2, <1>4, <2>3 DEF Drop, Failed
  <2> QED BY <2>1, <2>2, <2>3
<1> QED BY <1>3, <1>4

(***************************************************************************)
(* Only a third request of a user at once makes him crowded.               *)
(***************************************************************************)
LEMMA FewStep ==
  ASSUME IInv, NEW s \in Request, Step(s), NEW u, FewAtOnce(u)
  PROVE  FewAtOnce(u)'
<1>1. ASSUME NEW x \in Request, AtOnce(x, u)', x # s
      PROVE  AtOnce(x, u)
  BY <1>1, OtherStep DEF AtOnce, ForLikes, UnderWay
<1>2. ASSUME AtOnce(s, u)', ~Begin(s)
      PROVE  AtOnce(s, u)
  BY <1>2, OwnStep DEF AtOnce, ForLikes, UnderWay
<1>3. ASSUME Begin(s), AtOnce(s, u)', NEW x \in Request, NEW y \in Request,
             AtOnce(x, u), AtOnce(y, u), x # y
      PROVE  u \in crowded'
  <2>1. PICK k \in Kinds :
          /\ req' = [req EXCEPT ![s] = k]
          /\ crowded' = IF /\ k.op \in LikeOps
                           /\ \E a, b \in {z \in Request : ForLikes(z) /\ req[z].user = k.user} : a # b
                        THEN crowded \cup {k.user} ELSE crowded
    BY <1>3 DEF Begin
  <2>2. k.op \in LikeOps /\ k.user = u
    BY <1>3, <2>1 DEF AtOnce, ForLikes, IInv, Types
  <2>3. \E a, b \in {z \in Request : ForLikes(z) /\ req[z].user = k.user} : a # b
    BY <1>3, <2>2 DEF AtOnce
  <2> QED BY <2>1, <2>2, <2>3
<1>4. ASSUME u \notin crowded', NEW a \in Request, NEW b \in Request, NEW c \in Request,
             AtOnce(a, u)', AtOnce(b, u)', AtOnce(c, u)', a # b, a # c, b # c
      PROVE  FALSE
  <2>1. u \notin crowded
    BY <1>4, OwnStep
  <2>2. Begin(s) /\ s \in {a, b, c}
    BY <1>1, <1>2, <1>4, <2>1 DEF FewAtOnce
  <2>3. PICK x \in Request, y \in Request : x # y /\ x # s /\ y # s /\ AtOnce(x, u)' /\ AtOnce(y, u)'
    BY <1>4, <2>2
  <2>4. AtOnce(s, u)'
    BY <1>4, <2>2
  <2> QED BY <1>1, <1>3, <1>4, <2>2, <2>3, <2>4
<1> QED BY <1>4 DEF FewAtOnce

LEMMA LikeOwedStep ==
  ASSUME IInv, NEW s \in Request, Step(s), NEW u \in User \ {Author},
         LikeOwed(u), SeenOwed(u)
  PROVE  LikeOwed(u)' \/ Failed(u)'
<1> SUFFICES ASSUME u \in likes' PROVE Told(u)' \/ Pending(u)' \/ Failed(u)'
  BY DEF LikeOwed
<1>1. CASE u \in likes
  BY <1>1, ToldStays, PendingStays DEF LikeOwed
<1>2. CASE u \notin likes
  <2>1. Insert(s) /\ req[s].user = u /\ pc[s] = "insert"
    BY <1>2, OwnStep DEF Insert, Delete
  <2>2. pc'[s] = "state" /\ before' = before /\ req' = req
    BY <1>2, <2>1 DEF IInv, Types, Insert, Liked, Goto, locals
  <2>3. CASE before[s]
    <3>1. Told(u)
      BY <1>2, <2>1, <2>3 DEF SeenOwed
    <3> QED BY <3>1, ToldStays
  <2>4. CASE ~before[s]
    <3>1. s \in SentBy(u)'
      BY <2>1, <2>2 DEF IInv, Good, Shape, SentBy
    <3> QED BY <2>2, <2>4, <3>1 DEF Pending
  <2> QED BY <2>3, <2>4
<1> QED BY <1>1, <1>2

(***************************************************************************)
(* A request x has seen the like.  If another one takes it away while the  *)
(* request that made it is still to tell, the three are under way at once. *)
(***************************************************************************)
LEMMA SeenOwedStep ==
  ASSUME IInv, NEW s \in Request, Step(s), NEW u \in User \ {Author},
         FewAtOnce(u), LikeOwed(u), SeenOwed(u), u \notin crowded
  PROVE  SeenOwed(u)' \/ Failed(u)'
<1> DEFINE Acting(x) == pc[x] \in {"current", "find", "insert"} /\ before[x] /\ req[x].user = u
<1> SUFFICES ASSUME NEW x \in Request, Acting(x)', ~Failed(u)'
             PROVE  Told(u)' \/ (u \in likes' /\ Pending(u)')
  BY DEF SeenOwed
<1>1. Told(u) \/ (u \in likes /\ Pending(u))
  <2>1. CASE x # s
    <3>1. Acting(x)
      BY <2>1, OtherStep
    <3> QED BY <3>1 DEF SeenOwed
  <2>2. CASE x = s
    <3>1. /\ \/ Before(s) /\ Liked(s)
             \/ Acting(s)
          /\ req'[s] = req[s]
      <4> USE DEF IInv, Types, Goto, locals, tables, history
      <4>1. Before(s) \/ Current(s) \/ Find(s)
        <5>1. pc[s] # "new" => AfterLookup(s) \notin {"current", "find", "insert"}
          BY AfterLookupLabels
        <5> QED
          BY <2>2, <5>1 DEF Step, Begin, Lookup, ReadPost, FillPost, Delete, Insert, State,
                            InsertComment, Forget, ToTell, Notify, Drop
      <4>2. CASE Before(s)
        BY <2>2, <4>2 DEF Before
      <4>3. CASE Current(s) \/ Find(s)
        BY <2>2, <4>3 DEF Current, Find
      <4> QED BY <4>1, <4>2, <4>3
    <3> QED BY <2>2, <3>1 DEF SeenOwed, LikeOwed, Liked
  <2> QED BY <2>1, <2>2
<1>2. CASE Told(u)
  BY <1>2, ToldStays
<1>3. CASE u \in likes /\ Pending(u)
  <2>1. CASE u \in likes'
    BY <1>3, <2>1, PendingStays
  <2>2. CASE u \notin likes'
    <3>1. Delete(s) /\ req[s].user = u /\ pc[s] = "delete" /\ pc'[s] = "state"
      BY <1>3, <2>2, OwnStep DEF IInv, Types, Insert, Delete, Goto
    <3>2. x # s /\ Acting(x)
      BY <3>1, OtherStep
    <3>3. PICK y \in SentBy(u) : pc[y] = "state"
      BY <1>3 DEF Pending
    <3>4. y \in Request /\ y # s /\ y # x /\ req[y].user = u
      BY <3>1, <3>2, <3>3 DEF SentBy
    <3>5. AtOnce(x, u) /\ AtOnce(y, u) /\ AtOnce(s, u)
      BY <3>1, <3>2, <3>3, <3>4
         DEF IInv, Good, Shape, AtOnce, ForLikes, UnderWay, Ended
    <3> QED BY <3>2, <3>4, <3>5 DEF FewAtOnce
  <2> QED BY <2>1, <2>2
<1> QED BY <1>1, <1>2, <1>3

LEMMA NextOwings == IInv /\ Owings /\ [Next]_vars => Owings'
<1> SUFFICES ASSUME IInv, [Next]_vars, NEW u \in User \ {Author}, Owed(u)
             PROVE  Owed(u)'
  BY DEF Owings
<1>1. ASSUME NEW s \in Request, Step(s) PROVE Owed(u)'
  <2>1. FewAtOnce(u)'
    BY <1>1, FewStep DEF Owed
  <2>2. u \in crowded => u \in crowded'
    BY <1>1, OwnStep
  <2>3. Failed(u) => Failed(u)'
    BY <1>1, FailureStays
  <2>4. u \notin crowded /\ LikeOwed(u) /\ SeenOwed(u) =>
          Failed(u)' \/ (LikeOwed(u)' /\ SeenOwed(u)')
    BY <1>1, LikeOwedStep, SeenOwedStep DEF Owed
  <2> QED BY <2>1, <2>2, <2>3, <2>4 DEF Owed
<1>2. CASE UNCHANGED <<likes, notices, pc, locals, history>>
  BY <1>2 DEF locals, history, Owed, FewAtOnce, AtOnce, ForLikes, UnderWay, Failed, LikeOwed,
              SeenOwed, Told, Pending, Sure, SentBy
<1>3. CASE SetDeleted \/ (\E r \in Replica : Expire(r)) \/ UNCHANGED vars
  BY <1>2, <1>3 DEF SetDeleted, Expire, vars, tables, locals, history
<1> QED BY <1>1, <1>3 DEF Next

(***************************************************************************)
(* toggle and set of the likes' services: a like that stands when its      *)
(* user has no request under way was told to the owner, unless a request   *)
(* of this user failed or three of them were under way at once.            *)
(***************************************************************************)
THEOREM StandingLikesAreTold == Spec => []LikesAreTold
<1>1. IInv /\ Owings => LikesAreTold
  <2> SUFFICES ASSUME Owings, NEW u \in likes \ {Author}, AtRest(u), u \in User,
                      u \notin crowded, ~Failed(u)
               PROVE  SentBy(u) \cap notices # {}
    BY DEF LikesAreTold, Failed, IInv, Types
  <2>1. Told(u) \/ Pending(u)
    BY DEF Owings, Owed, LikeOwed
  <2>2. \A x \in SentBy(u) : ~UnderWay(x)
    BY DEF AtRest, SentBy
  <2> QED BY <2>1, <2>2 DEF Told, Pending, Sure, UnderWay, Ended
<1> QED BY Inductive, InitOwings, NextOwings, <1>1, PTL DEF Spec

-----------------------------------------------------------------------------
(***************************************************************************)
(* The media of a user.  Fits: which request is at which call, and what it *)
(* has in its hands.                                                       *)
(***************************************************************************)
ByKey == {"deletePhoto", "deleteTrack"}

Fits(t) ==
  /\ stage[t] = "idle" => job[t] = NoJob
  /\ stage[t] \in {"previous", "setKey", "dropPrevious", "dropRow"} => job[t].op \in AvatarOps
  /\ stage[t] \in {"put", "row", "cleanup"} => job[t].op \in Uploads \cup AvatarOps
  /\ stage[t] \in {"read", "sweep"} => job[t].op = "convert"
  /\ stage[t] \in {"album", "newAlbum", "attach"} => job[t].op \in {"photo", "avatar"}
  /\ stage[t] = "track" => job[t].op \in {"audio", "video"}
  /\ stage[t] = "keys" => job[t].op \in {"deleteAlbum", "deleteAccount"}
  /\ stage[t] = "deleteObjects" => job[t].op \in Deletions
  /\ stage[t] = "deleteRow" => job[t].op \in ByKey
  /\ stage[t] = "deleteTrack" => job[t].op = "deleteTrack"
  /\ stage[t] \in {"links", "deleteAlbum"} => job[t].op = "deleteAlbum"
  /\ stage[t] = "deleteAccount" => job[t].op = "deleteAccount"
  /\ stage[t] \in {"row", "cleanup", "setKey", "album", "newAlbum", "attach", "track"} =>
       job[t].key # Nil
  /\ stage[t] \in {"previous", "put", "read", "keys", "links"} => job[t].key = Nil
  /\ stage[t] = "dropRow" => job[t].prev # Nil
  /\ stage[t] # "idle" /\ job[t].op \in ByKey =>
       job[t].key # Nil /\ job[t].keys \subseteq {job[t].key}
  /\ stage[t] # "idle" /\ job[t].op \in {"deleteAlbum", "deleteAccount"} => job[t].key = Nil

Handled == {"row", "cleanup"}   \* an object is there, and its row not yet

Unborn(t) ==
  stage[t] \in Handled =>
    /\ job[t].key \in objects /\ job[t].key \notin Rows \cup tracks
    /\ avatar # job[t].key
    /\ \A s \in Task : s # t => job[t].key \notin KeysOf(s)

Parted(t) == job[t].key # Nil /\ job[t].op \notin ByKey =>
  job[t].key # job[t].prev /\ job[t].key \notin job[t].keys

Drawn ==
  /\ objects \subseteq used /\ Rows \subseteq used /\ tracks \subseteq used
  /\ avatar # Nil => avatar \in used
  /\ \A t \in Task : KeysOf(t) \subseteq used

(***************************************************************************)
(* A deletion is about to delete the row of k, whose object may be gone.   *)
(***************************************************************************)
Removing(t, k) ==
  \/ job[t].op = "deletePhoto" /\ stage[t] \in {"deleteObjects", "deleteRow"} /\ k = job[t].key
  \/ job[t].op = "deleteTrack" /\ stage[t] \in {"deleteObjects", "deleteTrack"}
     /\ k = job[t].key /\ k \in tracks
  \/ job[t].op = "deleteTrack" /\ stage[t] = "deleteRow" /\ k = job[t].key
  \/ job[t].op = "deleteAlbum" /\ stage[t] \in {"deleteObjects", "links"}
     /\ k \in job[t].keys /\ <<job[t].album, k>> \in links
  \/ stage[t] = "deleteAlbum" /\ k \in job[t].keys
  \/ job[t].op = "deleteAccount" /\ stage[t] \in {"deleteObjects", "deleteAccount"}
     /\ k \in job[t].keys
  \/ stage[t] = "dropRow" /\ k = job[t].prev

Stored == \A k \in Rows : k \in objects \cup cut \cup late \/ \E t \in Task : Removing(t, k)

Named ==
  \A k \in objects :
    k \in Rows \cup cut \cup late \/ \E t \in Task : stage[t] \in Handled /\ k = job[t].key

(***************************************************************************)
(* What a deletion of one medium, of an album, of the account has done.    *)
(***************************************************************************)
OneGoes(t) ==
  /\ job[t].op \in ByKey /\ job[t].key \in Rows =>
       /\ stage[t] = "deleteObjects" => job[t].key \in job[t].keys
       /\ stage[t] \in {"deleteTrack", "deleteRow"} => job[t].key \notin objects
  /\ job[t].op = "deleteTrack" /\ stage[t] # "deleteRow" /\ job[t].key \in Rows \ tracks =>
       \/ job[t].key \in cut
       \/ \E s \in Task : job[s].op = "deleteTrack" /\ stage[s] = "deleteRow"
                          /\ job[s].key = job[t].key

AlbumGoes(t) ==
  LET Links == AttachedTo(job[t].album)
  IN job[t].op = "deleteAlbum" =>
       /\ stage[t] \in {"deleteObjects", "links"} => job[t].keys \cap Rows \subseteq Links \cup late
       /\ stage[t] \in {"deleteObjects", "deleteAlbum"} => Links \subseteq job[t].keys \cup late
       /\ stage[t] = "links" => Links \cap objects \subseteq late
       /\ stage[t] = "deleteAlbum" => job[t].keys \cap objects \subseteq late

AccountGoes(t) ==
  job[t].op = "deleteAccount" =>
    /\ stage[t] \in {"deleteObjects", "deleteAccount"} => Rows \subseteq job[t].keys \cup late
    /\ stage[t] = "deleteAccount" => Rows \cap objects \subseteq late

PreviousGoes(t) == stage[t] = "dropRow" => job[t].prev \notin objects \ cut

(***************************************************************************)
(* A request for the avatar that has no rival.                             *)
(***************************************************************************)
Portrait(t) ==
  t \in Doing(AvatarOps) =>
    /\ stage[t] \in {"setKey", "album", "newAlbum", "attach"} => kind[job[t].key] = "avatar"
    /\ ~rivals /\ stage[t] = "setKey" => job[t].key \in objects \cup byHand
    /\ ~rivals /\ stage[t] \in {"album", "newAlbum", "attach", "dropPrevious", "dropRow", "sweep"} =>
         avatar \in {job[t].key, Nil} /\ job[t].key # Nil

Portraits ==
  /\ ~rivals => \A s, t \in Doing(AvatarOps) : s = t
  /\ avatar # Nil => kind[avatar] \in {"avatar", "svg"}
  /\ AvatarServed

MediaInv ==
  /\ ~account => Rows = {}
  /\ \A t \in Task : Fits(t) /\ Unborn(t) /\ Parted(t)
  /\ Drawn /\ Stored /\ Named
  /\ \A t \in Task : OneGoes(t) /\ AlbumGoes(t) /\ AccountGoes(t) /\ PreviousGoes(t)
  /\ Portraits /\ \A t \in Task : Portrait(t)

(* The types, but for what the tracks refer to. *)
Sorts == {"avatar", "svg", "photo", "audio", "video", Nil}

MediaTypes ==
  /\ account \in BOOLEAN /\ avatar \in Key \cup {Nil}
  /\ objects \in SUBSET Key /\ used \in SUBSET Key /\ tracks \in SUBSET Key
  /\ born \in [Key -> Nat]
  /\ kind \in [Key -> Sorts]
  /\ made \in 0 .. MaxAlbums /\ albums \in SUBSET (1 .. made)
  /\ links \in SUBSET (albums \X Rows)
  /\ stage \in [Task -> Label] /\ job \in [Task -> Job]
  /\ cut \in SUBSET Key /\ late \in SUBSET Key /\ byHand \in SUBSET Key
  /\ rivals \in BOOLEAN

(* The calls of request t. *)
Act(t) ==
  \/ \E op \in Ops, a \in Album \cup {Nil} : BeginUpload(t, op, a)
  \/ \E op \in Ops, k \in Key \cup {Nil}, a \in Album \cup {Nil} : BeginDelete(t, op, k, a)
  \/ \E k \in Key : DeleteObject(t, k)
  \/ MediaStep(t)

-----------------------------------------------------------------------------
LEMMA KeyFacts ==
  /\ Nil \notin Key /\ Nil \notin Album /\ Nil \notin Nat
  /\ Key \subseteq Nat /\ 1 \in Key /\ Album \subseteq Nat
BY MediaAssumption DEF Key, Album

LEMMA NoJobFacts ==
  /\ NoJob \in Job /\ NoJob.op = Nil /\ NoJob.key = Nil /\ NoJob.album = Nil
  /\ NoJob.prev = Nil /\ NoJob.keys = {}
BY DEF NoJob, Job

LEMMA JobFacts ==
  ASSUME MediaTypes, NEW t \in Task
  PROVE  /\ job[t] \in Job /\ job[t].op \in Ops \cup {Nil} /\ job[t].key \in Key \cup {Nil}
         /\ job[t].album \in Album \cup {Nil} /\ job[t].prev \in Key \cup {Nil}
         /\ job[t].keys \in SUBSET Key
         /\ KeysOf(t) \subseteq Key
BY DEF MediaTypes, Job, KeysOf

LEMMA RowsFacts ==
  ASSUME MediaTypes
  PROVE  Rows \in SUBSET Key /\ \A a : AttachedTo(a) \subseteq Rows
BY DEF MediaTypes, Rows, AttachedTo

(***************************************************************************)
(* There is a newest row, so that the next one is newer.                   *)
(***************************************************************************)
LEMMA NewestRow ==
  ASSUME NEW f \in [Key -> Nat], NEW bound \in Nat, \A k \in Key : f[k] <= bound
  PROVE  \E n \in {f[j] : j \in Key} : \A j \in Key : f[j] <= n
<1> DEFINE Bounds == {b \in Nat : \A k \in Key : f[k] <= b}
<1>1. PICK b \in Bounds : \A c \in Bounds : ~(c < b)
  <2>1. bound \in Bounds /\ Bounds \subseteq Nat
    OBVIOUS
  <2>2. \E x \in Bounds : \A y \in Bounds : ~(<<y, x>> \in OpToRel(<, Nat))
    BY <2>1, NatLessThanWellFounded, WFMin
  <2> QED
    BY <2>1, <2>2 DEF OpToRel
<1>2. CASE \E j \in Key : f[j] = b
  BY <1>1, <1>2
<1>3. CASE \A j \in Key : f[j] # b
  <2>1. 1 \in Key /\ f[1] \in Nat /\ f[1] <= b /\ f[1] # b /\ b \in Nat
    BY <1>1, <1>3, KeyFacts
  <2>2. b - 1 \in Nat /\ \A k \in Key : f[k] <= b - 1
    BY <1>1, <1>3, <2>1
  <2>3. b - 1 \in Bounds /\ b - 1 < b
    BY <2>1, <2>2
  <2> QED
    BY <1>1, <2>3
<1> QED
  BY <1>2, <1>3

Dated == \E b \in Nat : \A k \in Key : born[k] <= b

LEMMA NewRowFacts ==
  ASSUME MediaTypes, Dated, NEW k \in Key, NEW op \in Uploads \cup AvatarOps, NewRow(k, op)
  PROVE  /\ born' \in [Key -> Nat] /\ Dated' /\ Rows' = Rows \cup {k}
         /\ kind' = [kind EXCEPT ![k] = IF op \in AvatarOps THEN "avatar" ELSE op]
         /\ kind' \in [Key -> Sorts]
         /\ late' \in {late, late \cup {k}} /\ (AccountGoing => k \in late')
<1> DEFINE n == CHOOSE n \in {born[j] : j \in Key} : \A j \in Key : born[j] <= n
<1>1. PICK b \in Nat : \A j \in Key : born[j] <= b
  BY DEF Dated
<1>2. born \in [Key -> Nat]
  BY DEF MediaTypes
<1>3. \E m \in {born[j] : j \in Key} : \A j \in Key : born[j] <= m
  BY <1>1, <1>2, NewestRow
<1>4. n \in {born[j] : j \in Key} /\ \A j \in Key : born[j] <= n
  BY <1>3
<1>5. n \in Nat
  BY <1>2, <1>4
<1> HIDE DEF n
<1>6. born' = [born EXCEPT ![k] = 1 + n]
  BY DEF NewRow, n
<1>7. born' \in [Key -> Nat]
  BY <1>2, <1>5, <1>6
<1>8. Rows' = Rows \cup {k}
  BY <1>2, <1>5, <1>6 DEF Rows
<1>9. Dated'
  <2>1. \A j \in Key : born'[j] <= 1 + n
    BY <1>2, <1>4, <1>5, <1>6
  <2> QED
    BY <1>5, <2>1 DEF Dated
<1>10. op \in {"photo", "audio", "video"} \cup AvatarOps
  BY DEF Uploads, AvatarOps
<1>11. kind' \in [Key -> Sorts]
  BY <1>10 DEF NewRow, MediaTypes, Sorts
<1> QED
  BY <1>7, <1>8, <1>9, <1>11 DEF NewRow

LEMMA OthersStay ==
  ASSUME MediaTypes, NEW t \in Task, Act(t), NEW s \in Task, s # t
  PROVE  stage'[s] = stage[s] /\ job'[s] = job[s] /\ KeysOf(s)' = KeysOf(s)
<1> USE DEF MediaTypes, Proceed, End, Continue
<1>1. CASE MediaStep(t)
  <2>1. stage'[s] = stage[s] /\ job'[s] = job[s]
    <3>1. CASE FindAvatar(t) \/ Put(t) \/ InsertRow(t) \/ Cleanup(t) \/ SetAvatarKey(t)
      BY <3>1 DEF FindAvatar, Put, InsertRow, Cleanup, SetAvatarKey
    <3>2. CASE DefaultAlbum(t) \/ NewAlbum(t) \/ AttachPhoto(t) \/ InsertTrack(t)
      BY <3>2 DEF DefaultAlbum, NewAlbum, AttachPhoto, InsertTrack
    <3>3. CASE DropPrevious(t) \/ DropRow(t) \/ BeginConvert(t) \/ ReadSvg(t) \/ SweepSvg(t)
      BY <3>3 DEF DropPrevious, DropRow, Replaced, BeginConvert, ReadSvg, SweepSvg
    <3>4. CASE StorageKeys(t) \/ ObjectsDeleted(t) \/ DeleteRow(t) \/ DeleteTrack(t)
      BY <3>4 DEF StorageKeys, ObjectsDeleted, DeleteRow, DeleteTrack
    <3>5. CASE AlbumLinks(t) \/ DeleteAlbum(t) \/ DeleteAccount(t) \/ CutOff(t)
      BY <3>5 DEF AlbumLinks, DeleteAlbum, DeleteAccount, CutOff
    <3> QED
      BY <1>1, <3>1, <3>2, <3>3, <3>4, <3>5 DEF MediaStep
  <2> QED
    BY <2>1 DEF KeysOf
<1>2. CASE \E op \in Ops, a \in Album \cup {Nil} : BeginUpload(t, op, a)
  BY <1>2 DEF BeginUpload, KeysOf
<1>3. CASE \E op \in Ops, k \in Key \cup {Nil}, a \in Album \cup {Nil} : BeginDelete(t, op, k, a)
  BY <1>3 DEF BeginDelete, KeysOf
<1>4. CASE \E k \in Key : DeleteObject(t, k)
  BY <1>4 DEF DeleteObject, KeysOf
<1> QED
  BY <1>1, <1>2, <1>3, <1>4 DEF Act

(***************************************************************************)
(* Rows go with their links and their audios.                              *)
(***************************************************************************)
LEMMA DeleteRowsFacts ==
  ASSUME MediaTypes, NEW set \in SUBSET Key, DeleteRows(set)
  PROVE  /\ born' \in [Key -> Nat] /\ (Dated => Dated')
         /\ Rows' = Rows \ set
         /\ links' = {l \in links : l[2] \notin set}
         /\ tracks' \subseteq tracks /\ tracks \ set \subseteq tracks'
<1>1. born \in [Key -> Nat] /\ born' = [k \in Key |-> IF k \in set THEN 0 ELSE born[k]]
  BY DEF MediaTypes, DeleteRows
<1>2. Dated => Dated'
  <2> SUFFICES ASSUME NEW b \in Nat, \A k \in Key : born[k] <= b
               PROVE  \A k \in Key : born'[k] <= b
    BY DEF Dated
  <2> QED
    BY <1>1
<1> QED
  BY <1>1, <1>2 DEF DeleteRows, Rows

-----------------------------------------------------------------------------
LEMMA EndFacts ==
  ASSUME MediaTypes, NEW t \in Task, End(t)
  PROVE  /\ stage' \in [Task -> Label] /\ job' \in [Task -> Job]
         /\ stage'[t] = "idle" /\ job'[t] = NoJob /\ Fits(t)' /\ KeysOf(t)' = {}
<1>1. stage' = [stage EXCEPT ![t] = "idle"] /\ job' = [job EXCEPT ![t] = NoJob]
  BY DEF End, Proceed
<1>2. NoJob \in Job /\ "idle" \in Label
  BY NoJobFacts DEF Label
<1>3. stage \in [Task -> Label] /\ job \in [Task -> Job]
  BY DEF MediaTypes
<1>4. stage' \in [Task -> Label] /\ job' \in [Task -> Job] /\ stage'[t] = "idle" /\ job'[t] = NoJob
  BY <1>1, <1>2, <1>3
<1>5. job'[t].op = Nil /\ job'[t].key = Nil /\ job'[t].prev = Nil /\ job'[t].keys = {}
  BY <1>4, NoJobFacts
<1> QED
  BY <1>4, <1>5 DEF Fits, KeysOf

LEMMA ProceedFacts ==
  ASSUME MediaTypes, NEW t \in Task, NEW label \in Label, Proceed(t, label)
  PROVE  stage' \in [Task -> Label] /\ stage'[t] = label
BY DEF MediaTypes, Proceed

(* The requests that begin. *)
LEMMA BeginUploadFacts ==
  ASSUME MediaTypes, NEW t \in Task, NEW op \in Ops, NEW a \in Album \cup {Nil}, BeginUpload(t, op, a)
  PROVE  /\ job' \in [Task -> Job] /\ stage' \in [Task -> Label]
         /\ job'[t].op = op /\ job'[t].key = Nil /\ job'[t].prev = Nil /\ job'[t].keys = {}
         /\ stage'[t] = (IF op \in AvatarOps THEN "previous" ELSE "put")
<1> DEFINE j == [NoJob EXCEPT !.op = op, !.album = a]
<1>1. op \in Ops
  OBVIOUS
<1>2. j \in Job /\ j.op = op /\ j.key = Nil /\ j.prev = Nil /\ j.keys = {}
  BY <1>1 DEF NoJob, Job
<1> HIDE DEF j
<1>3. job' = [job EXCEPT ![t] = j]
  BY DEF BeginUpload, j
<1>4. job \in [Task -> Job]
  BY DEF MediaTypes
<1>5. job' \in [Task -> Job] /\ job'[t] = j
  BY <1>2, <1>3, <1>4
<1>6. stage' \in [Task -> Label] /\ stage'[t] = (IF op \in AvatarOps THEN "previous" ELSE "put")
  BY DEF BeginUpload, Proceed, MediaTypes, Label
<1> QED
  BY <1>2, <1>5, <1>6

LEMMA BeginDeleteFacts ==
  ASSUME MediaTypes, NEW t \in Task, NEW op \in Ops, NEW k \in Key \cup {Nil},
         NEW a \in Album \cup {Nil}, BeginDelete(t, op, k, a)
  PROVE  /\ job' \in [Task -> Job] /\ stage' \in [Task -> Label]
         /\ job'[t].op = op /\ job'[t].album = a /\ job'[t].key = k /\ job'[t].prev = Nil /\ job'[t].keys = {k} \cap Rows
         /\ stage'[t] = (IF k = Nil THEN "keys" ELSE "deleteObjects")
<1> DEFINE j == [NoJob EXCEPT !.op = op, !.album = a, !.key = k, !.keys = {k} \cap Rows]
<1>1. {k} \cap Rows \in SUBSET Key
  BY RowsFacts
<1>2. j \in Job /\ j.op = op /\ j.album = a /\ j.key = k /\ j.prev = Nil /\ j.keys = {k} \cap Rows
  BY <1>1 DEF NoJob, Job
<1> HIDE DEF j
<1>3. job' = [job EXCEPT ![t] = j]
  BY DEF BeginDelete, j
<1>4. job \in [Task -> Job]
  BY DEF MediaTypes
<1>5. job' \in [Task -> Job] /\ job'[t] = j
  BY <1>2, <1>3, <1>4
<1>6. stage' \in [Task -> Label] /\ stage'[t] = (IF k = Nil THEN "keys" ELSE "deleteObjects")
  BY DEF BeginDelete, Proceed, MediaTypes, Label
<1> QED
  BY <1>2, <1>5, <1>6

LEMMA BeginConvertFacts ==
  ASSUME MediaTypes, NEW t \in Task, BeginConvert(t)
  PROVE  /\ job' \in [Task -> Job] /\ stage' \in [Task -> Label]
         /\ job'[t].op = "convert" /\ job'[t].key = Nil /\ job'[t].prev = Nil /\ job'[t].keys = {avatar}
         /\ stage'[t] = "read"
<1> DEFINE j == [NoJob EXCEPT !.op = "convert", !.keys = {avatar}]
<1>1. "convert" \in Ops /\ {avatar} \in SUBSET Key
  BY DEF BeginConvert, MediaTypes
<1>2. j \in Job /\ j.op = "convert" /\ j.key = Nil /\ j.prev = Nil /\ j.keys = {avatar}
  BY <1>1 DEF NoJob, Job
<1> HIDE DEF j
<1>3. job' = [job EXCEPT ![t] = j]
  BY DEF BeginConvert, j
<1>4. job \in [Task -> Job]
  BY DEF MediaTypes
<1>5. job' \in [Task -> Job] /\ job'[t] = j
  BY <1>2, <1>3, <1>4
<1>6. stage' \in [Task -> Label] /\ stage'[t] = "read"
  BY DEF BeginConvert, Proceed, MediaTypes, Label
<1> QED
  BY <1>2, <1>5, <1>6

LEMMA JobStep ==
  ASSUME MediaTypes, NEW t \in Task, Fits(t), Act(t)
  PROVE  /\ stage' \in [Task -> Label] /\ job' \in [Task -> Job]
         /\ Fits(t)'
<1> USE JobFacts, NoJobFacts, KeyFacts, RowsFacts
    DEF MediaTypes, Label, Job, Proceed, Continue, End, Fits, Uploads, AvatarOps,
        Deletions, ByKey
<1>1. CASE \E op \in Ops, a \in Album \cup {Nil} : BeginUpload(t, op, a)
  <2>1. PICK op \in Ops, a \in Album \cup {Nil} : BeginUpload(t, op, a)
    BY <1>1
  <2>2. op \in Uploads
    BY <2>1 DEF BeginUpload
  <2> HIDE DEF Job, Label
  <2> QED
    BY <2>1, <2>2, BeginUploadFacts
<1>2. CASE \E op \in Ops, k \in Key \cup {Nil}, a \in Album \cup {Nil} : BeginDelete(t, op, k, a)
  <2>1. PICK op \in Ops, k \in Key \cup {Nil}, a \in Album \cup {Nil} : BeginDelete(t, op, k, a)
    BY <1>2
  <2>2. \/ op \in {"deletePhoto", "deleteTrack"} /\ k # Nil
        \/ op \in {"deleteAlbum", "deleteAccount"} /\ k = Nil
    BY <2>1 DEF BeginDelete
  <2> HIDE DEF Job, Label
  <2> QED
    BY <2>1, <2>2, BeginDeleteFacts
<1>3. CASE \E k \in Key : DeleteObject(t, k)
  BY <1>3 DEF DeleteObject
<1>4. CASE BeginConvert(t)
  <2> HIDE DEF Job, Label
  <2> QED
    BY <1>4, BeginConvertFacts
<1>5. CASE ReadSvg(t) \/ SweepSvg(t) \/ Cleanup(t) \/ InsertTrack(t) \/ DeleteRow(t)
           \/ DeleteAlbum(t) \/ DeleteAccount(t) \/ CutOff(t)
  <2>1. End(t) \/ (ReadSvg(t) /\ Continue(t, "previous"))
    BY <1>5 DEF ReadSvg, SweepSvg, Cleanup, InsertTrack, DeleteRow, DeleteAlbum,
                DeleteAccount, CutOff
  <2>2. CASE ReadSvg(t) /\ Continue(t, "previous")
    BY <2>2 DEF ReadSvg
  <2> QED
    BY <2>1, <2>2, EndFacts
<1>6. CASE FindAvatar(t)
  <2>1. PICK j \in Job : /\ j.op = job[t].op /\ j.key = job[t].key /\ j.keys = job[t].keys
                         /\ job' = [job EXCEPT ![t] = j]
    <3>1. CASE UNCHANGED job
      BY <3>1
    <3>2. CASE job' # job
      <4>1. PICK k \in Rows : job' = [job EXCEPT ![t].prev = k]
        BY <1>6, <3>2 DEF FindAvatar
      <4> QED
        BY <4>1
    <3> QED
      BY <3>1, <3>2
  <2> QED
    BY <1>6, <2>1 DEF FindAvatar
<1>7. CASE Put(t)
  <2>1. PICK k \in Key : job' = [job EXCEPT ![t].key = k]
    BY <1>7 DEF Put
  <2> QED
    BY <1>7, <2>1 DEF Put
<1>8. CASE InsertRow(t)
  BY <1>8 DEF InsertRow, AfterRow
<1>9. CASE SetAvatarKey(t)
  <2>1. CASE End(t)
    BY <2>1, EndFacts
  <2>2. CASE ~End(t)
    BY <1>9, <2>2 DEF SetAvatarKey
  <2> QED
    BY <2>1, <2>2
<1>10. CASE DefaultAlbum(t)
  <2>1. PICK a \in Album \cup {Nil} : job' = [job EXCEPT ![t].album = a]
    <3>1. CASE UNCHANGED job
      BY <3>1
    <3>2. CASE job' # job
      <4>1. albums \subseteq Album
        BY MediaAssumption DEF Album
      <4> QED
        BY <1>10, <3>2, <4>1 DEF DefaultAlbum
    <3> QED
      BY <3>1, <3>2
  <2>2. /\ job' \in [Task -> Job] /\ job'[t].op = job[t].op /\ job'[t].key = job[t].key
        /\ job'[t].keys = job[t].keys
    BY <2>1
  <2>3. stage[t] = "album" /\ stage' \in [Task -> Label] /\ stage'[t] \in {"attach", "newAlbum"}
    BY <1>10 DEF DefaultAlbum
  <2> HIDE DEF Job, Label
  <2> QED
    BY <2>2, <2>3
<1>11. CASE NewAlbum(t)
  <2>1. MakeAlbum => made + 1 \in Album
    BY MediaAssumption DEF MakeAlbum, Album
  <2>2. CASE End(t)
    BY <2>2, EndFacts
  <2>3. CASE ~End(t)
    <3>1. /\ stage[t] = "newAlbum" /\ stage' = [stage EXCEPT ![t] = "attach"]
          /\ job' = [job EXCEPT ![t].album = made + 1] /\ made + 1 \in Album
      BY <1>11, <2>1, <2>3 DEF NewAlbum
    <3>2. /\ job' \in [Task -> Job] /\ job'[t].op = job[t].op /\ job'[t].key = job[t].key
          /\ job'[t].keys = job[t].keys
      BY <3>1
    <3>3. stage' \in [Task -> Label] /\ stage'[t] = "attach"
      BY <3>1
    <3> HIDE DEF Job, Label
    <3> QED
      BY <3>1, <3>2, <3>3
  <2> QED
    BY <2>2, <2>3
<1>12. CASE AttachPhoto(t)
  <2>1. CASE End(t)
    BY <2>1, EndFacts
  <2>2. CASE ~End(t)
    <3>1. stage[t] = "attach" /\ job[t].op = "avatar" /\ Continue(t, "dropPrevious")
      BY <1>12, <2>2 DEF AttachPhoto
    <3> QED
      BY <3>1
  <2> QED
    BY <2>1, <2>2
<1>13. CASE DropPrevious(t) \/ DropRow(t)
  <2>1. CASE End(t)
    BY <2>1, EndFacts
  <2>2. CASE ~End(t)
    <3>1. /\ stage[t] \in {"dropPrevious", "dropRow"}
          /\ \/ job[t].op = "convert" /\ Continue(t, "sweep")
             \/ job[t].prev # Nil /\ Continue(t, "dropRow")
      BY <1>13, <2>2 DEF DropPrevious, DropRow, Replaced
    <3> QED
      BY <3>1
  <2> QED
    BY <2>1, <2>2
<1>14. CASE StorageKeys(t)
  <2>1. PICK set \in SUBSET Key : job' = [job EXCEPT ![t].keys = set]
    BY <1>14 DEF StorageKeys
  <2> QED
    BY <1>14, <2>1 DEF StorageKeys
<1>15. CASE ObjectsDeleted(t)
  BY <1>15 DEF ObjectsDeleted
<1>16. CASE DeleteTrack(t)
  <2>1. CASE End(t)
    BY <2>1, EndFacts
  <2>2. CASE ~End(t)
    <3>1. stage[t] = "deleteTrack" /\ Continue(t, "deleteRow")
      BY <1>16, <2>2 DEF DeleteTrack
    <3> QED
      BY <3>1
  <2> QED
    BY <2>1, <2>2
<1>17. CASE AlbumLinks(t)
  <2>1. job' = [job EXCEPT ![t].keys = AttachedTo(job[t].album)] /\ AttachedTo(job[t].album) \in SUBSET Key
    BY <1>17 DEF AlbumLinks
  <2> QED
    BY <1>17, <2>1 DEF AlbumLinks
<1> QED
  BY <1>1, <1>2, <1>3, <1>4, <1>5, <1>6, <1>7, <1>8, <1>9, <1>10, <1>11, <1>12, <1>13,
     <1>14, <1>15, <1>16, <1>17 DEF Act, MediaStep

-----------------------------------------------------------------------------
(***************************************************************************)
(* Which calls change what.                                                *)
(***************************************************************************)
Removal(t) == DropRow(t) \/ DeleteRow(t) \/ DeleteAlbum(t) \/ DeleteAccount(t)
ObjectCall(t) ==
  \/ Put(t) \/ Cleanup(t) \/ DropPrevious(t) \/ SweepSvg(t)
  \/ \E k \in Key : DeleteObject(t, k)

LEMMA Frame ==
  ASSUME NEW t \in Task, Act(t)
  PROVE  /\ UNCHANGED objects \/ ObjectCall(t)
         /\ UNCHANGED born \/ InsertRow(t) \/ Removal(t)
         /\ UNCHANGED kind \/ InsertRow(t)
         /\ UNCHANGED links \/ AttachPhoto(t) \/ Removal(t)
         /\ UNCHANGED tracks \/ InsertTrack(t) \/ DeleteTrack(t) \/ Removal(t)
         /\ UNCHANGED avatar \/ SetAvatarKey(t) \/ DeleteAccount(t)
         /\ UNCHANGED account \/ DeleteAccount(t)
         /\ UNCHANGED folders \/ NewAlbum(t) \/ DeleteAlbum(t) \/ DeleteAccount(t)
         /\ UNCHANGED used \/ Put(t)
         /\ UNCHANGED cut \/ DropPrevious(t) \/ SweepSvg(t) \/ CutOff(t)
         /\ UNCHANGED late \/ InsertRow(t) \/ AttachPhoto(t)
         /\ UNCHANGED byHand \/ (\E k \in Key : DeleteObject(t, k))
         /\ \/ UNCHANGED rivals
            \/ \E op \in Ops, a \in Album \cup {Nil} : BeginUpload(t, op, a)
            \/ BeginConvert(t)
<1> USE DEF rows, folders, doubts, ObjectCall, Removal
<1>1. CASE \E op \in Ops, a \in Album \cup {Nil} : BeginUpload(t, op, a)
  BY <1>1 DEF BeginUpload
<1>2. CASE \E op \in Ops, k \in Key \cup {Nil}, a \in Album \cup {Nil} : BeginDelete(t, op, k, a)
  BY <1>2 DEF BeginDelete
<1>3. CASE \E k \in Key : DeleteObject(t, k)
  BY <1>3 DEF DeleteObject
<1>4. CASE BeginConvert(t) \/ ReadSvg(t) \/ SweepSvg(t) \/ Cleanup(t) \/ InsertTrack(t)
  BY <1>4 DEF BeginConvert, ReadSvg, SweepSvg, Cleanup, InsertTrack
<1>5. CASE DeleteRow(t) \/ DeleteAlbum(t) \/ DeleteAccount(t) \/ CutOff(t) \/ DropRow(t)
  BY <1>5 DEF DeleteRow, DeleteAlbum, DeleteAccount, CutOff, DropRow
<1>6. CASE FindAvatar(t) \/ Put(t) \/ InsertRow(t) \/ SetAvatarKey(t) \/ DefaultAlbum(t)
  BY <1>6 DEF FindAvatar, Put, InsertRow, SetAvatarKey, DefaultAlbum
<1>7. CASE NewAlbum(t) \/ AttachPhoto(t) \/ DropPrevious(t) \/ StorageKeys(t)
  BY <1>7 DEF NewAlbum, AttachPhoto, DropPrevious, StorageKeys
<1>8. CASE ObjectsDeleted(t) \/ DeleteTrack(t) \/ AlbumLinks(t)
  BY <1>8 DEF ObjectsDeleted, DeleteTrack, AlbumLinks
<1> QED
  BY <1>1, <1>2, <1>3, <1>4, <1>5, <1>6, <1>7, <1>8 DEF Act, MediaStep

(***************************************************************************)
(* The rows, the links and the tracks after each of these calls.           *)
(***************************************************************************)
Gone(t) ==
  IF stage[t] = "dropRow" THEN {job[t].prev}
  ELSE IF stage[t] = "deleteRow" THEN {job[t].key}
  ELSE IF stage[t] = "deleteAlbum" THEN job[t].keys
  ELSE Key

LEMMA RemovalFacts ==
  ASSUME MediaTypes, NEW t \in Task, Fits(t), Removal(t)
  PROVE  /\ stage[t] \in {"dropRow", "deleteRow", "deleteAlbum", "deleteAccount"}
         /\ Gone(t) \in SUBSET Key
         /\ born' \in [Key -> Nat] /\ (Dated => Dated')
         /\ Rows' = Rows \ Gone(t)
         /\ links' \subseteq links
         /\ \A l \in links' : l[2] \notin Gone(t)
         /\ stage[t] = "deleteAlbum" => \A l \in links' : l[1] # job[t].album
         /\ \A l \in links \ links' : l[2] \in Gone(t) \/ (stage[t] = "deleteAlbum" /\ l[1] = job[t].album)
         /\ tracks' \subseteq tracks /\ tracks \ tracks' \subseteq Gone(t)
<1> USE JobFacts, KeyFacts
<1>1. CASE DropRow(t)
  <2>1. stage[t] = "dropRow" /\ DeleteRows({job[t].prev}) /\ {job[t].prev} \in SUBSET Key
    BY <1>1 DEF DropRow, Fits
  <2> QED
    BY <2>1, DeleteRowsFacts DEF Gone
<1>2. CASE DeleteRow(t)
  <2>1. stage[t] = "deleteRow" /\ DeleteRows({job[t].key}) /\ {job[t].key} \in SUBSET Key
    BY <1>2 DEF DeleteRow, Fits
  <2> QED
    BY <2>1, DeleteRowsFacts DEF Gone
<1>3. CASE DeleteAlbum(t)
  <2>1. /\ stage[t] = "deleteAlbum" /\ Gone(t) = job[t].keys
        /\ born' = [k \in Key |-> IF k \in job[t].keys THEN 0 ELSE born[k]]
        /\ links' = {l \in links : l[2] \notin job[t].keys /\ l[1] # job[t].album}
        /\ tracks' = tracks
    BY <1>3 DEF DeleteAlbum, Gone
  <2>2. born \in [Key -> Nat]
    BY DEF MediaTypes
  <2>3. Dated => Dated'
    <3> SUFFICES ASSUME NEW b \in Nat, \A k \in Key : born[k] <= b
                 PROVE  \A k \in Key : born'[k] <= b
      BY DEF Dated
    <3> QED
      BY <2>1, <2>2
  <2> QED
    BY <2>1, <2>2, <2>3 DEF Rows
<1>4. CASE DeleteAccount(t)
  <2>1. /\ stage[t] = "deleteAccount" /\ Gone(t) = Key
        /\ born' = [k \in Key |-> 0] /\ links' = {} /\ tracks' = {}
    BY <1>4 DEF DeleteAccount, Gone
  <2>2. Dated'
    BY <2>1 DEF Dated
  <2>3. \A l \in links : l[2] \in Key
    BY RowsFacts DEF MediaTypes
  <2> QED
    BY <2>1, <2>2, <2>3 DEF Rows, MediaTypes
<1> QED
  BY <1>1, <1>2, <1>3, <1>4 DEF Removal

LEMMA InsertRowFacts ==
  ASSUME MediaTypes, Dated, NEW t \in Task, Fits(t), InsertRow(t)
  PROVE  /\ stage[t] = "row" /\ job' = job /\ job[t].key \in Key
         /\ born' \in [Key -> Nat] /\ Dated' /\ kind' \in [Key -> Sorts]
         /\ late \subseteq late' /\ late' \subseteq late \cup {job[t].key}
         /\ \/ /\ account /\ Rows' = Rows \cup {job[t].key}
               /\ kind' = [kind EXCEPT ![job[t].key] =
                             IF job[t].op \in AvatarOps THEN "avatar" ELSE job[t].op]
               /\ AccountGoing => job[t].key \in late'
               /\ stage'[t] = AfterRow(job[t].op)
            \/ /\ ~account /\ Rows' = Rows /\ UNCHANGED <<kind, late>>
               /\ stage'[t] = "cleanup"
<1>1. stage[t] = "row" /\ job' = job /\ job[t].key \in Key
  BY JobFacts DEF InsertRow, Continue, Fits
<1>2. job[t].op \in Uploads \cup AvatarOps
  BY <1>1 DEF Fits
<1>3. CASE account /\ NewRow(job[t].key, job[t].op) /\ Continue(t, AfterRow(job[t].op))
  <2>1. stage'[t] = AfterRow(job[t].op)
    BY <1>3 DEF Continue, Proceed, MediaTypes
  <2> QED
    BY <1>1, <1>2, <1>3, <2>1, NewRowFacts
<1>4. CASE ~account /\ Continue(t, "cleanup") /\ UNCHANGED <<born, kind, late>>
  <2>1. Rows' = Rows
    BY <1>4 DEF Rows
  <2> QED
    BY <1>1, <1>4, <2>1 DEF Continue, Proceed, MediaTypes, Dated
<1> QED
  BY <1>3, <1>4 DEF InsertRow

LEMMA RowsStep ==
  ASSUME MediaTypes, Dated, NEW t \in Task, Fits(t), Act(t)
  PROVE  /\ born' \in [Key -> Nat] /\ Dated'
         /\ Rows' \subseteq Rows \cup {job[t].key}
         /\ Rows' = Rows \/ InsertRow(t) \/ Removal(t)
         /\ Rows' \subseteq Rows \/ (InsertRow(t) /\ account)
<1>1. CASE UNCHANGED born
  BY <1>1 DEF Rows, MediaTypes, Dated
<1>2. CASE InsertRow(t)
  BY <1>2, InsertRowFacts
<1>3. CASE Removal(t)
  BY <1>3, RemovalFacts
<1> QED
  BY <1>1, <1>2, <1>3, Frame

LEMMA MediaTypesStep ==
  ASSUME MediaTypes, Dated, NEW t \in Task, Fits(t), Act(t)
  PROVE  MediaTypes'
<1> USE JobFacts, RowsFacts DEF MediaTypes
<1>1. stage' \in [Task -> Label] /\ job' \in [Task -> Job]
  BY JobStep
<1>2. born' \in [Key -> Nat]
  BY RowsStep
<1>3. kind' \in [Key -> Sorts]
  BY Frame, InsertRowFacts
<1>4. avatar' \in Key \cup {Nil} /\ account' \in BOOLEAN
  BY Frame DEF SetAvatarKey, DeleteAccount
<1>5. objects' \in SUBSET Key /\ used' \in SUBSET Key
  <2>1. used' \in SUBSET Key
    BY Frame DEF Put
  <2>2. CASE ObjectCall(t)
    BY <2>2 DEF ObjectCall, Put, Cleanup, DropPrevious, SweepSvg, DeleteObject
  <2> QED
    BY <2>1, <2>2, Frame
<1>6. tracks' \in SUBSET Key
  BY Frame, RemovalFacts DEF InsertTrack, DeleteTrack
<1>7. cut' \in SUBSET Key /\ late' \in SUBSET Key /\ byHand' \in SUBSET Key
  <2>1. cut' \in SUBSET Key
    BY Frame DEF DropPrevious, SweepSvg, CutOff
  <2>2. late' \in SUBSET Key
    BY Frame, InsertRowFacts DEF AttachPhoto
  <2>3. byHand' \in SUBSET Key
    BY Frame DEF DeleteObject
  <2> QED
    BY <2>1, <2>2, <2>3
<1>8. rivals' \in BOOLEAN
  BY Frame DEF BeginUpload, BeginConvert
<1>9. /\ made' \in 0 .. MaxAlbums /\ albums' \in SUBSET (1 .. made')
      /\ links' \in SUBSET (albums' \X Rows')
  <2>1. made \in Nat /\ MaxAlbums \in Nat
    BY MediaAssumption
  <2>2. CASE Removal(t)
    <3>1. links' \subseteq links /\ \A l \in links' : l[2] \in Rows'
      BY <2>2, RemovalFacts
    <3>2. CASE DeleteAlbum(t)
      <4>1. albums' = albums \ {job[t].album} /\ made' = made
        BY <3>2 DEF DeleteAlbum
      <4>2. \A l \in links' : l[1] # job[t].album
        BY <3>2, RemovalFacts DEF Removal, DeleteAlbum
      <4> QED
        BY <3>1, <4>1, <4>2
    <3>3. CASE DeleteAccount(t)
      BY <3>3 DEF DeleteAccount
    <3>4. CASE DropRow(t) \/ DeleteRow(t)
      <4>1. albums' = albums /\ made' = made
        BY <3>4 DEF DropRow, DeleteRow, folders
      <4> QED
        BY <3>1, <4>1
    <3> QED
      BY <2>2, <3>2, <3>3, <3>4 DEF Removal
  <2>3. CASE NewAlbum(t)
    <3>1. links' = links /\ Rows' = Rows
      BY <2>3 DEF NewAlbum, rows, Rows
    <3>2. CASE MakeAlbum
      <4>1. made + 1 \in 0 .. MaxAlbums /\ 1 .. made \subseteq 1 .. (made + 1) /\ made + 1 \in 1 .. (made + 1)
        BY <2>1, <3>2 DEF MakeAlbum
      <4> QED
        BY <3>1, <3>2, <4>1 DEF MakeAlbum
    <3>3. CASE UNCHANGED folders
      BY <3>1, <3>3 DEF folders
    <3> QED
      BY <2>3, <3>2, <3>3 DEF NewAlbum
  <2>4. CASE AttachPhoto(t)
    <3>1. Rows' = Rows /\ albums' = albums /\ made' = made
      BY <2>4 DEF AttachPhoto, folders, Rows
    <3>2. \/ links' = links
          \/ job[t].album \in albums /\ job[t].key \in Rows
             /\ links' = links \cup {<<job[t].album, job[t].key>>}
      BY <2>4 DEF AttachPhoto
    <3> QED
      BY <3>1, <3>2
  <2>5. CASE UNCHANGED <<folders, links>> /\ ~Removal(t)
    <3>1. Rows \subseteq Rows'
      BY <2>5, RowsStep, InsertRowFacts
    <3> QED
      BY <2>5, <3>1 DEF folders
  <2> QED
    BY <2>2, <2>3, <2>4, <2>5, Frame DEF Removal
<1> QED
  BY <1>1, <1>2, <1>3, <1>4, <1>5, <1>6, <1>7, <1>8, <1>9

-----------------------------------------------------------------------------
(***************************************************************************)
(* What a request gets into its hands, and what it does to the bucket and  *)
(* the tables with it.                                                     *)
(***************************************************************************)
LEMMA HandsStep ==
  ASSUME MediaTypes, NEW t \in Task, Fits(t), Act(t)
  PROVE  KeysOf(t)' \subseteq
           KeysOf(t) \cup Rows \cup tracks \cup ({avatar} \ {Nil}) \cup (used' \ used)
<1> USE JobFacts, RowsFacts, KeyFacts DEF MediaTypes, KeysOf
<1>1. CASE End(t)
  BY <1>1, EndFacts
<1>2. CASE UNCHANGED job
  BY <1>2
<1>3. CASE \E op \in Ops, a \in Album \cup {Nil} : BeginUpload(t, op, a)
  BY <1>3, BeginUploadFacts
<1>4. CASE \E op \in Ops, k \in Key \cup {Nil}, a \in Album \cup {Nil} : BeginDelete(t, op, k, a)
  <2>1. PICK op \in Ops, k \in Key \cup {Nil}, a \in Album \cup {Nil} : BeginDelete(t, op, k, a)
    BY <1>4
  <2>2. k = Nil \/ k \in Rows \cup tracks
    BY <2>1 DEF BeginDelete
  <2>3. job'[t].key = k /\ job'[t].prev = Nil /\ job'[t].keys = {k} \cap Rows
    BY <2>1, BeginDeleteFacts
  <2> QED
    BY <2>2, <2>3
<1>5. CASE BeginConvert(t)
  BY <1>5, BeginConvertFacts
<1>6. CASE ~End(t) /\ (FindAvatar(t) \/ DefaultAlbum(t) \/ NewAlbum(t))
  <2>1. \/ job' = job
        \/ \E k \in Rows : job' = [job EXCEPT ![t].prev = k]
        \/ \E a : job' = [job EXCEPT ![t].album = a]
    <3>1. CASE FindAvatar(t)
      BY <3>1 DEF FindAvatar
    <3>2. CASE DefaultAlbum(t)
      BY <3>2 DEF DefaultAlbum, Continue
    <3>3. CASE NewAlbum(t)
      BY <1>6, <3>3 DEF NewAlbum
    <3> QED
      BY <1>6, <3>1, <3>2, <3>3
  <2>2. /\ job'[t].key = job[t].key /\ job'[t].keys = job[t].keys
        /\ job'[t].prev \in {job[t].prev} \cup Rows
    BY <2>1 DEF Job
  <2> QED
    BY <2>2
<1>7. CASE Put(t)
  <2>1. PICK k \in Key \ used : used' = used \cup {k} /\ job' = [job EXCEPT ![t].key = k]
    BY <1>7 DEF Put
  <2>2. job'[t].key = k /\ job'[t].prev = job[t].prev /\ job'[t].keys = job[t].keys
    BY <2>1
  <2> QED
    BY <2>1, <2>2
<1>8. CASE StorageKeys(t) \/ AlbumLinks(t)
  <2>1. PICK set \in SUBSET Rows : job' = [job EXCEPT ![t].keys = set]
    BY <1>8 DEF StorageKeys, AlbumLinks
  <2>2. job'[t].key = job[t].key /\ job'[t].prev = job[t].prev /\ job'[t].keys = set
    BY <2>1
  <2> QED
    BY <2>1, <2>2
<1>9. CASE \E k \in Key : DeleteObject(t, k)
  BY <1>2, <1>9 DEF DeleteObject
<1>10. ASSUME MediaStep(t), ~End(t), job' # job
       PROVE  \/ FindAvatar(t) \/ DefaultAlbum(t) \/ NewAlbum(t) \/ Put(t) \/ BeginConvert(t)
              \/ StorageKeys(t) \/ AlbumLinks(t)
  BY <1>10 DEF MediaStep, InsertRow, Cleanup, SetAvatarKey, AttachPhoto, InsertTrack,
               DropPrevious, DropRow, Replaced, ReadSvg, SweepSvg, ObjectsDeleted, DeleteRow,
               DeleteTrack, DeleteAlbum, DeleteAccount, CutOff, Continue
<1> QED
  BY <1>1, <1>2, <1>3, <1>4, <1>5, <1>6, <1>7, <1>8, <1>9, <1>10 DEF Act

LEMMA ReachStep ==
  ASSUME MediaTypes, NEW t \in Task, Fits(t), Act(t)
  PROVE  /\ objects \ objects' \subseteq KeysOf(t) /\ objects' \ objects \subseteq used' \ used
         /\ tracks' \ tracks \subseteq KeysOf(t)
         /\ avatar' \in {avatar, Nil} \cup KeysOf(t)
         /\ used \subseteq used'
         /\ cut \subseteq cut' /\ late \subseteq late' /\ byHand \subseteq byHand'
         /\ rivals => rivals'
<1> USE JobFacts, KeyFacts DEF MediaTypes, KeysOf
<1>1. objects \ objects' \subseteq KeysOf(t) /\ objects' \ objects \subseteq used' \ used
  <2>1. CASE Put(t)
    BY <2>1 DEF Put
  <2>2. CASE ObjectCall(t) /\ ~Put(t)
    BY <2>2 DEF ObjectCall, Cleanup, DropPrevious, SweepSvg, DeleteObject, Fits
  <2> QED
    BY <2>1, <2>2, Frame
<1>2. tracks' \ tracks \subseteq KeysOf(t)
  <2>1. CASE InsertTrack(t)
    <3>1. job[t].key \in Rows => job[t].key \in KeysOf(t)
      BY RowsFacts
    <3>2. tracks' = tracks \/ (job[t].key \in Rows /\ tracks' = tracks \cup {job[t].key})
      BY <2>1 DEF InsertTrack
    <3> QED
      BY <3>1, <3>2
  <2>2. CASE DeleteTrack(t)
    BY <2>2 DEF DeleteTrack
  <2>3. CASE Removal(t)
    BY <2>3, RemovalFacts
  <2> QED
    BY <2>1, <2>2, <2>3, Frame
<1>3. avatar' \in {avatar, Nil} \cup KeysOf(t)
  BY Frame DEF SetAvatarKey, DeleteAccount
<1>4. used \subseteq used'
  BY Frame DEF Put
<1>5. cut \subseteq cut' /\ late \subseteq late' /\ byHand \subseteq byHand'
  <2>1. cut \subseteq cut'
    BY Frame DEF DropPrevious, SweepSvg, CutOff
  <2>2. late \subseteq late'
    BY Frame DEF InsertRow, NewRow, AttachPhoto
  <2>3. byHand \subseteq byHand'
    BY Frame DEF DeleteObject
  <2> QED
    BY <2>1, <2>2, <2>3
<1>6. rivals => rivals'
  BY Frame DEF BeginUpload, BeginConvert
<1> QED
  BY <1>1, <1>2, <1>3, <1>4, <1>5, <1>6

(***************************************************************************)
(* What the invariants say of the hands of the requests.                   *)
(***************************************************************************)
Hands == Drawn /\ \A t \in Task : Fits(t) /\ Unborn(t) /\ Parted(t)

LEMMA DrawnStep ==
  ASSUME MediaTypes, Dated, Drawn, NEW t \in Task, Fits(t), Act(t)
  PROVE  Drawn'
<1> USE DEF Drawn
<1>1. used \subseteq used' /\ KeysOf(t) \subseteq used
  BY ReachStep
<1>2. KeysOf(t)' \subseteq used'
  BY <1>1, HandsStep, MediaTypesStep DEF MediaTypes
<1>3. objects' \subseteq used' /\ tracks' \subseteq used' /\ (avatar' # Nil => avatar' \in used')
  BY <1>1, ReachStep, MediaTypesStep DEF MediaTypes
<1>4. Rows' \subseteq used'
  <2>1. CASE Rows' \subseteq Rows
    BY <1>1, <2>1
  <2>2. CASE InsertRow(t)
    BY <1>1, <2>2, RowsStep, InsertRowFacts, KeyFacts DEF KeysOf
  <2> QED
    BY <2>1, <2>2, RowsStep
<1>5. ASSUME NEW s \in Task, s # t
      PROVE  KeysOf(s)' \subseteq used'
  BY <1>1, <1>5, OthersStay
<1> QED
  BY <1>2, <1>3, <1>4, <1>5
-----------------------------------------------------------------------------
(***************************************************************************)
(* From which call a request takes each step, and to which.                *)
(***************************************************************************)
Begins(t) ==
  \/ \E op \in Ops, a \in Album \cup {Nil} : BeginUpload(t, op, a)
  \/ \E op \in Ops, k \in Key \cup {Nil}, a \in Album \cup {Nil} : BeginDelete(t, op, k, a)
  \/ BeginConvert(t)

LEMMA Departures ==
  ASSUME NEW t \in Task, Act(t)
  PROVE  /\ stage[t] = "idle" => Begins(t)
         /\ stage[t] = "row" => InsertRow(t) \/ CutOff(t)
         /\ stage[t] = "cleanup" => Cleanup(t) \/ CutOff(t)
         /\ stage[t] = "dropRow" => DropRow(t) \/ CutOff(t)
         /\ stage[t] = "deleteObjects" =>
              (\E k \in Key : DeleteObject(t, k)) \/ ObjectsDeleted(t) \/ CutOff(t)
         /\ stage[t] = "deleteRow" => DeleteRow(t) \/ CutOff(t)
         /\ stage[t] = "deleteTrack" => DeleteTrack(t) \/ CutOff(t)
         /\ stage[t] = "links" => AlbumLinks(t) \/ CutOff(t)
         /\ stage[t] = "deleteAlbum" => DeleteAlbum(t) \/ CutOff(t)
         /\ stage[t] = "deleteAccount" => DeleteAccount(t) \/ CutOff(t)
         /\ stage[t] # "idle" => ~Begins(t)
<1> DEFINE from == stage[t]
<1>1. Begins(t) => from = "idle"
  BY DEF Begins, BeginUpload, BeginDelete, BeginConvert
<1>2. /\ FindAvatar(t) => from = "previous"
      /\ Put(t) => from = "put"
      /\ InsertRow(t) => from = "row"
      /\ Cleanup(t) => from = "cleanup"
      /\ SetAvatarKey(t) => from = "setKey"
      /\ DefaultAlbum(t) => from = "album"
      /\ NewAlbum(t) => from = "newAlbum"
  BY DEF FindAvatar, Put, InsertRow, Cleanup, SetAvatarKey, DefaultAlbum, NewAlbum
<1>3. /\ AttachPhoto(t) => from = "attach"
      /\ InsertTrack(t) => from = "track"
      /\ DropPrevious(t) => from = "dropPrevious"
      /\ DropRow(t) => from = "dropRow"
      /\ ReadSvg(t) => from = "read"
      /\ SweepSvg(t) => from = "sweep"
      /\ StorageKeys(t) => from = "keys"
  BY DEF AttachPhoto, InsertTrack, DropPrevious, DropRow, ReadSvg, SweepSvg, StorageKeys
<1>4. /\ \A k \in Key : DeleteObject(t, k) => from = "deleteObjects"
      /\ ObjectsDeleted(t) => from = "deleteObjects"
      /\ DeleteRow(t) => from = "deleteRow"
      /\ DeleteTrack(t) => from = "deleteTrack"
      /\ AlbumLinks(t) => from = "links"
      /\ DeleteAlbum(t) => from = "deleteAlbum"
      /\ DeleteAccount(t) => from = "deleteAccount"
      /\ CutOff(t) => from # "idle"
  BY DEF DeleteObject, ObjectsDeleted, DeleteRow, DeleteTrack, AlbumLinks, DeleteAlbum,
         DeleteAccount, CutOff
<1> HIDE DEF from
<1>5. /\ from = "idle" => Begins(t)
      /\ from = "row" => InsertRow(t) \/ CutOff(t)
      /\ from = "cleanup" => Cleanup(t) \/ CutOff(t)
      /\ from = "dropRow" => DropRow(t) \/ CutOff(t)
      /\ from = "deleteObjects" =>
              (\E k \in Key : DeleteObject(t, k)) \/ ObjectsDeleted(t) \/ CutOff(t)
      /\ from = "deleteRow" => DeleteRow(t) \/ CutOff(t)
  BY <1>1, <1>2, <1>3, <1>4 DEF Act, MediaStep, Begins
<1>6. /\ from = "deleteTrack" => DeleteTrack(t) \/ CutOff(t)
      /\ from = "links" => AlbumLinks(t) \/ CutOff(t)
      /\ from = "deleteAlbum" => DeleteAlbum(t) \/ CutOff(t)
      /\ from = "deleteAccount" => DeleteAccount(t) \/ CutOff(t)
      /\ from # "idle" => ~Begins(t)
  BY <1>1, <1>2, <1>3, <1>4 DEF Act, MediaStep, Begins
<1> QED
  BY <1>5, <1>6 DEF from

LEMMA Arrivals ==
  ASSUME MediaTypes, NEW t \in Task, Fits(t), Act(t)
  PROVE  /\ stage'[t] \in Handled => Put(t) \/ InsertRow(t)
         /\ stage'[t] = "setKey" => InsertRow(t)
         /\ stage'[t] = "album" => InsertRow(t) \/ SetAvatarKey(t)
         /\ stage'[t] \in {"newAlbum", "attach"} => DefaultAlbum(t) \/ NewAlbum(t)
         /\ stage'[t] = "dropPrevious" => SetAvatarKey(t) \/ AttachPhoto(t)
         /\ stage'[t] = "dropRow" => DropPrevious(t)
         /\ stage'[t] = "sweep" => DropPrevious(t) \/ DropRow(t)
         /\ stage'[t] = "deleteObjects" =>
              \/ \E op \in Ops, k \in Key \cup {Nil}, a \in Album \cup {Nil} :
                   BeginDelete(t, op, k, a)
              \/ StorageKeys(t)
              \/ \E k \in Key : DeleteObject(t, k)
         /\ stage'[t] \in {"deleteRow", "deleteTrack"} => ObjectsDeleted(t) \/ DeleteTrack(t)
         /\ stage'[t] \in {"links", "deleteAccount"} => ObjectsDeleted(t)
         /\ stage'[t] = "deleteAlbum" => AlbumLinks(t)
<1> DEFINE to == stage'[t]
<1>1. End(t) => to = "idle"
  BY EndFacts
<1>2. \A label \in Label : Proceed(t, label) \/ Continue(t, label) => to = label
  BY DEF Proceed, Continue, MediaTypes
<1> HIDE DEF to
<1> USE DEF Label
<1>3. /\ \A op \in Ops, a \in Album \cup {Nil} :
           BeginUpload(t, op, a) => to \in {"previous", "put"}
      /\ BeginConvert(t) => to = "read"
      /\ \A op \in Ops, k \in Key \cup {Nil}, a \in Album \cup {Nil} :
           BeginDelete(t, op, k, a) => to \in {"keys", "deleteObjects"}
  BY <1>2 DEF BeginUpload, BeginConvert, BeginDelete
<1>4. /\ FindAvatar(t) => to = "put"
      /\ Put(t) => to = "row"
      /\ InsertRow(t) => to \in {"cleanup", "setKey", "album", "track"}
      /\ Cleanup(t) => to = "idle"
      /\ SetAvatarKey(t) => to \in {"album", "dropPrevious", "idle"}
      /\ DefaultAlbum(t) => to \in {"attach", "newAlbum"}
      /\ NewAlbum(t) => to \in {"attach", "idle"}
  <2>1. FindAvatar(t) => to = "put"
    BY <1>2 DEF FindAvatar
  <2>2. Put(t) => to = "row"
    BY <1>2 DEF Put
  <2>3. ASSUME InsertRow(t)
        PROVE  to \in {"cleanup", "setKey", "album", "track"}
    <3>1. job[t].op \in Uploads \cup AvatarOps
      BY <2>3 DEF InsertRow, Fits
    <3>2. AfterRow(job[t].op) \in {"setKey", "album", "track"}
      BY <3>1 DEF AfterRow, Uploads, AvatarOps
    <3> QED
      BY <1>2, <2>3, <3>2 DEF InsertRow
  <2>4. Cleanup(t) => to = "idle"
    BY <1>1 DEF Cleanup
  <2>5. SetAvatarKey(t) => to \in {"album", "dropPrevious", "idle"}
    BY <1>1, <1>2 DEF SetAvatarKey
  <2>6. DefaultAlbum(t) => to \in {"attach", "newAlbum"}
    BY <1>2 DEF DefaultAlbum
  <2>7. NewAlbum(t) => to \in {"attach", "idle"}
    BY <1>1, <1>2 DEF NewAlbum
  <2> QED
    BY <2>1, <2>2, <2>3, <2>4, <2>5, <2>6, <2>7
<1>5. /\ AttachPhoto(t) => to \in {"dropPrevious", "idle"}
      /\ InsertTrack(t) => to = "idle"
      /\ DropPrevious(t) => to \in {"dropRow", "sweep", "idle"}
      /\ DropRow(t) => to \in {"sweep", "idle"}
      /\ ReadSvg(t) => to \in {"previous", "idle"}
      /\ SweepSvg(t) => to = "idle"
      /\ StorageKeys(t) => to = "deleteObjects"
  <2>1. AttachPhoto(t) => to \in {"dropPrevious", "idle"}
    BY <1>1, <1>2 DEF AttachPhoto
  <2>2. InsertTrack(t) \/ SweepSvg(t) => to = "idle"
    BY <1>1 DEF InsertTrack, SweepSvg
  <2>3. DropPrevious(t) => to \in {"dropRow", "sweep", "idle"}
    BY <1>1, <1>2 DEF DropPrevious, Replaced
  <2>4. DropRow(t) => to \in {"sweep", "idle"}
    BY <1>1, <1>2 DEF DropRow, Replaced
  <2>5. ReadSvg(t) => to \in {"previous", "idle"}
    BY <1>1, <1>2 DEF ReadSvg
  <2>6. StorageKeys(t) => to = "deleteObjects"
    BY <1>2 DEF StorageKeys
  <2> QED
    BY <2>1, <2>2, <2>3, <2>4, <2>5, <2>6
<1>6. /\ ObjectsDeleted(t) => to \in {"deleteRow", "deleteTrack", "links", "deleteAccount"}
      /\ DeleteRow(t) => to = "idle"
      /\ DeleteTrack(t) => to \in {"deleteRow", "idle"}
      /\ AlbumLinks(t) => to = "deleteAlbum"
      /\ DeleteAlbum(t) \/ DeleteAccount(t) \/ CutOff(t) => to = "idle"
  <2>1. ASSUME ObjectsDeleted(t)
        PROVE  to \in {"deleteRow", "deleteTrack", "links", "deleteAccount"}
    <3>1. job[t].op \in Deletions
      BY <2>1 DEF ObjectsDeleted, Fits
    <3> QED
      BY <1>2, <2>1, <3>1 DEF ObjectsDeleted, Deletions
  <2>2. DeleteTrack(t) => to \in {"deleteRow", "idle"}
    BY <1>1, <1>2 DEF DeleteTrack
  <2>3. AlbumLinks(t) => to = "deleteAlbum"
    BY <1>2 DEF AlbumLinks
  <2>4. DeleteRow(t) \/ DeleteAlbum(t) \/ DeleteAccount(t) \/ CutOff(t) => to = "idle"
    BY <1>1 DEF DeleteRow, DeleteAlbum, DeleteAccount, CutOff
  <2> QED
    BY <2>1, <2>2, <2>3, <2>4
<1>7. \A k \in Key : DeleteObject(t, k) => to = "deleteObjects"
  BY DEF DeleteObject, to
<1>8. /\ to \in Handled => Put(t) \/ InsertRow(t)
      /\ to = "setKey" => InsertRow(t)
      /\ to = "album" => InsertRow(t) \/ SetAvatarKey(t)
      /\ to \in {"newAlbum", "attach"} => DefaultAlbum(t) \/ NewAlbum(t)
      /\ to = "dropPrevious" => SetAvatarKey(t) \/ AttachPhoto(t)
      /\ to = "dropRow" => DropPrevious(t)
      /\ to = "sweep" => DropPrevious(t) \/ DropRow(t)
  BY <1>3, <1>4, <1>5, <1>6, <1>7 DEF Act, MediaStep, Handled
<1>9. /\ to = "deleteObjects" =>
           \/ \E op \in Ops, k \in Key \cup {Nil}, a \in Album \cup {Nil} :
                BeginDelete(t, op, k, a)
           \/ StorageKeys(t)
           \/ \E k \in Key : DeleteObject(t, k)
      /\ to \in {"deleteRow", "deleteTrack"} => ObjectsDeleted(t) \/ DeleteTrack(t)
      /\ to \in {"links", "deleteAccount"} => ObjectsDeleted(t)
      /\ to = "deleteAlbum" => AlbumLinks(t)
  BY <1>3, <1>4, <1>5, <1>6, <1>7 DEF Act, MediaStep
<1> QED
  BY <1>8, <1>9 DEF to
Reached == MediaTypes /\ Dated /\ MediaInv

(***************************************************************************)
(* What a request holds, it does not lose to others; what it is about to   *)
(* insert a row for, no other has.                                         *)
(***************************************************************************)
LEMMA PutFacts ==
  ASSUME MediaTypes, NEW t \in Task, Put(t)
  PROVE  \E k \in Key \ used :
           /\ used' = used \cup {k} /\ objects' = objects \cup {k}
           /\ job'[t].key = k /\ job'[t].prev = job[t].prev /\ job'[t].keys = job[t].keys
           /\ job'[t].op = job[t].op
           /\ Rows' = Rows /\ tracks' = tracks /\ avatar' = avatar
<1>1. PICK k \in Key \ used : /\ used' = used \cup {k} /\ objects' = objects \cup {k}
                              /\ job' = [job EXCEPT ![t].key = k]
  BY DEF Put
<1>2. job \in [Task -> Job]
  BY DEF MediaTypes
<1>3. /\ job'[t].key = k /\ job'[t].prev = job[t].prev /\ job'[t].keys = job[t].keys
      /\ job'[t].op = job[t].op
  BY <1>1, <1>2 DEF Job
<1>4. Rows' = Rows /\ tracks' = tracks /\ avatar' = avatar
  BY DEF Put, rows, Rows
<1> QED
  BY <1>1, <1>3, <1>4

LEMMA UnbornStep ==
  ASSUME Reached, NEW t \in Task, Act(t), NEW s \in Task
  PROVE  Unborn(s)'
<1> SUFFICES ASSUME stage'[s] \in Handled
             PROVE  /\ job'[s].key \in objects' /\ job'[s].key \notin Rows' \cup tracks'
                    /\ avatar' # job'[s].key
                    /\ \A u \in Task : u # s => job'[s].key \notin KeysOf(u)'
  BY DEF Unborn
<1> DEFINE k == job'[s].key
<1>1. /\ MediaTypes /\ Dated /\ Fits(t) /\ Fits(s) /\ Unborn(t) /\ Unborn(s) /\ Drawn
      /\ \A u \in Task : KeysOf(u) \subseteq used
  BY DEF Reached, MediaInv, Drawn
<1>2. CASE s # t
  <2>1. stage'[s] = stage[s] /\ job'[s] = job[s]
    BY <1>1, <1>2, OthersStay
  <2>2. /\ k \in objects /\ k \notin Rows \cup tracks /\ avatar # k
        /\ \A u \in Task : u # s => k \notin KeysOf(u)
    BY <1>1, <2>1 DEF Unborn
  <2>3. k # Nil /\ k \notin KeysOf(t) /\ k \in used
    <3>1. stage[s] \in Handled
      BY <2>1
    <3>2. k # Nil
      BY <1>1, <2>1, <3>1 DEF Fits, Handled
    <3> QED
      BY <1>1, <1>2, <2>2, <3>2 DEF Drawn
  <2>4. k # job[t].key
    BY <2>3 DEF KeysOf
  <2>5. Rows' \subseteq Rows \cup {job[t].key}
    BY <1>1, RowsStep
  <2>6. /\ objects \ objects' \subseteq KeysOf(t) /\ tracks' \ tracks \subseteq KeysOf(t)
        /\ avatar' \in {avatar, Nil} \cup KeysOf(t)
    BY <1>1, ReachStep
  <2>7. k \in objects' /\ k \notin Rows' \cup tracks' /\ avatar' # k
    BY <2>2, <2>3, <2>4, <2>5, <2>6
  <2>8. ASSUME NEW u \in Task, u # s
        PROVE  k \notin KeysOf(u)'
    <3>1. CASE u = t
      BY <1>1, <2>2, <2>3, <3>1, HandsStep
    <3>2. CASE u # t
      BY <1>1, <2>2, <2>8, <3>2, OthersStay
    <3> QED
      BY <3>1, <3>2
  <2> QED
    BY <2>7, <2>8
<1>3. CASE s = t
  <2>1. Put(t) \/ InsertRow(t)
    BY <1>1, <1>3, Arrivals
  <2>2. CASE Put(t)
    <3>1. PICK f \in Key \ used :
             /\ used' = used \cup {f} /\ objects' = objects \cup {f} /\ job'[t].key = f
             /\ Rows' = Rows /\ tracks' = tracks /\ avatar' = avatar
      BY <1>1, <2>2, PutFacts
    <3>2. f # Nil /\ f \notin Rows \cup tracks /\ avatar # f
      BY <1>1, KeyFacts DEF Drawn
    <3>3. ASSUME NEW u \in Task, u # s
          PROVE  f \notin KeysOf(u)'
      BY <1>1, <1>3, <3>3, OthersStay
    <3> QED
      BY <1>3, <3>1, <3>2, <3>3
  <2>3. CASE InsertRow(t)
    <3>1. stage[t] = "row" /\ job' = job /\ ~account /\ Rows' = Rows
      <4>1. AfterRow(job[t].op) \notin Handled
        <5>1. job[t].op \in Uploads \cup AvatarOps
          BY <1>1, <2>3 DEF InsertRow, Fits
        <5> QED
          BY <5>1 DEF AfterRow, Uploads, AvatarOps, Handled
      <4> QED
        BY <1>1, <1>3, <2>3, <4>1, InsertRowFacts
    <3>2. /\ job[t].key \in objects /\ job[t].key \notin Rows \cup tracks /\ avatar # job[t].key
          /\ \A u \in Task : u # t => job[t].key \notin KeysOf(u)
      BY <1>1, <3>1 DEF Unborn, Handled
    <3>3. objects' = objects /\ tracks' = tracks /\ avatar' = avatar
      BY <2>3 DEF InsertRow
    <3>4. ASSUME NEW u \in Task, u # t
          PROVE  job[t].key \notin KeysOf(u)'
      BY <1>1, <3>2, <3>4, OthersStay
    <3> QED
      BY <1>3, <3>1, <3>2, <3>3, <3>4
  <2> QED
    BY <2>1, <2>2, <2>3
<1> QED
  BY <1>2, <1>3

LEMMA PartedStep ==
  ASSUME Reached, NEW t \in Task, Act(t), NEW s \in Task
  PROVE  Parted(s)'
<1>1. MediaTypes /\ Fits(t) /\ Parted(t) /\ Parted(s) /\ KeysOf(t) \subseteq used
  BY DEF Reached, MediaInv, Drawn
<1>2. CASE s # t \/ job'[s] = job[s]
  BY <1>1, <1>2, OthersStay DEF Parted
<1>3. CASE s = t /\ (End(t) \/ Begins(t))
  <2>1. CASE End(t)
    BY <1>1, <1>3, <2>1, EndFacts, NoJobFacts DEF Parted
  <2>2. CASE BeginConvert(t)
    BY <1>1, <1>3, <2>2, BeginConvertFacts DEF Parted
  <2>3. CASE \E op \in Ops, a \in Album \cup {Nil} : BeginUpload(t, op, a)
    BY <1>1, <1>3, <2>3, BeginUploadFacts DEF Parted
  <2>4. CASE \E op \in Ops, k \in Key \cup {Nil}, a \in Album \cup {Nil} : BeginDelete(t, op, k, a)
    <3>1. PICK op \in Ops, k \in Key \cup {Nil}, a \in Album \cup {Nil} : BeginDelete(t, op, k, a)
      BY <2>4
    <3>2. job'[t].op = op /\ job'[t].key = k
      BY <1>1, <3>1, BeginDeleteFacts
    <3>3. k = Nil \/ op \in ByKey
      BY <3>1 DEF BeginDelete, ByKey
    <3> QED
      BY <1>3, <3>2, <3>3 DEF Parted
  <2> QED
    BY <1>3, <2>1, <2>2, <2>3, <2>4 DEF Begins
<1>4. CASE s = t /\ Put(t)
  <2>1. PICK k \in Key \ used :
          job'[t].key = k /\ job'[t].prev = job[t].prev /\ job'[t].keys = job[t].keys
    BY <1>1, <1>4, PutFacts
  <2> QED
    BY <1>1, <1>4, <2>1, KeyFacts DEF Parted, KeysOf
<1>5. CASE s = t /\ (FindAvatar(t) \/ StorageKeys(t) \/ AlbumLinks(t)) /\ ~End(t)
  <2>1. job[t].key = Nil
    BY <1>1, <1>5 DEF FindAvatar, StorageKeys, AlbumLinks, Fits
  <2>2. job'[t].key = job[t].key
    <3>1. \/ job' = job
          \/ \E k : job' = [job EXCEPT ![t].prev = k]
          \/ \E set : job' = [job EXCEPT ![t].keys = set]
      BY <1>5 DEF FindAvatar, StorageKeys, AlbumLinks
    <3>2. job \in [Task -> Job]
      BY <1>1 DEF MediaTypes
    <3> QED
      BY <3>1, <3>2 DEF Job
  <2> QED
    BY <1>5, <2>1, <2>2 DEF Parted
<1>6. CASE s = t /\ (DefaultAlbum(t) \/ NewAlbum(t)) /\ ~End(t)
  <2>1. job' = job \/ \E a : job' = [job EXCEPT ![t].album = a]
    BY <1>6 DEF DefaultAlbum, NewAlbum, Continue
  <2>2. job \in [Task -> Job]
    BY <1>1 DEF MediaTypes
  <2>3. /\ job'[t].key = job[t].key /\ job'[t].op = job[t].op
        /\ job'[t].prev = job[t].prev /\ job'[t].keys = job[t].keys
    BY <2>1, <2>2 DEF Job
  <2> QED
    BY <1>1, <1>6, <2>3 DEF Parted
<1>7. ASSUME s = t, ~End(t), ~Begins(t), job'[s] # job[s]
      PROVE  \/ FindAvatar(t) \/ DefaultAlbum(t) \/ NewAlbum(t) \/ Put(t)
             \/ StorageKeys(t) \/ AlbumLinks(t)
  BY <1>7 DEF Act, Begins, MediaStep, InsertRow, Cleanup, SetAvatarKey, AttachPhoto, InsertTrack,
              DropPrevious, DropRow, Replaced, ReadSvg, SweepSvg, ObjectsDeleted, DeleteRow,
              DeleteTrack, DeleteAlbum, DeleteAccount, CutOff, Continue, DeleteObject
<1> QED
  BY <1>2, <1>3, <1>4, <1>5, <1>6, <1>7
-----------------------------------------------------------------------------
(***************************************************************************)
(* What comes and goes with a call: a row, an object, a link, a track.     *)
(***************************************************************************)
LEMMA RowComes ==
  ASSUME Reached, NEW t \in Task, Act(t), NEW k \in Rows' \ Rows
  PROVE  /\ InsertRow(t) /\ account /\ k = job[t].key /\ k \in Key
         /\ k \in objects' /\ k \in KeysOf(t)
         /\ \A s \in Task : s # t => k \notin KeysOf(s)
         /\ AccountGoing => k \in late'
<1>1. MediaTypes /\ Dated /\ Fits(t) /\ Unborn(t)
  BY DEF Reached, MediaInv
<1>2. InsertRow(t) /\ account
  BY <1>1, RowsStep
<1>3. /\ stage[t] = "row" /\ k = job[t].key /\ job[t].key \in Key
      /\ AccountGoing => k \in late'
  BY <1>1, <1>2, InsertRowFacts
<1>4. k \in objects /\ \A s \in Task : s # t => k \notin KeysOf(s)
  BY <1>1, <1>3 DEF Unborn, Handled
<1>5. objects' = objects
  BY <1>2 DEF InsertRow
<1> QED
  BY <1>2, <1>3, <1>4, <1>5, KeyFacts DEF KeysOf

LEMMA RowGoes ==
  ASSUME Reached, NEW t \in Task, Act(t), NEW k \in Rows \ Rows'
  PROVE  Removal(t) /\ k \in Gone(t)
BY RowsStep, RemovalFacts, InsertRowFacts DEF Reached, MediaInv

LEMMA ObjectComes ==
  ASSUME Reached, NEW t \in Task, Act(t), NEW k \in objects' \ objects
  PROVE  k \notin used /\ Put(t) /\ k = job'[t].key
<1>1. MediaTypes /\ Fits(t)
  BY DEF Reached, MediaInv
<1>2. k \notin used
  BY <1>1, ReachStep
<1>3. Put(t)
  BY <1>1, Frame DEF ObjectCall, Cleanup, DropPrevious, SweepSvg, DeleteObject
<1> QED
  BY <1>1, <1>2, <1>3, PutFacts

LEMMA LinkComes ==
  ASSUME Reached, NEW t \in Task, Act(t), NEW a, NEW k, <<a, k>> \in links' \ links
  PROVE  AttachPhoto(t) /\ a = job[t].album /\ k = job[t].key /\ (AlbumGoing(a) => k \in late')
<1>1. MediaTypes /\ Fits(t)
  BY DEF Reached, MediaInv
<1>2. AttachPhoto(t)
  BY <1>1, Frame, RemovalFacts
<1> QED
  BY <1>2 DEF AttachPhoto

LEMMA LinkGoes ==
  ASSUME Reached, NEW t \in Task, Act(t), NEW a, NEW k \in Rows', <<a, k>> \in links \ links'
  PROVE  DeleteAlbum(t) /\ stage[t] = "deleteAlbum" /\ a = job[t].album /\ k \notin job[t].keys
<1>1. MediaTypes /\ Fits(t)
  BY DEF Reached, MediaInv
<1>2. Removal(t)
  BY <1>1, Frame DEF AttachPhoto
<1>3. k \notin Gone(t)
  BY <1>1, <1>2, RemovalFacts
<1>4. stage[t] = "deleteAlbum" /\ a = job[t].album
  <2>1. \A l \in links \ links' : l[2] \in Gone(t) \/ (stage[t] = "deleteAlbum" /\ l[1] = job[t].album)
    BY <1>1, <1>2, RemovalFacts
  <2> QED
    BY <1>3, <2>1
<1>5. DeleteAlbum(t)
  BY <1>2, <1>4 DEF Removal, DropRow, DeleteRow, DeleteAccount
<1> QED
  BY <1>3, <1>4, <1>5 DEF Gone

LEMMA TrackGoes ==
  ASSUME Reached, NEW t \in Task, Act(t), NEW k \in Rows', k \in tracks \ tracks'
  PROVE  /\ DeleteTrack(t) /\ k = job[t].key
         /\ job'[t] = job[t] /\ job[t].op = "deleteTrack" /\ stage'[t] = "deleteRow"
<1>1. MediaTypes /\ Fits(t)
  BY DEF Reached, MediaInv
<1>2. DeleteTrack(t)
  BY <1>1, Frame, RemovalFacts DEF InsertTrack
<1>3. k = job[t].key /\ Continue(t, "deleteRow") /\ stage[t] = "deleteTrack"
  BY <1>2 DEF DeleteTrack
<1> QED
  BY <1>1, <1>2, <1>3 DEF Fits, Continue, Proceed, MediaTypes

LEMMA CutFacts ==
  ASSUME Reached, NEW t \in Task, CutOff(t)
  PROVE  /\ KeysOf(t) \subseteq cut' /\ End(t)
         /\ Rows' = Rows /\ objects' = objects /\ links' = links /\ tracks' = tracks
BY DEF CutOff, rows, Rows

-----------------------------------------------------------------------------
(***************************************************************************)
(* A deletion that is about to delete a row goes on until it has, or is    *)
(* cut off, or leaves the row to the deletion it lost a track to.          *)
(***************************************************************************)
LEMMA RemovingStays ==
  ASSUME Reached, NEW t \in Task, Act(t), NEW u \in Task, NEW k \in Rows \cap Rows',
         k \notin cut' \cup late', Removing(u, k)
  PROVE  \E v \in Task : Removing(v, k)'
<1>1. MediaTypes /\ Fits(t) /\ Fits(u) /\ AlbumGoes(t)
  BY DEF Reached, MediaInv
<1>2. late \subseteq late' /\ cut \subseteq cut'
  BY <1>1, ReachStep
<1>3. ASSUME k \in tracks, k \notin tracks'
      PROVE  \E v \in Task : Removing(v, k)'
  BY <1>3, TrackGoes DEF Removing
<1>4. ASSUME NEW a, a = job[u].album, <<a, k>> \in links
      PROVE  <<a, k>> \in links'
  <2> SUFFICES ASSUME <<a, k>> \notin links'
               PROVE  FALSE
    OBVIOUS
  <2>1. stage[t] = "deleteAlbum" /\ a = job[t].album /\ k \notin job[t].keys
    BY <1>4, LinkGoes
  <2>2. job[t].op = "deleteAlbum"
    BY <1>1, <2>1 DEF Fits
  <2>3. k \in AttachedTo(job[t].album)
    BY <1>4, <2>1 DEF AttachedTo
  <2>4. AttachedTo(job[t].album) \subseteq job[t].keys \cup late
    BY <1>1, <2>1, <2>2 DEF AlbumGoes
  <2> QED
    BY <1>2, <2>1, <2>3, <2>4
<1>5. CASE stage'[u] = stage[u] /\ job'[u] = job[u]
  <2>1. k \in tracks => k \in tracks' \/ \E v \in Task : Removing(v, k)'
    BY <1>3
  <2> QED
    BY <1>4, <1>5, <2>1 DEF Removing
<1>6. CASE u = t /\ ~(stage'[u] = stage[u] /\ job'[u] = job[u])
  <2>1. stage[t] \in {"deleteObjects", "deleteRow", "deleteTrack", "links", "deleteAlbum",
                      "deleteAccount", "dropRow"} /\ k \in KeysOf(t)
    <3>1. k # Nil
      BY <1>1, RowsFacts, KeyFacts
    <3> QED
      BY <1>6, <3>1 DEF Removing, KeysOf
  <2>2. ~CutOff(t)
    BY <2>1, CutFacts
  <2>3. CASE stage[t] = "deleteObjects"
    <3>1. ObjectsDeleted(t)
      BY <1>6, <2>2, <2>3, Departures DEF DeleteObject
    <3>2. job[t].op \in Deletions
      BY <1>1, <2>3 DEF Fits
    <3>3. /\ job' = job /\ links' = links /\ tracks' = tracks
          /\ stage'[t] = CASE job[t].op = "deletePhoto" -> "deleteRow"
                           [] job[t].op = "deleteTrack" -> "deleteTrack"
                           [] job[t].op = "deleteAlbum" -> "links"
                           [] job[t].op = "deleteAccount" -> "deleteAccount"
      BY <1>1, <3>1 DEF ObjectsDeleted, Continue, Proceed, rows, MediaTypes
    <3>4. Removing(t, k)'
      BY <1>6, <2>3, <3>2, <3>3 DEF Removing, Deletions
    <3> QED
      BY <3>4
  <2>4. CASE stage[t] = "deleteTrack"
    <3>1. DeleteTrack(t) /\ job[t].op = "deleteTrack"
      BY <1>1, <2>2, <2>4, Departures DEF Fits
    <3>2. k = job[t].key /\ k \in tracks
      BY <1>6, <2>4, <3>1 DEF Removing
    <3>3. job'[t] = job[t] /\ stage'[t] = "deleteRow"
      BY <1>1, <3>1, <3>2 DEF DeleteTrack, Continue, Proceed, MediaTypes
    <3>4. Removing(t, k)'
      BY <3>1, <3>2, <3>3 DEF Removing
    <3> QED
      BY <3>4
  <2>5. CASE stage[t] = "links"
    <3>1. AlbumLinks(t) /\ job[t].op = "deleteAlbum"
      BY <1>1, <2>2, <2>5, Departures DEF Fits
    <3>2. <<job[t].album, k>> \in links
      BY <1>6, <2>5, <3>1 DEF Removing
    <3>3. k \in AttachedTo(job[t].album)
      BY <3>2 DEF AttachedTo
    <3>4. job'[t].keys = AttachedTo(job[t].album) /\ stage'[t] = "deleteAlbum"
      BY <1>1, <3>1 DEF AlbumLinks, Proceed, MediaTypes, Job
    <3>5. Removing(t, k)'
      BY <3>3, <3>4 DEF Removing
    <3> QED
      BY <3>5
  <2>6. CASE stage[t] \in {"deleteRow", "deleteAlbum", "deleteAccount", "dropRow"}
    <3>1. Removal(t)
      BY <2>2, <2>6, Departures DEF Removal
    <3>2. k \in Gone(t)
      <4>1. stage[t] = "deleteRow" => job[t].op \in ByKey
        BY <1>1 DEF Fits
      <4>2. stage[t] = "deleteAlbum" => job[t].op = "deleteAlbum"
        BY <1>1 DEF Fits
      <4>3. stage[t] = "dropRow" => job[t].op \in AvatarOps
        BY <1>1 DEF Fits
      <4>4. k \in Key
        BY <1>1, RowsFacts
      <4> QED
        BY <1>6, <2>6, <4>1, <4>2, <4>3, <4>4 DEF Removing, Gone, ByKey, AvatarOps
    <3> QED
      BY <1>1, <3>1, <3>2, RemovalFacts
  <2> QED
    BY <2>1, <2>3, <2>4, <2>5, <2>6
<1> QED
  BY <1>1, <1>5, <1>6, OthersStay
LEMMA StoredStep ==
  ASSUME Reached, NEW t \in Task, Act(t)
  PROVE  Stored'
<1>1. /\ MediaTypes /\ Fits(t) /\ Unborn(t) /\ OneGoes(t) /\ AlbumGoes(t) /\ Stored
  BY DEF Reached, MediaInv
<1>2. cut \subseteq cut' /\ late \subseteq late'
  BY <1>1, ReachStep
<1> SUFFICES ASSUME NEW k \in Rows', k \notin objects' \cup cut' \cup late'
             PROVE  \E v \in Task : Removing(v, k)'
  BY DEF Stored
<1>3. k \in Rows
  BY RowComes
<1>4. CASE k \notin objects
  <2>1. PICK u \in Task : Removing(u, k)
    BY <1>1, <1>2, <1>3, <1>4 DEF Stored
  <2> QED
    BY <1>3, <2>1, RemovingStays
<1>5. CASE k \in objects
  <2>1. ObjectCall(t)
    BY <1>5, Frame
  <2>2. ~Put(t)
    BY <1>1, <1>5, PutFacts
  <2>3. ~Cleanup(t)
    BY <1>1, <1>3, <1>5 DEF Cleanup, Unborn, Handled
  <2>4. ~SweepSvg(t)
    BY <1>5 DEF SweepSvg
  <2>5. CASE DropPrevious(t)
    <3>1. k = job[t].prev /\ Continue(t, "dropRow")
      BY <1>5, <2>5 DEF DropPrevious
    <3>2. stage'[t] = "dropRow" /\ job'[t] = job[t]
      BY <1>1, <3>1 DEF Continue, Proceed, MediaTypes
    <3>3. Removing(t, k)'
      BY <3>1, <3>2 DEF Removing
    <3> QED
      BY <3>3
  <2>6. CASE DeleteObject(t, k)
    <3>1. /\ stage[t] = "deleteObjects" /\ k \in job[t].keys /\ job[t].op \in Deletions
          /\ job' = job /\ stage' = stage /\ links' = links /\ tracks' = tracks /\ Rows' = Rows
      BY <1>1, <2>6 DEF DeleteObject, Fits, rows, Rows
    <3>2. job[t].op \in ByKey => k = job[t].key
      BY <1>1, <3>1 DEF Fits
    <3>3. CASE job[t].op \in {"deletePhoto", "deleteAccount"}
      <4>1. Removing(t, k)'
        BY <3>1, <3>2, <3>3 DEF Removing, ByKey
      <4> QED
        BY <4>1
    <3>4. CASE job[t].op = "deleteAlbum"
      <4>1. job[t].keys \cap Rows \subseteq AttachedTo(job[t].album) \cup late
        BY <1>1, <3>1, <3>4 DEF AlbumGoes
      <4>2. <<job[t].album, k>> \in links
        <5>1. k \in AttachedTo(job[t].album)
          BY <1>2, <1>3, <3>1, <4>1
        <5>2. PICK l \in links : l[1] = job[t].album /\ l[2] = k
          BY <5>1 DEF AttachedTo
        <5> QED
          BY <1>1, <5>2 DEF MediaTypes
      <4>3. Removing(t, k)'
        BY <3>1, <3>4, <4>2 DEF Removing
      <4> QED
        BY <4>3
    <3>5. CASE job[t].op = "deleteTrack"
      <4>1. CASE k \in tracks
        <5>1. Removing(t, k)'
          BY <3>1, <3>2, <3>5, <4>1 DEF Removing, ByKey
        <5> QED
          BY <5>1
      <4>2. CASE k \notin tracks
        <5>1. PICK s \in Task : job[s].op = "deleteTrack" /\ stage[s] = "deleteRow"
                                /\ job[s].key = k
          BY <1>1, <1>2, <1>3, <3>1, <3>2, <3>5, <4>2 DEF OneGoes, ByKey
        <5>2. Removing(s, k)'
          BY <3>1, <5>1 DEF Removing
        <5> QED
          BY <5>2
      <4> QED
        BY <4>1, <4>2
    <3> QED
      BY <3>1, <3>3, <3>4, <3>5 DEF Deletions
  <2>7. ASSUME NEW j \in Key, j # k, DeleteObject(t, j)
        PROVE  FALSE
    BY <1>5, <2>7 DEF DeleteObject
  <2> QED
    BY <2>1, <2>2, <2>3, <2>4, <2>5, <2>6, <2>7 DEF ObjectCall
<1> QED
  BY <1>4, <1>5

(***************************************************************************)
(* An object stays named: its row goes only when the object has gone, or   *)
(* when the key is in doubt.                                               *)
(***************************************************************************)
LEMMA GoneOnes ==
  ASSUME Reached, NEW t \in Task, Removal(t), NEW k \in Gone(t) \cap Rows, k \in objects
  PROVE  k \in cut \cup late
<1>1. Fits(t) /\ OneGoes(t) /\ AlbumGoes(t) /\ AccountGoes(t) /\ PreviousGoes(t)
  BY DEF Reached, MediaInv
<1>2. stage[t] \in {"dropRow", "deleteRow", "deleteAlbum", "deleteAccount"}
  BY RemovalFacts DEF Reached, MediaInv
<1>3. CASE stage[t] = "dropRow"
  BY <1>1, <1>3 DEF Gone, PreviousGoes
<1>4. CASE stage[t] = "deleteRow"
  BY <1>1, <1>4 DEF Gone, OneGoes, Fits
<1>5. CASE stage[t] = "deleteAlbum"
  BY <1>1, <1>5 DEF Gone, AlbumGoes, Fits
<1>6. CASE stage[t] = "deleteAccount"
  BY <1>1, <1>6 DEF Gone, AccountGoes, Fits
<1> QED
  BY <1>2, <1>3, <1>4, <1>5, <1>6

LEMMA NamedStep ==
  ASSUME Reached, NEW t \in Task, Act(t)
  PROVE  Named'
<1>1. MediaTypes /\ Dated /\ Fits(t) /\ Unborn(t) /\ Named
  BY DEF Reached, MediaInv
<1>2. cut \subseteq cut' /\ late \subseteq late'
  BY <1>1, ReachStep
<1> SUFFICES ASSUME NEW k \in objects', k \notin Rows' \cup cut' \cup late'
             PROVE  \E v \in Task : stage'[v] \in Handled /\ k = job'[v].key
  BY DEF Named
<1>3. CASE k \notin objects
  <2>1. Put(t) /\ k = job'[t].key
    BY <1>3, ObjectComes
  <2>2. stage'[t] = "row"
    BY <1>1, <2>1, ProceedFacts DEF Put, Label
  <2> QED
    BY <2>1, <2>2 DEF Handled
<1>4. CASE k \in objects /\ k \in Rows
  <2>1. Removal(t) /\ k \in Gone(t)
    BY <1>4, RowGoes
  <2> QED
    BY <1>2, <1>4, <2>1, GoneOnes
<1>5. CASE k \in objects /\ k \notin Rows
  <2>1. PICK u \in Task : stage[u] \in Handled /\ k = job[u].key
    BY <1>1, <1>2, <1>5 DEF Named
  <2>2. CASE u # t
    BY <1>1, <2>1, <2>2, OthersStay
  <2>3. CASE u = t
    <3>1. k # Nil /\ k \in KeysOf(t)
      <4>1. k \in Key
        BY <1>1, <1>5 DEF MediaTypes
      <4> QED
        BY <2>1, <2>3, <4>1, KeyFacts DEF KeysOf
    <3>2. ~CutOff(t)
      BY <3>1, CutFacts
    <3>3. ~Cleanup(t)
      BY <1>5, <2>1, <2>3 DEF Cleanup
    <3>4. InsertRow(t)
      BY <2>1, <2>3, <3>2, <3>3, Departures DEF Handled
    <3>5. job' = job /\ stage'[t] = "cleanup"
      BY <1>1, <2>1, <2>3, <3>4, InsertRowFacts
    <3> QED
      BY <2>1, <2>3, <3>5 DEF Handled
  <2> QED
    BY <2>2, <2>3
<1> QED
  BY <1>3, <1>4, <1>5
LEMMA PreviousGoesStep ==
  ASSUME Reached, NEW t \in Task, Act(t), NEW s \in Task
  PROVE  PreviousGoes(s)'
<1>1. /\ MediaTypes /\ Fits(t) /\ Fits(s) /\ PreviousGoes(s)
      /\ KeysOf(s) \subseteq used
  BY DEF Reached, MediaInv, Drawn
<1>2. cut \subseteq cut'
  BY <1>1, ReachStep
<1>3. CASE s # t
  <2>1. stage'[s] = stage[s] /\ job'[s] = job[s]
    BY <1>1, <1>3, OthersStay
  <2>2. stage[s] = "dropRow" => job[s].prev \in used
    BY <1>1 DEF Fits, KeysOf
  <2>3. job[s].prev \in used => job[s].prev \notin objects' \ objects
    BY ObjectComes
  <2> QED
    BY <1>1, <1>2, <2>1, <2>2, <2>3 DEF PreviousGoes
<1>4. CASE s = t /\ stage'[t] = "dropRow"
  <2>1. DropPrevious(t)
    BY <1>1, <1>4, Arrivals
  <2>2. ~Replaced(t)
    BY <1>1, <1>4, EndFacts, ProceedFacts DEF Replaced, Continue, Label
  <2>3. Continue(t, "dropRow") /\ job[t].prev \notin objects' \ cut'
    BY <2>1, <2>2 DEF DropPrevious
  <2> QED
    BY <1>4, <2>3 DEF PreviousGoes, Continue
<1> QED
  BY <1>3, <1>4 DEF PreviousGoes

(***************************************************************************)
(* What another request has in its hands was drawn before, has its row     *)
(* before, and does not come back to the bucket.                           *)
(***************************************************************************)
LEMMA HeldByAnother ==
  ASSUME Reached, NEW t \in Task, Act(t), NEW s \in Task, s # t, NEW k \in KeysOf(s)
  PROVE  /\ k \in Rows' => k \in Rows
         /\ k \in objects' => k \in objects
<1>1. k \in used
  BY DEF Reached, MediaInv, Drawn
<1> QED
  BY <1>1, RowComes, ObjectComes

LEMMA OneGoesStep ==
  ASSUME Reached, NEW t \in Task, Act(t), NEW s \in Task
  PROVE  OneGoes(s)'
<1>1. /\ MediaTypes /\ Fits(t) /\ Fits(s) /\ OneGoes(s) /\ OneGoes(t) /\ MediaTypes'
      /\ Fits(t)'
  BY JobStep, MediaTypesStep DEF Reached, MediaInv
<1>2. cut \subseteq cut'
  BY <1>1, ReachStep
<1> DEFINE k == job'[s].key
<1> SUFFICES ASSUME k \in Rows'
             PROVE  OneGoes(s)'
  BY DEF OneGoes
<1>3. k \in Key /\ k # Nil
  BY <1>1, RowsFacts, KeyFacts DEF Rows
<1>4. CASE s # t
  <2>1. stage'[s] = stage[s] /\ job'[s] = job[s]
    BY <1>1, <1>4, OthersStay
  <2>2. k \in KeysOf(s)
    BY <1>3, <2>1 DEF KeysOf
  <2>3. k \in Rows /\ (k \in objects' => k \in objects)
    BY <1>4, <2>2, HeldByAnother
  <2>4. ASSUME job[s].op = "deleteTrack", stage[s] # "deleteRow", k \notin tracks', k \notin cut'
        PROVE  \E v \in Task : job'[v].op = "deleteTrack" /\ stage'[v] = "deleteRow"
                               /\ job'[v].key = k
    <3>1. CASE k \in tracks
      BY <2>4, <3>1, TrackGoes
    <3>2. CASE k \notin tracks
      <4>1. PICK v \in Task : job[v].op = "deleteTrack" /\ stage[v] = "deleteRow"
                              /\ job[v].key = k
        BY <1>1, <1>2, <2>1, <2>3, <2>4, <3>2 DEF OneGoes
      <4>2. CASE v # t
        BY <1>1, <4>1, <4>2, OthersStay
      <4>3. CASE v = t
        <5>1. ~CutOff(t)
          BY <1>3, <2>4, <4>1, <4>3, CutFacts DEF KeysOf
        <5>2. Removal(t) /\ Gone(t) = {k}
          BY <4>1, <4>3, <5>1, Departures DEF Removal, Gone
        <5> QED
          BY <1>1, <5>2, RemovalFacts
      <4> QED
        BY <4>2, <4>3
    <3> QED
      BY <3>1, <3>2
  <2> QED
    BY <1>1, <2>1, <2>3, <2>4 DEF OneGoes
<1>5. CASE s = t
  <2>1. ASSUME NEW op \in Ops, NEW f \in Key \cup {Nil}, NEW a \in Album \cup {Nil},
               BeginDelete(t, op, f, a)
        PROVE  OneGoes(t)'
    <3>1. /\ job'[t].op = op /\ job'[t].key = f /\ job'[t].keys = {f} \cap Rows
          /\ stage'[t] = (IF f = Nil THEN "keys" ELSE "deleteObjects")
      BY <1>1, <2>1, BeginDeleteFacts
    <3>3. stage'[t] = "deleteObjects" /\ Rows' = Rows /\ tracks' = tracks
      BY <1>3, <1>5, <2>1, <3>1 DEF BeginDelete, rows, Rows
    <3>2. op = "deleteTrack" => f \in tracks
      BY <2>1 DEF BeginDelete
    <3> QED
      BY <1>5, <3>1, <3>2, <3>3 DEF OneGoes
  <2>2. ASSUME \/ ObjectsDeleted(t)
               \/ \E f \in Key : DeleteObject(t, f)
        PROVE  OneGoes(t)'
    <3>1. /\ job' = job /\ stage[t] = "deleteObjects" /\ Rows' = Rows /\ tracks' = tracks
          /\ objects' \subseteq objects
      BY <2>2 DEF ObjectsDeleted, Continue, DeleteObject, rows, Rows
    <3>2. stage'[t] = stage[t] \/ job[t].keys \cap objects = {}
      BY <2>2 DEF ObjectsDeleted, DeleteObject
    <3>3. job[t].op \in ByKey => k \in job[t].keys
      BY <1>1, <1>5, <3>1 DEF OneGoes
    <3>4. ASSUME job[t].op = "deleteTrack", k \notin tracks
          PROVE  \/ k \in cut
                 \/ \E v \in Task : job'[v].op = "deleteTrack" /\ stage'[v] = "deleteRow"
                                    /\ job'[v].key = k
      <4>1. \/ k \in cut
            \/ \E v \in Task : job[v].op = "deleteTrack" /\ stage[v] = "deleteRow"
                               /\ job[v].key = k
        BY <1>1, <1>5, <3>1, <3>4 DEF OneGoes
      <4>2. ASSUME NEW v \in Task, stage[v] = "deleteRow"
            PROVE  stage'[v] = stage[v]
        BY <1>1, <3>1, <4>2, OthersStay
      <4> QED
        BY <3>1, <4>1, <4>2
    <3> QED
      BY <1>2, <1>5, <3>1, <3>2, <3>3, <3>4 DEF OneGoes
  <2>3. ASSUME DeleteTrack(t), stage'[t] = "deleteRow"
        PROVE  OneGoes(t)'
    <3>1. job' = job /\ stage[t] = "deleteTrack" /\ Rows' = Rows /\ objects' = objects
      BY <1>1, <2>3, EndFacts DEF DeleteTrack, Continue, Rows
    <3> QED
      BY <1>1, <1>5, <2>3, <3>1 DEF OneGoes
  <2>4. ASSUME stage'[t] \in {"deleteObjects", "deleteTrack", "deleteRow"}, ~StorageKeys(t)
        PROVE  OneGoes(t)'
    <3>1. DeleteTrack(t) => stage'[t] = "deleteRow"
      BY <1>1, <2>4, EndFacts, ProceedFacts DEF DeleteTrack, Continue, Label
    <3> QED
      BY <1>1, <2>1, <2>2, <2>3, <2>4, <3>1, Arrivals
  <2>5. ASSUME StorageKeys(t)
        PROVE  job'[t].op \notin ByKey
    <3>1. job[t].op \in {"deleteAlbum", "deleteAccount"}
      BY <1>1, <2>5 DEF StorageKeys, Fits
    <3>2. job'[t].op = job[t].op
      BY <1>1, <2>5 DEF StorageKeys, MediaTypes, Job
    <3> QED
      BY <3>1, <3>2 DEF ByKey
  <2>6. stage'[t] \notin {"deleteObjects", "deleteTrack", "deleteRow"} => job'[t].op # "deleteTrack"
    <3>1. stage'[t] \in Label /\ stage'[t] # "idle"
      BY <1>1, <1>3, <1>5, NoJobFacts DEF MediaTypes, Fits
    <3> QED
      BY <1>1, <3>1 DEF Fits, Label, AvatarOps, Uploads, Deletions, ByKey
  <2> QED
    BY <1>5, <2>4, <2>5, <2>6 DEF OneGoes, ByKey
<1> QED
  BY <1>4, <1>5
LEMMA AlbumGoesStep ==
  ASSUME Reached, NEW t \in Task, Act(t), NEW s \in Task
  PROVE  AlbumGoes(s)'
<1>1. /\ MediaTypes /\ Fits(t) /\ Fits(s) /\ AlbumGoes(s) /\ AlbumGoes(t)
      /\ Fits(t)' /\ MediaTypes' /\ Rows \subseteq used
  BY JobStep, MediaTypesStep DEF Reached, MediaInv, Drawn
<1>2. late \subseteq late'
  BY <1>1, ReachStep
<1>3. CASE s # t
  <2>1. stage'[s] = stage[s] /\ job'[s] = job[s]
    BY <1>1, <1>3, OthersStay
  <2>2. PICK a, held : a = job[s].album /\ held = job[s].keys
    OBVIOUS
  <2>3. AttachedTo(job[s].album)' = AttachedTo(a)'
    BY <2>1, <2>2 DEF AttachedTo
  <2> SUFFICES ASSUME job[s].op = "deleteAlbum"
               PROVE  /\ stage'[s] \in {"deleteObjects", "links"} =>
                           held \cap Rows' \subseteq AttachedTo(a)' \cup late'
                      /\ stage'[s] \in {"deleteObjects", "deleteAlbum"} =>
                           AttachedTo(a)' \subseteq held \cup late'
                      /\ stage'[s] = "links" => AttachedTo(a)' \cap objects' \subseteq late'
                      /\ stage'[s] = "deleteAlbum" => held \cap objects' \subseteq late'
    BY <2>1, <2>2, <2>3 DEF AlbumGoes
  <2>4. ASSUME NEW k \in held
        PROVE  /\ k \in Rows' => k \in Rows
               /\ k \in objects' => k \in objects
    <3>1. k # Nil
      BY <1>1, <2>2, JobFacts, KeyFacts
    <3> QED
      BY <1>3, <2>2, <3>1, HeldByAnother DEF KeysOf
  <2>5. ASSUME NEW k \in AttachedTo(a) \cap Rows', k \notin late'
        PROVE  k \in AttachedTo(a)'
    <3>1. <<a, k>> \in links
      <4>1. PICK l \in links : l[1] = a /\ l[2] = k
        BY <2>5 DEF AttachedTo
      <4> QED
        BY <1>1, <4>1 DEF MediaTypes
    <3>2. <<a, k>> \in links'
      <4> SUFFICES ASSUME <<a, k>> \notin links'
                   PROVE  FALSE
        OBVIOUS
      <4>1. stage[t] = "deleteAlbum" /\ a = job[t].album /\ k \notin job[t].keys
        BY <2>5, <3>1, LinkGoes
      <4>2. AttachedTo(a) \subseteq job[t].keys \cup late
        BY <1>1, <4>1 DEF AlbumGoes, Fits
      <4> QED
        BY <1>2, <2>5, <4>1, <4>2
    <3> QED
      BY <3>2 DEF AttachedTo
  <2>6. ASSUME NEW k \in AttachedTo(a)', k \notin late',
               stage[s] \in {"deleteObjects", "links", "deleteAlbum"}
        PROVE  k \in AttachedTo(a)
    <3>1. <<a, k>> \in links'
      <4>1. PICK l \in links' : l[1] = a /\ l[2] = k
        BY <2>6 DEF AttachedTo
      <4> QED
        BY <1>1, <4>1 DEF MediaTypes
    <3>2. AlbumGoing(a)
      BY <2>6, <2>2 DEF AlbumGoing, Doing
    <3>3. <<a, k>> \in links
      BY <2>6, <3>1, <3>2, LinkComes
    <3> QED
      BY <3>3 DEF AttachedTo
  <2>7. \A k \in AttachedTo(a) : k \in objects' => k \in objects
    BY <1>1, ObjectComes, RowsFacts
  <2>8. stage[s] \in {"deleteObjects", "links"} => held \cap Rows \subseteq AttachedTo(a) \cup late
    BY <1>1, <2>2 DEF AlbumGoes
  <2>9. stage[s] \in {"deleteObjects", "deleteAlbum"} => AttachedTo(a) \subseteq held \cup late
    BY <1>1, <2>2 DEF AlbumGoes
  <2>10. stage[s] = "links" => AttachedTo(a) \cap objects \subseteq late
    BY <1>1, <2>2 DEF AlbumGoes
  <2>11. stage[s] = "deleteAlbum" => held \cap objects \subseteq late
    BY <1>1, <2>2 DEF AlbumGoes
  <2>12. stage'[s] \in {"deleteObjects", "links"} =>
           held \cap Rows' \subseteq AttachedTo(a)' \cup late'
    BY <1>2, <2>1, <2>4, <2>5, <2>8
  <2>13. stage'[s] \in {"deleteObjects", "deleteAlbum"} =>
           AttachedTo(a)' \subseteq held \cup late'
    BY <1>2, <2>1, <2>6, <2>9
  <2>14. stage'[s] = "links" => AttachedTo(a)' \cap objects' \subseteq late'
    BY <1>2, <2>1, <2>6, <2>7, <2>10
  <2>15. stage'[s] = "deleteAlbum" => held \cap objects' \subseteq late'
    BY <1>2, <2>1, <2>4, <2>11
  <2> QED
    BY <2>12, <2>13, <2>14, <2>15
<1>4. CASE s = t
  <2>1. ASSUME StorageKeys(t), job'[t].op = "deleteAlbum"
        PROVE  AlbumGoes(t)'
    <3>1. job'[t].op = job[t].op
      BY <1>1, <2>1 DEF StorageKeys, MediaTypes, Job
    <3>2. /\ job'[t].keys = AttachedTo(job[t].album) /\ job'[t].album = job[t].album
          /\ stage'[t] = "deleteObjects" /\ links' = links
      BY <1>1, <2>1, <3>1 DEF StorageKeys, Proceed, MediaTypes, Job, rows
    <3> QED
      BY <3>2 DEF AlbumGoes, AttachedTo
  <2>2. ASSUME ObjectsDeleted(t) \/ \E k \in Key : DeleteObject(t, k)
        PROVE  AlbumGoes(t)'
    <3>1. /\ job' = job /\ stage[t] = "deleteObjects" /\ Rows' = Rows /\ links' = links
          /\ objects' \subseteq objects /\ late' = late
      BY <2>2 DEF ObjectsDeleted, Continue, DeleteObject, rows, Rows, doubts
    <3>2. CASE \E k \in Key : DeleteObject(t, k)
      BY <1>1, <3>1, <3>2 DEF DeleteObject, AlbumGoes, AttachedTo
    <3>3. CASE ObjectsDeleted(t)
      <4>1. job[t].op = "deleteAlbum" => stage'[t] = "links"
        BY <1>1, <3>3 DEF ObjectsDeleted, Continue, Proceed, MediaTypes
      <4>2. job[t].keys \cap objects = {}
        BY <3>3 DEF ObjectsDeleted
      <4> QED
        BY <1>1, <3>1, <4>1, <4>2 DEF AlbumGoes, AttachedTo
    <3> QED
      BY <2>2, <3>2, <3>3
  <2>3. ASSUME AlbumLinks(t)
        PROVE  AlbumGoes(t)'
    <3>1. /\ job'[t].keys = AttachedTo(job[t].album) /\ job'[t].album = job[t].album
          /\ stage[t] = "links" /\ stage'[t] = "deleteAlbum" /\ links' = links
          /\ objects' = objects /\ late' = late
      BY <1>1, <2>3 DEF AlbumLinks, Proceed, MediaTypes, Job, rows, doubts
    <3>2. job[t].op = "deleteAlbum"
      BY <1>1, <3>1 DEF Fits
    <3> QED
      BY <1>1, <3>1, <3>2 DEF AlbumGoes, AttachedTo
  <2>4. ASSUME NEW op \in Ops, NEW k \in Key \cup {Nil}, NEW b \in Album \cup {Nil},
               BeginDelete(t, op, k, b), stage'[t] = "deleteObjects"
        PROVE  job'[t].op # "deleteAlbum"
    BY <1>1, <2>4, BeginDeleteFacts DEF BeginDelete
  <2>5. DeleteTrack(t) => stage'[t] \in {"deleteRow", "idle"}
    BY <1>1, EndFacts, ProceedFacts DEF DeleteTrack, Continue, Label
  <2>6. job'[t].op = "deleteAlbum" /\ stage'[t] \in {"deleteObjects", "links", "deleteAlbum"} =>
          AlbumGoes(t)'
    BY <1>1, <2>1, <2>2, <2>3, <2>4, <2>5, Arrivals
  <2> QED
    BY <1>4, <2>6 DEF AlbumGoes
<1> QED
  BY <1>3, <1>4

LEMMA AccountGoesStep ==
  ASSUME Reached, NEW t \in Task, Act(t), NEW s \in Task
  PROVE  AccountGoes(s)'
<1>1. /\ MediaTypes /\ Fits(t) /\ AccountGoes(s) /\ AccountGoes(t) /\ Rows \subseteq used
  BY DEF Reached, MediaInv, Drawn
<1>2. late \subseteq late'
  BY <1>1, ReachStep
<1>3. CASE s # t
  <2>1. stage'[s] = stage[s] /\ job'[s] = job[s]
    BY <1>1, <1>3, OthersStay
  <2> SUFFICES ASSUME job[s].op = "deleteAccount", stage[s] \in {"deleteObjects", "deleteAccount"}
               PROVE  /\ Rows' \subseteq job[s].keys \cup late'
                      /\ stage[s] = "deleteAccount" => Rows' \cap objects' \subseteq late'
    BY <2>1 DEF AccountGoes
  <2>2. AccountGoing
    BY DEF AccountGoing, Doing
  <2>3. \A k \in Rows' : k \in Rows \cup late'
    BY <2>2, RowComes
  <2>4. \A k \in Rows : k \in objects' => k \in objects
    BY <1>1, ObjectComes
  <2> QED
    BY <1>1, <1>2, <2>3, <2>4 DEF AccountGoes
<1>4. CASE s = t
  <2>1. ASSUME StorageKeys(t), job'[t].op = "deleteAccount"
        PROVE  AccountGoes(t)'
    <3>1. job'[t].op = job[t].op
      BY <1>1, <2>1 DEF StorageKeys, MediaTypes, Job
    <3>2. job'[t].keys = Rows /\ stage'[t] = "deleteObjects" /\ Rows' = Rows
      BY <1>1, <2>1, <3>1 DEF StorageKeys, Proceed, MediaTypes, Job, rows, Rows
    <3> QED
      BY <3>2 DEF AccountGoes
  <2>2. ASSUME ObjectsDeleted(t) \/ \E k \in Key : DeleteObject(t, k)
        PROVE  AccountGoes(t)'
    <3>1. /\ job' = job /\ stage[t] = "deleteObjects" /\ Rows' = Rows
          /\ objects' \subseteq objects /\ late' = late
      BY <2>2 DEF ObjectsDeleted, Continue, DeleteObject, rows, Rows, doubts
    <3>2. stage'[t] = stage[t] \/ job[t].keys \cap objects = {}
      BY <2>2 DEF ObjectsDeleted, DeleteObject
    <3> QED
      BY <1>1, <3>1, <3>2 DEF AccountGoes
  <2>3. ASSUME NEW op \in Ops, NEW k \in Key \cup {Nil}, NEW b \in Album \cup {Nil},
               BeginDelete(t, op, k, b), stage'[t] = "deleteObjects"
        PROVE  job'[t].op # "deleteAccount"
    BY <1>1, <2>3, BeginDeleteFacts DEF BeginDelete
  <2>4. job'[t].op = "deleteAccount" /\ stage'[t] \in {"deleteObjects", "deleteAccount"} =>
          AccountGoes(t)'
    BY <1>1, <2>1, <2>2, <2>3, Arrivals
  <2> QED
    BY <1>4, <2>4 DEF AccountGoes
<1> QED
  BY <1>3, <1>4
-----------------------------------------------------------------------------
(***************************************************************************)
(* The avatar.  Only one request at a time has it in hand, unless two      *)
(* begin at once and rivals says so.                                       *)
(***************************************************************************)
LEMMA SameErrand ==
  ASSUME MediaTypes, NEW t \in Task, Act(t), ~Begins(t), stage'[t] # "idle"
  PROVE  stage[t] # "idle" /\ job'[t].op = job[t].op
<1>1. stage[t] # "idle"
  BY Departures
<1>2. ~End(t)
  BY <1>1, EndFacts
<1>3. /\ job \in [Task -> Job]
      /\ \/ job' = job
         \/ \E k : job' = [job EXCEPT ![t].prev = k]
         \/ \E k : job' = [job EXCEPT ![t].key = k]
         \/ \E set : job' = [job EXCEPT ![t].keys = set]
         \/ \E a : job' = [job EXCEPT ![t].album = a]
  <2>1. CASE \E k \in Key : DeleteObject(t, k)
    BY <2>1 DEF DeleteObject, MediaTypes
  <2>2. CASE FindAvatar(t) \/ Put(t) \/ StorageKeys(t) \/ AlbumLinks(t) \/ DefaultAlbum(t)
             \/ NewAlbum(t)
    BY <1>2, <2>2 DEF FindAvatar, Put, StorageKeys, AlbumLinks, DefaultAlbum, NewAlbum,
                      Continue, MediaTypes
  <2>3. CASE InsertRow(t) \/ SetAvatarKey(t) \/ AttachPhoto(t) \/ DropPrevious(t) \/ DropRow(t)
             \/ ReadSvg(t) \/ ObjectsDeleted(t) \/ DeleteTrack(t)
    BY <1>2, <2>3 DEF InsertRow, SetAvatarKey, AttachPhoto, DropPrevious, DropRow, Replaced,
                      ReadSvg, ObjectsDeleted, DeleteTrack, Continue, MediaTypes
  <2>4. ~(Cleanup(t) \/ InsertTrack(t) \/ SweepSvg(t) \/ DeleteRow(t) \/ DeleteAlbum(t)
          \/ DeleteAccount(t) \/ CutOff(t))
    BY <1>2 DEF Cleanup, InsertTrack, SweepSvg, DeleteRow, DeleteAlbum, DeleteAccount, CutOff
  <2> QED
    BY <2>1, <2>2, <2>3, <2>4 DEF Act, Begins, MediaStep
<1> QED
  BY <1>1, <1>3 DEF Job

LEMMA OnePainter ==
  ASSUME Reached, NEW t \in Task, Act(t), ~rivals', NEW s \in Doing(AvatarOps)', NEW u \in Doing(AvatarOps)'
  PROVE  s = u
<1>1. MediaTypes /\ Fits(t) /\ \A v, w \in Doing(AvatarOps) : ~rivals => v = w
  BY DEF Reached, MediaInv, Portraits
<1>2. ~rivals
  BY <1>1, ReachStep
<1>3. \A v \in Task : v # t /\ v \in Doing(AvatarOps)' => v \in Doing(AvatarOps)
  BY <1>1, OthersStay DEF Doing
<1>4. CASE Doing(AvatarOps) = {}
  BY <1>3, <1>4 DEF Doing
<1>5. CASE Doing(AvatarOps) # {}
  <2>1. t \in Doing(AvatarOps)' => ~Begins(t)
    <3>1. ASSUME BeginConvert(t)
          PROVE  FALSE
      BY <1>2, <1>5, <3>1 DEF BeginConvert
    <3>2. ASSUME NEW op \in Ops, NEW a \in Album \cup {Nil}, BeginUpload(t, op, a)
          PROVE  t \notin Doing(AvatarOps)'
      <4>1. op \notin AvatarOps
        BY <1>2, <1>5, <3>2 DEF BeginUpload
      <4> QED
        BY <1>1, <3>2, <4>1, BeginUploadFacts DEF Doing
    <3>3. ASSUME NEW op \in Ops, NEW k \in Key \cup {Nil}, NEW a \in Album \cup {Nil},
                 BeginDelete(t, op, k, a)
          PROVE  t \notin Doing(AvatarOps)'
      <4>1. op \notin AvatarOps
        BY <3>3 DEF BeginDelete, AvatarOps
      <4> QED
        BY <1>1, <3>3, <4>1, BeginDeleteFacts DEF Doing
    <3> QED
      BY <3>1, <3>2, <3>3 DEF Begins
  <2>2. t \in Doing(AvatarOps)' => t \in Doing(AvatarOps)
    <3>1. t \in Doing(AvatarOps)' => stage'[t] # "idle" /\ job'[t].op \in AvatarOps
      BY DEF Doing
    <3>2. t \in Doing(AvatarOps)' => stage[t] # "idle" /\ job'[t].op = job[t].op
      BY <1>1, <2>1, <3>1, SameErrand
    <3> QED
      BY <3>1, <3>2 DEF Doing
  <2> QED
    BY <1>1, <1>2, <1>3, <2>2 DEF Doing
<1> QED
  BY <1>4, <1>5
LEMMA KindStays ==
  ASSUME Reached, NEW t \in Task, Act(t), NEW k \in Key, k # job[t].key \/ ~InsertRow(t)
  PROVE  kind'[k] = kind[k]
BY Frame, InsertRowFacts DEF Reached, MediaInv, MediaTypes

LEMMA PortraitsStep ==
  ASSUME Reached, NEW t \in Task, Act(t)
  PROVE  Portraits'
<1>1. /\ MediaTypes /\ Dated /\ Fits(t) /\ Unborn(t) /\ Parted(t) /\ Portrait(t)
      /\ (avatar # Nil => kind[avatar] \in {"avatar", "svg"}) /\ AvatarServed /\ MediaTypes'
  BY MediaTypesStep DEF Reached, MediaInv, Portraits
<1>2. ~rivals' => \A s, u \in Doing(AvatarOps)' : s = u
  BY OnePainter
<1>3. /\ rivals => rivals'
      /\ byHand \subseteq byHand'
  BY <1>1, ReachStep
<1>4. CASE SetAvatarKey(t) /\ account
  <2>1. \/ /\ avatar' = job[t].key /\ stage[t] = "setKey"
           /\ objects' = objects /\ byHand' = byHand /\ kind' = kind
    BY <1>4 DEF SetAvatarKey, rows, doubts
  <2>2. t \in Doing(AvatarOps)
    BY <1>1, <2>1 DEF Fits, Doing
  <2>3. kind[job[t].key] = "avatar" /\ (~rivals => job[t].key \in objects \cup byHand)
    BY <1>1, <2>1, <2>2 DEF Portrait
  <2> QED
    BY <1>2, <1>3, <2>1, <2>3 DEF Portraits, AvatarServed
<1>5. CASE avatar' = Nil
  BY <1>2, <1>5 DEF Portraits, AvatarServed
<1>6. CASE avatar' = avatar /\ avatar # Nil
  <2>1. kind'[avatar] = kind[avatar]
    <3>1. InsertRow(t) => avatar # job[t].key
      BY <1>1 DEF InsertRow, Unborn, Handled
    <3>2. avatar \in Key
      BY <1>1, <1>6 DEF MediaTypes
    <3> QED
      BY <3>1, <3>2, KindStays
  <2>2. ASSUME ~rivals', avatar \notin byHand'
        PROVE  avatar \in objects'
    <3>1. ~rivals /\ avatar \in objects
      BY <1>1, <1>3, <1>6, <2>2 DEF AvatarServed
    <3>2. CASE Put(t)
      BY <1>1, <3>1, <3>2, PutFacts
    <3>3. CASE Cleanup(t)
      <4>1. avatar # job[t].key
        BY <1>1, <3>3 DEF Cleanup, Unborn, Handled
      <4> QED
        BY <3>1, <3>3, <4>1 DEF Cleanup
    <3>4. CASE DropPrevious(t) \/ SweepSvg(t)
      <4>1. stage[t] \in {"dropPrevious", "sweep"}
        BY <3>4 DEF DropPrevious, SweepSvg
      <4>2. job[t].op \in AvatarOps
        BY <1>1, <4>1 DEF Fits, AvatarOps
      <4>3. avatar = job[t].key
        BY <1>1, <1>6, <3>1, <4>1, <4>2 DEF Portrait, Doing
      <4>4. job[t].op \notin ByKey
        BY <4>2 DEF AvatarOps, ByKey
      <4>5. avatar # job[t].prev /\ avatar \notin job[t].keys
        BY <1>1, <1>6, <4>3, <4>4 DEF Parted
      <4> QED
        BY <3>1, <3>4, <4>5 DEF DropPrevious, SweepSvg
    <3>5. ASSUME NEW k \in Key, DeleteObject(t, k)
          PROVE  avatar \in objects'
      <4>1. avatar # k
        BY <1>1, <1>6, <2>2, <3>5 DEF DeleteObject
      <4> QED
        BY <3>1, <3>5, <4>1 DEF DeleteObject
    <3> QED
      BY <3>1, <3>2, <3>3, <3>4, <3>5, Frame DEF ObjectCall
  <2> QED
    BY <1>1, <1>2, <1>6, <2>1, <2>2 DEF Portraits, AvatarServed
<1>7. avatar' = avatar \/ avatar' = Nil \/ (SetAvatarKey(t) /\ account)
  BY Frame DEF SetAvatarKey, DeleteAccount
<1> QED
  BY <1>4, <1>5, <1>6, <1>7

LEMMA PortraitStep ==
  ASSUME Reached, NEW t \in Task, Act(t), NEW s \in Task
  PROVE  Portrait(s)'
<1>1. /\ MediaTypes /\ Dated /\ Fits(t) /\ Fits(s) /\ Unborn(t) /\ Portrait(s) /\ Portrait(t)
      /\ (~rivals => \A u, v \in Doing(AvatarOps) : u = v)
      /\ Fits(t)'
  BY JobStep DEF Reached, MediaInv, Portraits
<1>2. /\ rivals => rivals'
      /\ byHand \subseteq byHand'
  BY <1>1, ReachStep
<1> DEFINE k == job'[s].key
<1> SUFFICES ASSUME s \in Doing(AvatarOps)'
             PROVE  /\ stage'[s] \in {"setKey", "album", "newAlbum", "attach"} =>
                         kind'[k] = "avatar"
                    /\ ~rivals' /\ stage'[s] = "setKey" => k \in objects' \cup byHand'
                    /\ ~rivals' /\ stage'[s] \in {"album", "newAlbum", "attach", "dropPrevious",
                                                  "dropRow", "sweep"} =>
                         avatar' \in {k, Nil} /\ k # Nil
  BY DEF Portrait
<1>3. CASE s # t
  <2>1. stage'[s] = stage[s] /\ job'[s] = job[s]
    BY <1>1, <1>3, OthersStay
  <2>2. s \in Doing(AvatarOps)
    BY <2>1 DEF Doing
  <2>3. ASSUME stage[s] \in {"setKey", "album", "newAlbum", "attach"}
        PROVE  kind[k] = "avatar" /\ kind'[k] = kind[k] /\ k \in Key /\ k \in KeysOf(s)
    <3>1. kind[k] = "avatar"
      BY <1>1, <2>1, <2>2, <2>3 DEF Portrait
    <3>2. k \in Key /\ k \in KeysOf(s)
      BY <1>1, <2>1, <2>3, JobFacts DEF Fits, KeysOf
    <3>3. InsertRow(t) => k # job[t].key
      BY <1>1, <1>3, <3>2 DEF InsertRow, Unborn, Handled
    <3> QED
      BY <3>1, <3>2, <3>3, KindStays
  <2>4. ASSUME ~rivals', stage[s] = "setKey"
        PROVE  k \in objects' \cup byHand'
    <3>1. ~rivals /\ k \in objects \cup byHand
      BY <1>1, <1>2, <2>1, <2>2, <2>4 DEF Portrait
    <3>2. ~DropPrevious(t) /\ ~SweepSvg(t)
      <4>1. t \notin Doing(AvatarOps)
        BY <1>1, <1>3, <2>2, <3>1
      <4> QED
        BY <1>1, <4>1 DEF DropPrevious, SweepSvg, Fits, Doing, AvatarOps
    <3>3. Cleanup(t) => k # job[t].key
      BY <1>1, <1>3, <2>3, <2>4 DEF Cleanup, Unborn, Handled
    <3>4. ASSUME NEW j \in Key, DeleteObject(t, j)
          PROVE  k \in objects' \cup byHand'
      BY <1>2, <2>3, <2>4, <3>1, <3>4 DEF DeleteObject
    <3>5. CASE UNCHANGED objects
      BY <1>2, <3>1, <3>5
    <3>6. CASE Cleanup(t) \/ Put(t)
      BY <1>2, <3>1, <3>3, <3>6 DEF Cleanup, Put
    <3> QED
      BY <3>2, <3>4, <3>5, <3>6, Frame DEF ObjectCall
  <2>5. ASSUME ~rivals', stage[s] \in {"album", "newAlbum", "attach", "dropPrevious",
                                       "dropRow", "sweep"}
        PROVE  avatar' \in {k, Nil} /\ k # Nil
    <3>1. ~rivals /\ avatar \in {k, Nil} /\ k # Nil
      BY <1>1, <1>2, <2>1, <2>2, <2>5 DEF Portrait
    <3>2. ~SetAvatarKey(t)
      <4>1. t \notin Doing(AvatarOps)
        BY <1>1, <1>3, <2>2, <3>1
      <4> QED
        BY <1>1, <4>1 DEF SetAvatarKey, Fits, Doing
    <3> QED
      BY <3>1, <3>2, Frame DEF DeleteAccount
  <2> QED
    BY <2>1, <2>3, <2>4, <2>5
<1>4. CASE s = t /\ Begins(t)
  <2>1. stage'[t] \in {"previous", "put", "read", "keys", "deleteObjects"}
    <3>1. BeginConvert(t) => stage'[t] = "read"
      BY <1>1, BeginConvertFacts
    <3>2. \A op \in Ops, a \in Album \cup {Nil} :
            BeginUpload(t, op, a) => stage'[t] \in {"previous", "put"}
      BY <1>1, BeginUploadFacts
    <3>3. \A op \in Ops, f \in Key \cup {Nil}, a \in Album \cup {Nil} :
            BeginDelete(t, op, f, a) => stage'[t] \in {"keys", "deleteObjects"}
      BY <1>1, BeginDeleteFacts
    <3> QED
      BY <1>4, <3>1, <3>2, <3>3 DEF Begins
  <2> QED
    BY <1>4, <2>1
<1>5. CASE s = t /\ ~Begins(t)
  <2>1. t \in Doing(AvatarOps) /\ stage[t] # "idle" /\ stage'[t] # "idle" /\ job'[t].op = job[t].op
    BY <1>1, <1>5, SameErrand DEF Doing
  <2>2. CASE InsertRow(t)
    <3>1. /\ stage[t] = "row" /\ job' = job /\ job[t].key \in Key
          /\ objects' = objects
      BY <1>1, <2>2, InsertRowFacts DEF InsertRow
    <3>2. job[t].key \in objects
      BY <1>1, <3>1 DEF Unborn, Handled
    <3>3. \/ account /\ kind'[job[t].key] = "avatar" /\ stage'[t] = "setKey"
          \/ stage'[t] = "cleanup"
      <4>1. AfterRow(job[t].op) = "setKey"
        BY <2>1 DEF AfterRow, Doing, AvatarOps
      <4> QED
        BY <1>1, <2>1, <2>2, <3>1, <4>1, InsertRowFacts DEF MediaTypes, Doing
    <3> QED
      BY <1>5, <3>1, <3>2, <3>3
  <2>3. CASE SetAvatarKey(t)
    <3>1. /\ stage[t] = "setKey" /\ avatar' = job[t].key /\ job' = job /\ kind' = kind
          /\ stage'[t] \in {"album", "dropPrevious"}
      <4>1. ~End(t)
        BY <1>1, <2>1, EndFacts
      <4> QED
        BY <1>1, <2>3, <4>1 DEF SetAvatarKey, Continue, Proceed, MediaTypes, rows
    <3>2. job[t].key # Nil
      BY <1>1, <3>1 DEF Fits
    <3> QED
      BY <1>1, <1>5, <2>1, <3>1, <3>2 DEF Portrait
  <2>4. CASE DefaultAlbum(t) \/ NewAlbum(t) \/ AttachPhoto(t) \/ DropPrevious(t) \/ DropRow(t)
    <3>1. job'[t].key = job[t].key /\ avatar' = avatar /\ kind' = kind
      <4>1. ~End(t)
        BY <1>1, <2>1, EndFacts
      <4>2. job' = job \/ \E a : job' = [job EXCEPT ![t].album = a]
        BY <2>4, <4>1 DEF DefaultAlbum, NewAlbum, AttachPhoto, DropPrevious, DropRow, Replaced,
                          Continue
      <4>3. job'[t].key = job[t].key
        BY <1>1, <4>2 DEF MediaTypes, Job
      <4>4. avatar' = avatar /\ kind' = kind
        BY <2>4 DEF DefaultAlbum, NewAlbum, AttachPhoto, DropPrevious, DropRow, rows
      <4> QED
        BY <4>3, <4>4
    <3>2. stage[t] \in {"album", "newAlbum", "attach", "dropPrevious", "dropRow"}
      BY <2>4 DEF DefaultAlbum, NewAlbum, AttachPhoto, DropPrevious, DropRow
    <3>3. stage[t] \in {"dropPrevious", "dropRow"} =>
            stage'[t] \notin {"setKey", "album", "newAlbum", "attach"}
      <4>1. stage[t] \in {"dropPrevious", "dropRow"} => DropPrevious(t) \/ DropRow(t)
        BY <2>4 DEF DefaultAlbum, NewAlbum, AttachPhoto
      <4> QED
        BY <1>1, <4>1, EndFacts, ProceedFacts DEF DropPrevious, DropRow, Replaced, Continue, Label
    <3>4. stage'[t] # "setKey"
      <4>1. ~InsertRow(t)
        BY <3>2 DEF InsertRow
      <4> QED
        BY <1>1, <4>1, Arrivals
    <3> QED
      BY <1>1, <1>2, <1>5, <2>1, <3>1, <3>2, <3>3, <3>4 DEF Portrait
  <2>5. CASE stage'[t] \notin {"setKey", "album", "newAlbum", "attach", "dropPrevious",
                               "dropRow", "sweep"}
    BY <1>5, <2>5
  <2> QED
    BY <1>1, <2>2, <2>3, <2>4, <2>5, Arrivals
<1> QED
  BY <1>3, <1>4, <1>5
-----------------------------------------------------------------------------
LEMMA ReachedInit == MediaInit => Reached
<1> SUFFICES ASSUME MediaInit
             PROVE  Reached
  OBVIOUS
<1>1. /\ account = TRUE /\ made = 0 /\ albums = {} /\ links = {} /\ tracks = {}
      /\ stage = [t \in Task |-> "idle"] /\ job = [t \in Task |-> NoJob]
      /\ cut = {} /\ late = {} /\ byHand = {} /\ rivals = FALSE
  BY DEF MediaInit
<1>2. PICK old \in SUBSET {1} :
        /\ avatar = IF old = {} THEN Nil ELSE 1
        /\ objects = old /\ used = old
        /\ born = [k \in Key |-> IF k \in old THEN 1 ELSE 0]
        /\ kind = [k \in Key |-> IF k \in old THEN "svg" ELSE Nil]
  BY DEF MediaInit
<1>3. old = {} \/ old = {1}
  BY <1>2
<1>4. 1 \in Key /\ Nil \notin Key
  BY KeyFacts
<1>5. Rows = old
  <2>1. \A k \in Key : (born[k] > 0) <=> k \in old
    BY <1>2
  <2>2. old \subseteq Key
    BY <1>3, <1>4
  <2> QED
    BY <2>1, <2>2 DEF Rows
<1>6. MediaTypes
  <2>1. stage \in [Task -> Label] /\ job \in [Task -> Job]
    BY <1>1, NoJobFacts DEF Label
  <2>2. born \in [Key -> Nat] /\ kind \in [Key -> Sorts]
    BY <1>2 DEF Sorts
  <2>3. avatar \in Key \cup {Nil} /\ objects \in SUBSET Key /\ used \in SUBSET Key
    BY <1>2, <1>3, <1>4
  <2>4. /\ made \in 0 .. MaxAlbums /\ albums \in SUBSET (1 .. made)
        /\ links \in SUBSET (albums \X Rows) /\ tracks \in SUBSET Key
    BY <1>1, MediaAssumption
  <2>5. /\ account \in BOOLEAN /\ rivals \in BOOLEAN
        /\ cut \in SUBSET Key /\ late \in SUBSET Key /\ byHand \in SUBSET Key
    BY <1>1
  <2> QED
    BY <2>1, <2>2, <2>3, <2>4, <2>5 DEF MediaTypes
<1>7. Dated
  <2>1. \A k \in Key : born[k] <= 1
    BY <1>2
  <2> QED
    BY <2>1 DEF Dated
<1>8. \A t \in Task : /\ stage[t] = "idle" /\ job[t] = NoJob /\ KeysOf(t) = {}
  BY <1>1, NoJobFacts DEF KeysOf
<1>9. \A t \in Task : Fits(t) /\ Unborn(t)
  BY <1>8 DEF Fits, Unborn, Handled
<1>10. \A t \in Task : Parted(t)
  BY <1>8, NoJobFacts DEF Parted
<1>11. Drawn
  BY <1>1, <1>2, <1>3, <1>5, <1>8 DEF Drawn
<1>12. Stored /\ Named
  BY <1>2, <1>5 DEF Stored, Named
<1>13. \A t \in Task : OneGoes(t)
  <2>1. \A t \in Task : job[t].key \notin Rows
    BY <1>4, <1>5, <1>8, NoJobFacts, <1>3
  <2> QED
    BY <2>1 DEF OneGoes
<1>14. \A t \in Task : AlbumGoes(t) /\ AccountGoes(t) /\ PreviousGoes(t)
  BY <1>8 DEF AlbumGoes, AccountGoes, PreviousGoes
<1>15. Portraits /\ \A t \in Task : Portrait(t)
  <2>1. Doing(AvatarOps) = {}
    BY <1>8 DEF Doing
  <2>2. avatar # Nil => kind[avatar] = "svg" /\ avatar \in objects
    BY <1>2, <1>3, <1>4
  <2> QED
    BY <2>1, <2>2 DEF Portraits, Portrait, AvatarServed
<1>16. ~account => Rows = {}
  BY <1>1
<1> QED
  BY <1>6, <1>7, <1>9, <1>10, <1>11, <1>12, <1>13, <1>14, <1>15, <1>16 DEF Reached, MediaInv

LEMMA ReachedStep ==
  ASSUME Reached, NEW t \in Task, Act(t)
  PROVE  Reached'
<1>1. MediaTypes /\ Dated /\ Fits(t) /\ \A s \in Task : Fits(s)
  BY DEF Reached, MediaInv
<1>2. MediaTypes' /\ Dated'
  BY <1>1, MediaTypesStep, RowsStep
<1>3. ~account' => Rows' = {}
  <2>1. CASE DeleteAccount(t)
    BY <2>1 DEF DeleteAccount, Rows
  <2>2. CASE UNCHANGED account
    BY <1>1, <2>2, RowsStep DEF Reached, MediaInv
  <2> QED
    BY <2>1, <2>2, Frame
<1>4. ASSUME NEW s \in Task
      PROVE  Fits(s)' /\ Unborn(s)' /\ Parted(s)'
  <2>1. Fits(s)'
    <3>1. CASE s = t
      BY <1>1, <3>1, JobStep
    <3>2. CASE s # t
      BY <1>1, <3>2, OthersStay DEF Fits
    <3> QED
      BY <3>1, <3>2
  <2> QED
    BY <2>1, UnbornStep, PartedStep
<1>5. Drawn' /\ Stored' /\ Named'
  BY <1>1, DrawnStep, StoredStep, NamedStep DEF Reached, MediaInv
<1>6. ASSUME NEW s \in Task
      PROVE  OneGoes(s)' /\ AlbumGoes(s)' /\ AccountGoes(s)' /\ PreviousGoes(s)' /\ Portrait(s)'
  BY OneGoesStep, AlbumGoesStep, AccountGoesStep, PreviousGoesStep, PortraitStep
<1>7. Portraits'
  BY PortraitsStep
<1> QED
  BY <1>2, <1>3, <1>4, <1>5, <1>6, <1>7 DEF Reached, MediaInv

(* Nothing here is about the rows of albums. *)
LEMMA AlbumsApart ==
  ASSUME Reached, UNCHANGED <<account, avatar, objects, born, kind, links, tracks, used, stage,
                              job, cut, late, byHand, rivals>>
  PROVE  MediaInv' /\ Dated' /\ Rows' = Rows
<1>1. Rows' = Rows /\ Dated'
  BY DEF Rows, Dated, Reached
<1>2. \A t \in Task : KeysOf(t)' = KeysOf(t)
  BY DEF KeysOf
<1>3. \A t \in Task : Fits(t)' /\ Unborn(t)' /\ Parted(t)'
  BY <1>1, <1>2 DEF Reached, MediaInv, Fits, Unborn, Parted
<1>4. Drawn'
  BY <1>1, <1>2 DEF Reached, MediaInv, Drawn
<1>5. Stored' /\ Named'
  <2>1. \A t \in Task, k \in Rows : Removing(t, k) => Removing(t, k)'
    BY DEF Removing
  <2> QED
    BY <1>1, <2>1 DEF Reached, MediaInv, Stored, Named
<1>6. \A t \in Task : OneGoes(t)' /\ AccountGoes(t)' /\ PreviousGoes(t)'
  BY <1>1 DEF Reached, MediaInv, OneGoes, AccountGoes, PreviousGoes
<1>7. \A t \in Task : AlbumGoes(t)'
  <2>1. \A t \in Task : AttachedTo(job[t].album)' = AttachedTo(job[t].album)
    BY DEF AttachedTo
  <2> QED
    BY <1>1, <2>1 DEF Reached, MediaInv, AlbumGoes
<1>8. Portraits' /\ \A t \in Task : Portrait(t)'
  BY DEF Reached, MediaInv, Portraits, Portrait, AvatarServed, Doing
<1> QED
  BY <1>1, <1>3, <1>4, <1>5, <1>6, <1>7, <1>8 DEF Reached, MediaInv

LEMMA ReachedNext == Reached /\ [MediaNext]_mediaVars => Reached'
<1> SUFFICES ASSUME Reached, [MediaNext]_mediaVars
             PROVE  Reached'
  OBVIOUS
<1>1. CASE \E t \in Task : Act(t)
  BY <1>1, ReachedStep
<1>2. CASE UNCHANGED mediaVars
  <2>1. MediaInv' /\ Dated' /\ Rows' = Rows
    BY <1>2, AlbumsApart DEF mediaVars
  <2>2. MediaTypes'
    BY <1>2, <2>1 DEF mediaVars, Reached, MediaTypes
  <2> QED
    BY <2>1, <2>2 DEF Reached
<1>3. CASE CreateAlbum
  <2>1. /\ UNCHANGED <<account, avatar, objects, born, kind, links, tracks, used, stage, job,
                       cut, late, byHand, rivals>>
        /\ made' \in 0 .. MaxAlbums /\ albums \subseteq albums' /\ albums' \in SUBSET (1 .. made')
    <3>1. made \in 0 .. MaxAlbums /\ albums \in SUBSET (1 .. made) /\ made < MaxAlbums
          /\ made' = made + 1 /\ albums' = albums \cup {made + 1} /\ MaxAlbums \in Nat
      BY <1>3, MediaAssumption DEF CreateAlbum, MakeAlbum, Reached, MediaTypes
    <3>2. 1 .. made \subseteq 1 .. (made + 1) /\ made + 1 \in 1 .. (made + 1)
      BY <3>1
    <3>3. made + 1 \in 0 .. MaxAlbums
      BY <3>1
    <3> QED
      BY <1>3, <3>1, <3>2, <3>3 DEF CreateAlbum, rows, doubts
  <2>2. MediaInv' /\ Dated' /\ Rows' = Rows
    BY <2>1, AlbumsApart
  <2>3. MediaTypes'
    BY <2>1, <2>2 DEF Reached, MediaTypes
  <2> QED
    BY <2>2, <2>3 DEF Reached
<1> QED
  BY <1>1, <1>2, <1>3 DEF MediaNext, Act

-----------------------------------------------------------------------------
(***************************************************************************)
(* Albums hold photos and avatars, so deleting one leaves no audio without *)
(* its media.                                                              *)
(***************************************************************************)
Pictures == {"photo", "avatar"}

Kinded ==
  /\ \A l \in links : kind[l[2]] \in Pictures
  /\ \A t \in Task :
       /\ stage[t] \in {"album", "newAlbum", "attach"} => kind[job[t].key] \in Pictures
       /\ stage[t] = "deleteAlbum" => \A k \in job[t].keys : kind[k] \in Pictures
  /\ \A k \in tracks : kind[k] = "audio" => k \in Rows

LEMMA KindedStep ==
  ASSUME Reached, Kinded, NEW t \in Task, Act(t)
  PROVE  Kinded'
<1>1. /\ MediaTypes /\ Dated /\ Fits(t) /\ Unborn(t) /\ Portrait(t) /\ MediaTypes' /\ Fits(t)'
  BY MediaTypesStep, JobStep DEF Reached, MediaInv
<1>2. ASSUME NEW k \in Rows \cup tracks
      PROVE  kind'[k] = kind[k]
  <2>1. k \in Key
    BY <1>1, RowsFacts DEF MediaTypes
  <2>2. InsertRow(t) => k # job[t].key
    BY <1>1 DEF InsertRow, Unborn, Handled
  <2> QED
    BY <2>1, <2>2, KindStays
<1>3. ASSUME NEW l \in links'
      PROVE  kind'[l[2]] \in Pictures
  <2>1. CASE l \in links
    <3>1. l[2] \in Rows
      BY <1>1, <2>1 DEF MediaTypes
    <3> QED
      BY <1>2, <2>1, <3>1 DEF Kinded
  <2>2. CASE l \notin links
    <3>1. AttachPhoto(t)
      BY <1>1, <1>3, <2>2, Frame, RemovalFacts
    <3>2. stage[t] = "attach" /\ l[2] = job[t].key /\ kind' = kind
      BY <1>3, <2>2, <3>1 DEF AttachPhoto
    <3> QED
      BY <3>2 DEF Kinded
  <2> QED
    BY <2>1, <2>2
<1>4. ASSUME NEW s \in Task
      PROVE  /\ stage'[s] \in {"album", "newAlbum", "attach"} => kind'[job'[s].key] \in Pictures
             /\ stage'[s] = "deleteAlbum" => \A k \in job'[s].keys : kind'[k] \in Pictures
  <2>1. CASE s # t
    <3>1. stage'[s] = stage[s] /\ job'[s] = job[s] /\ Fits(s)
      BY <1>1, <2>1, OthersStay DEF Reached, MediaInv
    <3>2. ASSUME NEW k \in KeysOf(s)
          PROVE  kind'[k] = kind[k]
      <4>1. k \in Key
        BY <1>1, JobFacts
      <4>2. InsertRow(t) => k # job[t].key
        BY <1>1, <2>1 DEF InsertRow, Unborn, Handled
      <4> QED
        BY <4>1, <4>2, KindStays
    <3>3. stage[s] \in {"album", "newAlbum", "attach"} => job[s].key \in KeysOf(s)
      BY <3>1 DEF Fits, KeysOf
    <3>4. job[s].keys \subseteq KeysOf(s)
      BY <1>1, JobFacts, KeyFacts DEF KeysOf
    <3> QED
      BY <3>1, <3>2, <3>3, <3>4 DEF Kinded
  <2>2. CASE s = t /\ stage'[t] = "album" /\ InsertRow(t)
    <3>1. /\ job' = job /\ job[t].key \in Key
          /\ kind' = [kind EXCEPT ![job[t].key] =
                        IF job[t].op \in AvatarOps THEN "avatar" ELSE job[t].op]
          /\ AfterRow(job[t].op) = "album"
      BY <1>1, <2>2, InsertRowFacts
    <3>2. job[t].op \in Uploads \cup AvatarOps
      BY <1>1, <2>2 DEF InsertRow, Fits
    <3>3. job[t].op = "photo"
      BY <3>1, <3>2 DEF AfterRow, Uploads, AvatarOps
    <3>4. kind'[job[t].key] = "photo"
      BY <1>1, <3>1, <3>3 DEF MediaTypes, AvatarOps
    <3> QED
      BY <2>2, <3>1, <3>4 DEF Pictures
  <2>3. CASE s = t /\ stage'[t] = "album" /\ SetAvatarKey(t)
    <3>1. stage[t] = "setKey" /\ job' = job /\ kind' = kind
      <4>1. ~End(t)
        BY <1>1, <2>3, EndFacts
      <4> QED
        BY <2>3, <4>1 DEF SetAvatarKey, Continue, rows
    <3>2. kind[job[t].key] = "avatar"
      BY <1>1, <3>1 DEF Fits, Portrait, Doing
    <3> QED
      BY <2>3, <3>1, <3>2 DEF Pictures
  <2>4. CASE s = t /\ stage'[t] \in {"newAlbum", "attach"}
    <3>1. DefaultAlbum(t) \/ NewAlbum(t)
      BY <1>1, <2>4, Arrivals
    <3>2. stage[t] \in {"album", "newAlbum"} /\ kind' = kind /\ job'[t].key = job[t].key
      <4>1. ~End(t)
        BY <1>1, <2>4, EndFacts
      <4>2. job' = job \/ \E a : job' = [job EXCEPT ![t].album = a]
        BY <3>1, <4>1 DEF DefaultAlbum, NewAlbum, Continue
      <4> QED
        BY <1>1, <3>1, <4>2 DEF DefaultAlbum, NewAlbum, rows, MediaTypes, Job
    <3> QED
      BY <2>4, <3>2 DEF Kinded
  <2>5. CASE s = t /\ stage'[t] = "deleteAlbum"
    <3>1. AlbumLinks(t)
      BY <1>1, <2>5, Arrivals
    <3>2. job'[t].keys = AttachedTo(job[t].album) /\ kind' = kind
      BY <1>1, <3>1 DEF AlbumLinks, rows, MediaTypes, Job
    <3> QED
      BY <2>5, <3>2 DEF Kinded, AttachedTo
  <2> QED
    BY <1>1, <2>1, <2>2, <2>3, <2>4, <2>5, Arrivals
<1>5. ASSUME NEW k \in tracks', kind'[k] = "audio"
      PROVE  k \in Rows'
  <2>1. CASE k \notin tracks
    <3>1. InsertTrack(t)
      BY <1>1, <1>5, <2>1, Frame, RemovalFacts DEF DeleteTrack
    <3> QED
      BY <1>5, <2>1, <3>1 DEF InsertTrack, Rows
  <2>2. CASE k \in tracks
    <3>1. kind[k] = "audio" /\ k \in Rows
      BY <1>2, <1>5, <2>2 DEF Kinded
    <3> SUFFICES ASSUME k \notin Rows'
                 PROVE  FALSE
      OBVIOUS
    <3>2. Removal(t) /\ k \in Gone(t)
      BY <3>1, RowGoes
    <3>3. CASE DropRow(t) \/ DeleteRow(t)
      <4>1. DeleteRows(Gone(t))
        BY <3>3 DEF DropRow, DeleteRow, Gone
      <4> QED
        BY <1>5, <3>1, <3>2, <4>1 DEF DeleteRows
    <3>4. CASE DeleteAlbum(t)
      BY <3>1, <3>2, <3>4 DEF DeleteAlbum, Gone, Kinded, Pictures
    <3>5. CASE DeleteAccount(t)
      BY <1>5, <3>5 DEF DeleteAccount
    <3> QED
      BY <3>2, <3>3, <3>4, <3>5 DEF Removal
  <2> QED
    BY <2>1, <2>2
<1> QED
  BY <1>3, <1>4, <1>5 DEF Kinded

LEMMA KindedInit == MediaInit => Kinded
<1> SUFFICES ASSUME MediaInit
             PROVE  Kinded
  OBVIOUS
<1>1. links = {} /\ tracks = {} /\ stage = [t \in Task |-> "idle"]
  BY DEF MediaInit
<1> QED
  BY <1>1 DEF Kinded

LEMMA KindedNext == Reached /\ Kinded /\ [MediaNext]_mediaVars => Kinded'
<1> SUFFICES ASSUME Reached, Kinded, [MediaNext]_mediaVars
             PROVE  Kinded'
  OBVIOUS
<1>1. CASE \E t \in Task : Act(t)
  BY <1>1, KindedStep
<1>2. CASE UNCHANGED <<links, kind, stage, job, tracks, born>>
  BY <1>2 DEF Kinded, Rows
<1>3. CASE CreateAlbum
  BY <1>2, <1>3 DEF CreateAlbum, rows
<1> QED
  BY <1>1, <1>2, <1>3 DEF MediaNext, Act, mediaVars

(***************************************************************************)
(* The tables, the bucket and the requests keep their types, and no audio  *)
(* outlives its media.                                                     *)
(***************************************************************************)
THEOREM MediaTypesHold == MediaSpec => []MediaTypeOK
<1>1. Reached /\ Kinded => MediaTypeOK
  BY DEF Reached, MediaTypes, MediaTypeOK, Kinded, Sorts
<1> QED
  BY <1>1, ReachedInit, ReachedNext, KindedInit, KindedNext, PTL DEF MediaSpec

(***************************************************************************)
(* For any number of uploads, albums and requests, and whatever requests   *)
(* are sent: a row that no request works on names an object that is in the *)
(* bucket, unless its key is in doubt.                                     *)
(***************************************************************************)
THEOREM RowsNameObjects == MediaSpec => []RowsHaveObjects
<1>1. Reached => RowsHaveObjects
  <2> SUFFICES ASSUME Reached, NEW k \in Rows, k \notin InHand \cup cut \cup late
               PROVE  k \in objects
    BY DEF RowsHaveObjects
  <2>1. k \in objects \/ \E t \in Task : Removing(t, k)
    BY DEF Reached, MediaInv, Stored
  <2>2. ASSUME NEW t \in Task, Removing(t, k)
        PROVE  FALSE
    <3>1. k # Nil
      BY RowsFacts, KeyFacts DEF Reached
    <3>2. k \in KeysOf(t)
      BY <2>2, <3>1 DEF Removing, KeysOf
    <3> QED
      BY <3>2 DEF InHand
  <2> QED
    BY <2>1, <2>2
<1> QED
  BY <1>1, ReachedInit, ReachedNext, PTL DEF MediaSpec

(***************************************************************************)
(* No object is left in the bucket that no row names, but for the races    *)
(* and the cuts that put its key in doubt.                                 *)
(***************************************************************************)
THEOREM OrphansExplained == MediaSpec => []OrphansOnlyFromRaces
<1>1. Reached => OrphansOnlyFromRaces
  <2> SUFFICES ASSUME Reached, NEW k \in objects, k \notin Rows \cup cut \cup late
               PROVE  k \in InHand
    BY DEF OrphansOnlyFromRaces
  <2>1. PICK t \in Task : stage[t] \in Handled /\ k = job[t].key
    BY DEF Reached, MediaInv, Named
  <2>2. k # Nil
    BY KeyFacts DEF Reached, MediaTypes
  <2> QED
    BY <2>1, <2>2 DEF KeysOf, InHand
<1> QED
  BY <1>1, ReachedInit, ReachedNext, PTL DEF MediaSpec

(***************************************************************************)
(* The avatar of a profile is in the bucket, unless two requests for it    *)
(* ran at once or the user deleted it among the photos.                    *)
(***************************************************************************)
THEOREM AvatarsServed == MediaSpec => []AvatarServed
<1>1. Reached => AvatarServed
  BY DEF Reached, MediaInv, Portraits
<1> QED
  BY <1>1, ReachedInit, ReachedNext, PTL DEF MediaSpec
=============================================================================
