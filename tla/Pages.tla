-------------------------------- MODULE Pages --------------------------------
(***************************************************************************)
(* The lists the server answers with: walls and news, comments, those who  *)
(* like something, notifications, albums, audios, videos, tickets,         *)
(* reports, the users administrators see.  None is read in one piece: a    *)
(* query reads the rows, another what the rows refer to (their authors,    *)
(* the owners of the walls, the media behind them), others count comments  *)
(* and likes, each with what is committed by then, while posts come and    *)
(* are hidden, others like and comment, and users leave.                   *)
(*                                                                         *)
(* One list is read, of one kind.  A row refers to a thing: users and      *)
(* groups, or rows of media_objects.  The copies that the lists of posts   *)
(* leave in the cache are in module Social.                                *)
(***************************************************************************)
EXTENDS Integers, Sequences, FiniteSets

CONSTANTS
  Thing,       \* what rows refer to; a wall is listed under its own name
  Club,        \* the one that does not go: a group
  Own,         \* the viewer, as the owner of a wall
  Drafts,      \* the rows of the table, in the order they come: [on, by]
  Fan,         \* who likes and comments
  Viewer,      \* the one among them who reads the list
  PageSize,    \* 50, of comments, likes, tickets and reports 100
  MaxChanges   \* bound: what happens while the list is read

Item == DOMAIN Drafts
Mark == Item \X Fan
Others == {"news", "comments", "likers", "notices", "album", "audios", "videos", "tickets",
           "reports", "users"}

ASSUME PagesAssumption ==
  /\ {Club, Own} \subseteq Thing /\ Viewer \in Fan
  /\ Thing \cap Others = {} /\ IsFiniteSet(Fan)
  /\ Drafts \in Seq([on : Thing, by : Thing])
  /\ PageSize \in Nat /\ MaxChanges \in Nat

VARIABLES
  list,      \* the list that is read
  items,     \* rows of its table
  hidden,    \* those with deleted_at
  things,    \* what still has a row
  remarks,   \* comments, each with the one who wrote it
  hearts,    \* likes, each with the one who likes
  queries, got, \* the queries to come, and what those before have found
  steady,    \* history: what stood all the time since the request came
  ever,      \* history: what stood at some moment since
  changes    \* how much has happened since

pageTables == <<items, hidden, things, remarks, hearts>>
pagesVars == <<list, items, hidden, things, remarks, hearts, queries, got, steady, ever, changes>>

-----------------------------------------------------------------------------
(***************************************************************************)
(* The kinds of lists.  cut: which rows a longer table is cut down to.     *)
(* lost: whether a row goes with the thing it refers to, or loses the      *)
(* reference.  missing: a row whose thing is not found is dropped, kept    *)
(* without it, or fails the request.  marked: comments or likes are told.  *)
(***************************************************************************)
Page(of, cut, lost, missing, goes, reads) ==
  [of |-> of, cut |-> cut, lost |-> lost, missing |-> missing, goes |-> goes, reads |-> reads]

PostPage(of, reads) ==
  Page(of, "newest", "row", "drop", FALSE, reads)

News == PostPage("news", <<"walls", "items", "things", "remarks", "hearts">>)
Wall(w) == PostPage(w, <<"items", "things", "remarks", "hearts">>)
Comments == Page("comments", "oldest", "row", "drop", FALSE, <<"items", "things", "hearts">>)
Likers == Page("likers", "oldest", "row", "drop", TRUE, <<"items", "things">>)
Notices == Page("notices", "newest", "reference", "keep", FALSE, <<"items", "things">>)
Album == Page("album", "none", "row", "drop", TRUE, <<"total", "items", "things", "hearts">>)
Audios == Page("audios", "newest", "row", "drop", TRUE, <<"items", "things">>)
Videos == Page("videos", "newest", "reference", "keep", TRUE, <<"items", "things", "hearts">>)
Tickets == Page("tickets", "newest", "row", "drop", TRUE, <<"items", "things">>)
Reports == Page("reports", "newest", "row", "fail", FALSE, <<"items", "one">>)
Users == Page("users", "newest", "row", "drop", FALSE, <<"items", "things">>)

Lists == {News, Comments, Likers, Notices, Album, Audios, Videos, Tickets, Reports, Users}
         \cup {Wall(w) : w \in Thing}

(***************************************************************************)
(* A thing has one row at most among those who like something, the users,  *)
(* and the rows of media.                                                  *)
(***************************************************************************)
Alone(r, rows) ==
  list \in {Likers, Album, Audios, Videos, Users} => \A q \in rows : q # r => Drafts[q].by # Drafts[r].by

OfPosts == list.of \in {"news"} \cup Thing

(***************************************************************************)
(* Posts have numbers of their own on each wall; comments and likes refer  *)
(* to them by wall and number.                                             *)
(***************************************************************************)
Number(r) == Cardinality({q \in Item : q <= r /\ Drafts[q].on = Drafts[r].on})
Address(r) == <<Drafts[r].on, Number(r)>>
Refers(r) == IF OfPosts THEN {Drafts[r].by, Drafts[r].on} ELSE {Drafts[r].by}

Standing == [items |-> items \ hidden, things |-> things,
             remarks |-> remarks, hearts |-> hearts]

PagesInit ==
  /\ list \in Lists
  /\ items \in SUBSET Item /\ hidden = {}
  /\ \A r \in items : Alone(r, items)
  /\ things = Thing
  /\ remarks \in {{}, items \X Fan} /\ hearts \in {{}, items \X Fan}
  /\ "remarks" \in {list.reads[n] : n \in DOMAIN list.reads} \/ remarks = {}
  /\ "hearts" \in {list.reads[n] : n \in DOMAIN list.reads} \/ hearts = {}
  /\ queries = list.reads
  /\ got = [walls |-> {list.of}, items |-> {}, things |-> {}, total |-> 0,
            remarks |-> [r \in Item |-> 0], hearts |-> [r \in Item |-> {}]]
  /\ steady = Standing /\ ever = Standing
  /\ changes = 0

-----------------------------------------------------------------------------
(***************************************************************************)
(* The queries of the request, in their order.                             *)
(***************************************************************************)
Query(name, found) ==
  /\ queries # <<>> /\ Head(queries) = name
  /\ queries' = Tail(queries)
  /\ got' = found
  /\ UNCHANGED <<list, pageTables, steady, ever, changes>>

(* The viewer and, here, everybody with an account is a friend.            *)
ReadFriends == Query("walls", [got EXCEPT !.walls = {Own} \cup (things \ {Club})])

Precedes(q, r) == IF list.cut = "newest" THEN q > r ELSE q < r
Cut(rows) ==
  IF list.cut = "none" THEN rows
  ELSE {r \in rows : Cardinality({q \in rows : Precedes(q, r)}) < PageSize}

Listable == {r \in items \ hidden : OfPosts => Drafts[r].on \in got.walls}

ReadItems == Query("items", [got EXCEPT !.items = Cut(Listable)])

ReadTotal == Query("total", [got EXCEPT !.total = Cardinality(items)])

(* Mistake: the owners of the walls are not looked up.                     *)
ReadAuthors ==
  Query("things", [got EXCEPT !.things = {Drafts[r].by : r \in got.items} \cap things])

(* All that the rows refer to, each once.                                  *)
ReadThings ==
  Query("things", [got EXCEPT !.things = (UNION {Refers(r) : r \in got.items}) \cap things])

(***************************************************************************)
(* The authors of reports are looked up one by one; a cache may still know *)
(* one who has left.                                                       *)
(***************************************************************************)
ReadOne ==
  /\ queries = <<"one">>
  /\ LET owed == {Drafts[r].by : r \in got.items} \ got.things IN
     \/ owed = {} /\ queries' = <<>> /\ UNCHANGED got
     \/ \E u \in owed : got' = [got EXCEPT !.things = @ \cup {u}] /\ UNCHANGED queries
     \/ ~(owed \subseteq things) /\ queries' = <<"failed">> /\ UNCHANGED got
  /\ UNCHANGED <<list, pageTables, steady, ever, changes>>

(* Mistake: comments are counted by the number of the post alone.          *)
RemarksByNumber(r) == {m \in remarks : Number(m[1]) = Number(r)}

RemarksOn(r) == {m \in remarks : Address(m[1]) = Address(r)}

ReadRemarks ==
  Query("remarks", [got EXCEPT !.remarks = [r \in Item |-> Cardinality(RemarksOn(r))]])

ReadHearts ==
  Query("hearts", [got EXCEPT !.hearts = [r \in Item |-> {m[2] : m \in {h \in hearts : h[1] = r}}]])

(* What is answered.                                                       *)
Listed ==
  {r \in got.items : list.missing = "drop" => Refers(r) \subseteq got.things}

Read == \/ ReadFriends \/ ReadItems \/ ReadTotal \/ ReadThings \/ ReadOne
        \/ ReadRemarks \/ ReadHearts

-----------------------------------------------------------------------------
(***************************************************************************)
(* What others do meanwhile.                                               *)
(***************************************************************************)
Happens ==
  /\ queries \notin {<<>>, <<"failed">>}
  /\ changes < MaxChanges
  /\ changes' = changes + 1
  /\ steady' = [part \in DOMAIN steady |-> steady[part] \cap Standing'[part]]
  /\ ever' = [part \in DOMAIN ever |-> ever[part] \cup Standing'[part]]
  /\ UNCHANGED <<list, queries, got>>

Come(r) ==
  /\ \A q \in ever.items \cup hidden : q < r
  /\ Drafts[r].by \in things /\ Alone(r, items)
  /\ items' = items \cup {r}
  /\ UNCHANGED <<hidden, things, remarks, hearts>>

Hide(r) ==
  /\ OfPosts /\ r \in items
  /\ hidden' = (IF r \in hidden THEN hidden \ {r} ELSE hidden \cup {r})
  /\ UNCHANGED <<items, things, remarks, hearts>>

Remove(r) ==
  /\ list.goes /\ r \in items
  /\ items' = items \ {r}
  /\ UNCHANGED <<hidden, things, remarks, hearts>>

Comment(r, f) ==
  /\ OfPosts /\ r \in items \ hidden
  /\ remarks' = remarks \cup {<<r, f>>}
  /\ UNCHANGED <<items, hidden, things, hearts>>

Like(r, f) ==
  /\ r \in items \ hidden
  /\ hearts' = (IF <<r, f>> \in hearts THEN hearts \ {<<r, f>>} ELSE hearts \cup {<<r, f>>})
  /\ UNCHANGED <<items, hidden, things, remarks>>

(***************************************************************************)
(* A user leaves, or the row of a medium is deleted: the rows by it go, or *)
(* lose the reference; posts of others stay on the wall of one who left.   *)
(***************************************************************************)
Go(x) ==
  /\ x \in things \ {Club}
  /\ things' = things \ {x}
  /\ items' = IF list.lost = "row" THEN {r \in items : Drafts[r].by # x} ELSE items
  /\ UNCHANGED <<hidden, remarks, hearts>>

FanGoes(f) ==
  /\ remarks' = {m \in remarks : m[2] # f} /\ hearts' = {m \in hearts : m[2] # f}
  /\ UNCHANGED <<items, hidden, things>>

Change ==
  \/ \E r \in Item : Come(r) \/ Hide(r) \/ Remove(r)
  \/ \E r \in Item, f \in Fan : Comment(r, f) \/ Like(r, f)
  \/ \E x \in Thing : Go(x)
  \/ \E f \in Fan : FanGoes(f)

PagesNext == Read \/ (Change /\ Happens)

PagesSpec == PagesInit /\ [][PagesNext]_pagesVars

-----------------------------------------------------------------------------
Answered == queries = <<>>

(***************************************************************************)
(* A list holds what belonged into it at some moment of the request, and   *)
(* whatever did so all the time, unless that much came before it that the  *)
(* list was full; what a row refers to is shown with it as long as it is   *)
(* there; and a list of reports fails only when somebody left meanwhile.   *)
(***************************************************************************)
Followed(r) == OfPosts => Drafts[r].on \in (IF list.of = "news" THEN steady.things \ {Club} ELSE {list.of})

Crowded(r) ==
  list.cut # "none" /\ Cardinality({q \in ever.items : Precedes(q, r)}) >= PageSize

ListsWhatStood ==
  /\ Answered =>
       /\ Listed \subseteq ever.items
       /\ \A r \in steady.items :
            Followed(r) /\ Refers(r) \subseteq steady.things => r \in Listed \/ Crowded(r)
       /\ \A r \in Listed : Refers(r) \cap steady.things \subseteq got.things
  /\ queries = <<"failed">> => ~(Thing \subseteq steady.things)

(***************************************************************************)
(* The numbers told with a row are between what stood all the time and     *)
(* what stood at some moment: no comment or like of another post is among  *)
(* them, none is counted twice, and the viewer's own like is told as it    *)
(* stood, although each number is read at a moment of its own.             *)
(***************************************************************************)
Between(n, low, high) == Cardinality(low) <= n /\ n <= Cardinality(high)
On(marks, r) == {m \in marks : m[1] = r}

NumbersStood ==
  Answered =>
    /\ list = Album => Between(got.total, steady.items, ever.items)
    /\ OfPosts => \A r \in Listed :
         Between(got.remarks[r], On(steady.remarks, r), On(ever.remarks, r))
    /\ "hearts" \in {list.reads[n] : n \in DOMAIN list.reads} => \A r \in Listed :
         /\ Between(Cardinality(got.hearts[r]), On(steady.hearts, r), On(ever.hearts, r))
         /\ Viewer \in got.hearts[r] => <<r, Viewer>> \in ever.hearts
         /\ <<r, Viewer>> \in steady.hearts => Viewer \in got.hearts[r]
=============================================================================
