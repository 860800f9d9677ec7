------------------------------ MODULE Timeline ------------------------------
(***************************************************************************)
(* What the walls promise whoever refers to a post by /wall{owner}_{local} *)
(* (src/modules/wall): a counter for each wall, and posts that take its    *)
(* next numbers the moment they appear.  Nothing here is a statement of    *)
(* the database; Wall is shown to implement it.                            *)
(***************************************************************************)
EXTENDS Integers

CONSTANTS Walls, Author

VARIABLES
  posts,  \* the posts there are: [wall, id, author, hidden]
  given   \* given[w]: how many numbers wall w has given so far

timelineVars == <<posts, given>>

Init ==
  /\ posts = {}
  /\ given = [w \in Walls |-> 0]

(***************************************************************************)
(* Posts appear, one by a client or the first ones together: those of a    *)
(* wall take the numbers that follow the last one given, each its own.     *)
(***************************************************************************)
Publish ==
  LET new == posts' \ posts
  IN /\ posts \subseteq posts'
     /\ given' \in [Walls -> Nat]
     /\ \A w \in Walls :
          /\ given[w] <= given'[w]
          /\ {p.id : p \in {q \in new : q.wall = w}} = (given[w] + 1) .. given'[w]
     /\ \A p \in new : p.wall \in Walls /\ p.author \in Author /\ ~ p.hidden
     /\ \A p, q \in new : p.wall = q.wall /\ p.id = q.id => p = q

(* A post is hidden or shown: nothing else of it changes, nor its number.  *)
SetHidden(p, flag) ==
  /\ posts' = (posts \ {p}) \cup {[p EXCEPT !.hidden = flag]}
  /\ UNCHANGED given

(* An account leaves with all its posts, whose numbers are not given back. *)
Leave(a) ==
  /\ posts' = {p \in posts : p.author # a}
  /\ UNCHANGED given

Next ==
  \/ Publish
  \/ \E p \in posts, flag \in BOOLEAN : SetHidden(p, flag)
  \/ \E a \in Author : Leave(a)

Spec == Init /\ [][Next]_timelineVars
=============================================================================
