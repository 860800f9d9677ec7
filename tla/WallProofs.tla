------------------------------ MODULE WallProofs ------------------------------
(***************************************************************************)
(* What holds of the numbers of the posts for any number of writes,        *)
(* replicas, accounts and posts, and whichever walls are written to.       *)
(***************************************************************************)
EXTENDS Wall, FiniteSetTheorems, TLAPS

(***************************************************************************)
(* A wall is founded by the first note the seed puts on it: it is a note   *)
(* of an owner, whose account stays, and takes number 1 for ever.          *)
(***************************************************************************)
Anchored(w) == \E p \in posts : p.wall = w /\ p.id = 1 /\ p.author = Owner

Founded ==
  /\ \A w \in Walls : issued[w] # {} => Anchored(w)
  /\ \A p \in posts : Anchored(p.wall)
  /\ posts # {} => Anchored(Ivan) /\ Anchored(Anna)

(***************************************************************************)
(* The row of a wall is locked by one write, which has the number after    *)
(* wall_seq; a number it inserted is free.                                 *)
(***************************************************************************)
Holds(t) == pc[t] \in {"insert", "commit"}

RowLock ==
  \A t, u \in Task : Holds(t) /\ Holds(u) /\ job[t].wall = job[u].wall => t = u

Writer(t) ==
  /\ pc[t] # "idle" => \A w \in Walls : Anchored(w)
  /\ Holds(t) => got[t] = seq[job[t].wall] + 1
  /\ pc[t] = "commit" => /\ ~Taken(job[t].wall, got[t])
                         /\ job[t].author \in guests \cup {Owner}

(***************************************************************************)
(* A start that owes a wall its wall_seq is the one that founded it, and   *)
(* nobody could write there since.                                         *)
(***************************************************************************)
Seeds(w) == IF w = Ivan THEN {1, 2} ELSE {1}

Starter(s) ==
  /\ boot[s] \in {"setSeq", "raiseSeq", "countClub", "insertClub", "raiseClubSeq", "up"} =>
       Anchored(Ivan) /\ Anchored(Anna)
  /\ boot[s] \in {"raiseClubSeq", "up"} => Anchored(Club)
  /\ \A w \in Owed(boot[s]) : Anchored(w) /\ seq[w] = 0 /\ issued[w] = Seeds(w)

OneOwes ==
  \A r, s \in Replica : Owed(boot[r]) \cap Owed(boot[s]) # {} => r = s

IInv ==
  /\ TypeOK
  /\ SequentialIds
  /\ Founded
  /\ RowLock
  /\ \A t \in Task : Writer(t)
  /\ \A s \in Replica : Starter(s)
  /\ OneOwes

(***************************************************************************)
(* What a write sees of the rest.                                          *)
(***************************************************************************)
rest == <<guests, address, lost, seq, posts, boot, stops, torn, issued>>

-----------------------------------------------------------------------------
LEMMA OwedFacts ==
  /\ Owed("setSeq") = {Ivan, Anna} /\ Owed("raiseSeq") = {Anna}
  /\ Owed("raiseClubSeq") = {Club}
  /\ \A l \in {"down", "join", "count", "insertNotes", "countClub", "insertClub", "up"} : Owed(l) = {}
  BY DEF Owed

LEMMA InitIInv == Init => IInv
<1> SUFFICES ASSUME Init PROVE IInv
  OBVIOUS
<1> USE DEF Init
<1>1. TypeOK
  BY WallAssumption DEF TypeOK
<1>2. SequentialIds /\ Founded /\ RowLock /\ \A t \in Task : Writer(t)
  BY DEF SequentialIds, Founded, RowLock, Holds, Writer
<1>3. (\A s \in Replica : Starter(s)) /\ OneOwes
  BY OwedFacts DEF Starter, OneOwes
<1> QED BY <1>1, <1>2, <1>3 DEF IInv

-----------------------------------------------------------------------------
(***************************************************************************)
(* A statement of a write that nobody else sees yet.                       *)
(***************************************************************************)
LEMMA WriteStep ==
  ASSUME IInv, NEW t \in Task, UNCHANGED rest,
         NEW l \in {"idle", "bump", "insert", "commit"}, NEW j \in Job \cup {None},
         NEW g \in 0 .. MaxSeq,
         pc' = [pc EXCEPT ![t] = l], job' = [job EXCEPT ![t] = j], got' = [got EXCEPT ![t] = g],
         l # "idle" => j \in Job, Writer(t)', RowLock'
  PROVE  IInv'
<1> USE DEF rest
<1>1. /\ \A u \in Task \ {t} : pc'[u] = pc[u] /\ job'[u] = job[u] /\ got'[u] = got[u]
      /\ pc'[t] = l /\ job'[t] = j
  BY DEF IInv, TypeOK
<1>2. TypeOK'
  BY <1>1 DEF IInv, TypeOK
<1>3. SequentialIds' /\ Founded' /\ OneOwes'
  <2>1. Unsettled' = Unsettled
    BY DEF Unsettled
  <2> QED BY <2>1 DEF IInv, SequentialIds, Founded, Anchored, OneOwes
<1>4. ASSUME NEW u \in Task, u # t PROVE Writer(u)'
  BY <1>1, <1>4 DEF IInv, Writer, Holds, Anchored, Taken
<1>5. \A s \in Replica : Starter(s)'
  BY DEF IInv, Starter, Anchored
<1> QED BY <1>2, <1>3, <1>4, <1>5 DEF IInv

LEMMA EndStep ==
  ASSUME IInv, NEW t \in Task, End(t), UNCHANGED rest
  PROVE  IInv'
<1>1. /\ pc' = [pc EXCEPT ![t] = "idle"] /\ job' = [job EXCEPT ![t] = None]
      /\ got' = [got EXCEPT ![t] = 0]
  BY DEF End, Goto
<1>2. pc'[t] = "idle" /\ \A u \in Task \ {t} : pc'[u] = pc[u] /\ job'[u] = job[u]
  BY <1>1 DEF IInv, TypeOK
<1>3. Writer(t)' /\ RowLock'
  BY <1>2 DEF Writer, Holds, IInv, RowLock
<1>4. 0 \in 0 .. MaxSeq
  BY WallAssumption
<1> QED BY <1>1, <1>3, <1>4, WriteStep

LEMMA BeginStep ==
  ASSUME IInv, NEW t \in Task, NEW j \in Job, Begin(t, j)
  PROVE  IInv'
<1>1. /\ pc' = [pc EXCEPT ![t] = "bump"] /\ job' = [job EXCEPT ![t] = j]
      /\ got' = [got EXCEPT ![t] = got[t]] /\ UNCHANGED rest
  BY DEF Begin, Goto, rest, IInv, TypeOK
<1>2. pc'[t] = "bump" /\ \A u \in Task \ {t} : pc'[u] = pc[u] /\ job'[u] = job[u]
  BY <1>1 DEF IInv, TypeOK
<1>3. \A w \in Walls : Anchored(w)
  BY DEF Begin, Serving, IInv, Starter, Walls
<1>4. Writer(t)' /\ RowLock'
  BY <1>1, <1>2, <1>3 DEF Writer, Holds, IInv, RowLock, Anchored, rest
<1>5. got[t] \in 0 .. MaxSeq
  BY DEF IInv, TypeOK
<1> QED BY <1>1, <1>4, <1>5, WriteStep

LEMMA BumpStep ==
  ASSUME IInv, NEW t \in Task, Bump(t)
  PROVE  IInv'
<1> DEFINE w == job[t].wall
           g == seq[w] + 1
<1>1. pc[t] = "bump" /\ job[t] \in Job /\ w \in Walls /\ seq[w] < MaxSeq /\ seq[w] \in 0 .. MaxSeq
  BY WallAssumption DEF Bump, IInv, TypeOK, Job
<1>2. g \in 0 .. MaxSeq
  BY <1>1, WallAssumption
<1>3. /\ pc' = [pc EXCEPT ![t] = "insert"] /\ job' = [job EXCEPT ![t] = job[t]]
      /\ got' = [got EXCEPT ![t] = g] /\ UNCHANGED rest
  BY DEF Bump, Goto, rest, IInv, TypeOK
<1>4. /\ pc'[t] = "insert" /\ got'[t] = g
      /\ job' = job /\ \A u \in Task \ {t} : pc'[u] = pc[u]
  BY <1>3 DEF IInv, TypeOK
<1>5. \A u \in Task : Holds(u) => job[u].wall # w
  BY DEF Bump, Holding, Holds
<1>6. RowLock'
  BY <1>4, <1>5 DEF IInv, RowLock, Holds
<1>7. Writer(t)'
  BY <1>1, <1>3, <1>4 DEF IInv, Writer, Holds, Anchored, rest
<1> HIDE DEF g
<1> QED BY <1>1, <1>2, <1>3, <1>6, <1>7, WriteStep

LEMMA InsertStep ==
  ASSUME IInv, NEW t \in Task, Insert(t)
  PROVE  IInv'
<1>1. UNCHANGED rest
  BY DEF Insert, rest
<1>2. CASE End(t)
  BY <1>1, <1>2, EndStep
<1>3. CASE ~End(t)
  <2>1. /\ pc[t] = "insert" /\ Goto(t, "commit") /\ UNCHANGED <<job, got>>
        /\ job[t].author \in guests \cup {Owner} /\ ~Taken(job[t].wall, got[t])
    BY <1>3 DEF Insert
  <2>2. /\ pc' = [pc EXCEPT ![t] = "commit"] /\ job' = [job EXCEPT ![t] = job[t]]
        /\ got' = [got EXCEPT ![t] = got[t]]
    BY <2>1 DEF Goto, IInv, TypeOK
  <2>3. pc'[t] = "commit" /\ \A u \in Task \ {t} : pc'[u] = pc[u]
    BY <2>2 DEF IInv, TypeOK
  <2>4. Writer(t)' /\ RowLock'
    BY <1>1, <2>1, <2>3 DEF IInv, Writer, RowLock, Holds, Anchored, Taken, rest
  <2>5. job[t] \in Job /\ got[t] \in 0 .. MaxSeq
    BY <2>1 DEF IInv, TypeOK
  <2> QED BY <1>1, <2>2, <2>4, <2>5, WriteStep
<1> QED BY <1>2, <1>3

LEMMA DropStep ==
  ASSUME IInv, NEW t \in Task, Drop(t)
  PROVE  IInv'
  BY EndStep DEF Drop, rest

(***************************************************************************)
(* The number of a write that is about to commit is beyond all numbers     *)
(* that its wall gave, unless the wall's seed was cut off; and no start    *)
(* owes the wall its wall_seq.                                             *)
(***************************************************************************)
LEMMA NextNumber ==
  ASSUME IInv, NEW t \in Task, pc[t] = "commit"
  PROVE  LET w == job[t].wall
         IN /\ w \in Walls /\ job[t] \in Job
            /\ got[t] = seq[w] + 1 /\ seq[w] \in Nat /\ got[t] \in 1 .. MaxSeq
            /\ \A s \in Replica : w \notin Owed(boot[s])
            /\ w \notin torn => issued[w] \subseteq 1 .. seq[w]
<1> DEFINE w == job[t].wall
<1>1. job[t] \in Job /\ w \in Walls
  BY WallAssumption DEF IInv, TypeOK, Job
<1>2. got[t] = seq[w] + 1 /\ seq[w] \in Nat /\ got[t] \in 1 .. MaxSeq /\ Anchored(w)
      /\ ~Taken(w, got[t])
  BY <1>1, WallAssumption DEF IInv, TypeOK, Writer, Holds
<1>3. seq[w] # 0
  BY <1>2 DEF Anchored, Taken
<1>4. \A s \in Replica : w \notin Owed(boot[s])
  BY <1>3 DEF IInv, Starter
<1>5. w \notin torn => issued[w] \subseteq 1 .. seq[w]
  BY <1>1, <1>4 DEF IInv, SequentialIds, Unsettled
<1> QED BY <1>1, <1>2, <1>4, <1>5

LEMMA CommitStep ==
  ASSUME IInv, NEW t \in Task, Commit(t)
  PROVE  IInv'
<1> DEFINE w == job[t].wall
           g == got[t]
           note == Note(w, g, job[t].author)
<1>1. /\ pc[t] = "commit" /\ posts' = posts \cup {note} /\ seq' = [seq EXCEPT ![w] = g]
      /\ issued' = [issued EXCEPT ![w] = @ \cup {g}] /\ End(t)
      /\ UNCHANGED <<guests, address, lost, boot, stops, torn>>
  BY DEF Commit
<1>2. /\ w \in Walls /\ job[t] \in Job
      /\ g = seq[w] + 1 /\ seq[w] \in Nat /\ g \in 1 .. MaxSeq
      /\ \A s \in Replica : w \notin Owed(boot[s])
      /\ w \notin torn => issued[w] \subseteq 1 .. seq[w]
  BY <1>1, NextNumber
<1>3. /\ pc' = [pc EXCEPT ![t] = "idle"] /\ job' = [job EXCEPT ![t] = None]
      /\ got' = [got EXCEPT ![t] = 0] /\ 0 \in 0 .. MaxSeq /\ pc'[t] = "idle"
      /\ \A u \in Task \ {t} : pc'[u] = pc[u] /\ job'[u] = job[u] /\ got'[u] = got[u]
  BY <1>1, WallAssumption DEF End, Goto, IInv, TypeOK
<1>4. /\ issued'[w] = issued[w] \cup {g} /\ seq'[w] = g
      /\ \A v \in Walls \ {w} : issued'[v] = issued[v] /\ seq'[v] = seq[v]
  BY <1>1, <1>2 DEF IInv, TypeOK
<1>5. job[t].author \in guests \cup {Owner} /\ \A v \in Walls : Anchored(v)
  BY <1>1 DEF IInv, Writer
<1>6. \A v \in Walls : Anchored(v)'
  BY <1>1, <1>5 DEF Anchored
<1>7. TypeOK'
  <2>1. note \in Post /\ note.author \in guests \cup {Owner}
    BY <1>2, <1>5 DEF Note, Post, Job
  <2> HIDE DEF note
  <2>2. posts' \in SUBSET Post /\ \A p \in posts' : p.author \in guests' \cup {Owner}
    BY <1>1, <2>1 DEF IInv, TypeOK
  <2>3. seq' \in [Walls -> 0 .. MaxSeq] /\ issued' \in [Walls -> SUBSET (1 .. MaxSeq)]
    BY <1>1, <1>2 DEF IInv, TypeOK
  <2>4. /\ pc' \in [Task -> {"idle", "bump", "insert", "commit"}]
        /\ job' \in [Task -> Job \cup {None}] /\ got' \in [Task -> 0 .. MaxSeq]
        /\ \A u \in Task : pc'[u] # "idle" => job'[u] \in Job
    BY <1>3 DEF IInv, TypeOK
  <2> QED BY <1>1, <2>2, <2>3, <2>4 DEF IInv, TypeOK
<1>8. SequentialIds'
  <2>1. Unsettled' = Unsettled
    BY <1>1 DEF Unsettled
  <2>2. ASSUME NEW v \in Walls
        PROVE  /\ 1 .. seq'[v] \subseteq issued'[v]
               /\ v \notin Unsettled => issued'[v] \subseteq 1 .. seq'[v]
    <3>1. /\ 1 .. seq[v] \subseteq issued[v]
          /\ v \notin Unsettled => issued[v] \subseteq 1 .. seq[v]
      BY DEF IInv, SequentialIds
    <3>2. CASE v = w
      BY <1>2, <1>4, <3>1, <3>2
    <3>3. CASE v # w
      BY <1>4, <3>1, <3>3
    <3> QED BY <3>2, <3>3
  <2> QED BY <2>1, <2>2 DEF SequentialIds
<1>9. Founded'
  <2>1. \A p \in posts' : p.wall \in Walls
    BY <1>7 DEF TypeOK, Post
  <2> QED BY <1>6, <2>1 DEF Founded, Walls
<1>10. RowLock'
  BY <1>3 DEF IInv, RowLock, Holds
<1>11. ASSUME NEW u \in Task PROVE Writer(u)'
  <2>1. CASE u = t
    BY <1>3, <2>1 DEF Writer, Holds
  <2>2. CASE u # t
    <3>1. Writer(u) /\ pc'[u] = pc[u] /\ job'[u] = job[u] /\ got'[u] = got[u]
      BY <1>3, <2>2 DEF IInv
    <3>2. Holds(u) => job[u].wall # w /\ job[u].wall \in Walls
      BY <1>1, <2>2, WallAssumption DEF IInv, RowLock, Holds, TypeOK, Job
    <3>3. Holds(u) => (Taken(job[u].wall, got[u])' <=> Taken(job[u].wall, got[u]))
      BY <1>1, <3>1, <3>2 DEF Taken, Note
    <3>4. Holds(u) => seq'[job[u].wall] = seq[job[u].wall]
      BY <1>4, <3>2
    <3> QED BY <1>1, <1>6, <3>1, <3>3, <3>4 DEF Writer, Holds
  <2> QED BY <2>1, <2>2
<1>12. ASSUME NEW s \in Replica PROVE Starter(s)'
  <2>1. Starter(s) /\ boot'[s] = boot[s] /\ Owed(boot[s]) \subseteq Walls \ {w}
    BY <1>1, <1>2 DEF IInv, Owed, Walls
  <2>2. Anchored(Ivan)' /\ Anchored(Anna)' /\ Anchored(Club)'
    BY <1>6 DEF Walls
  <2> QED BY <1>4, <1>6, <2>1, <2>2 DEF Starter, Walls
<1>13. OneOwes'
  BY <1>1 DEF IInv, OneOwes
<1> QED BY <1>7, <1>8, <1>9, <1>10, <1>11, <1>12, <1>13 DEF IInv

-----------------------------------------------------------------------------
(***************************************************************************)
(* A step of a start that leaves the tables alone.                         *)
(***************************************************************************)
LEMMA Advance ==
  ASSUME IInv, NEW s \in Replica,
         NEW l \in {"down", "join", "count", "insertNotes", "countClub", "insertClub", "up"},
         Proceed(s, l), UNCHANGED address,
         guests \subseteq guests', guests' \subseteq Guest, torn' \subseteq Walls,
         torn' = torn \cup Owed(boot[s]),
         stops' \in 0 .. MaxStops,
         UNCHANGED <<seq, posts, writers, issued>>,
         l \in {"countClub", "insertClub", "up"} => Anchored(Ivan) /\ Anchored(Anna),
         l = "up" => Anchored(Club)
  PROVE  IInv'
<1> USE DEF writers
<1>1. boot'[s] = l /\ \A r \in Replica \ {s} : boot'[r] = boot[r]
  BY DEF Proceed, IInv, TypeOK
<1>2. TypeOK'
  BY DEF Proceed, IInv, TypeOK
<1>3. Owed(l) = {}
  BY OwedFacts
<1>4. Unsettled' = Unsettled
  <2>1. \A r \in Replica : Owed(boot'[r]) \subseteq Owed(boot[r])
    BY <1>1, <1>3
  <2>2. \A r \in Replica : Owed(boot[r]) \subseteq torn' \cup Owed(boot'[r])
    BY <1>1
  <2>3. Owed(boot[s]) \subseteq Unsettled
    BY DEF Unsettled
  <2> QED BY <2>1, <2>2, <2>3 DEF Unsettled
<1>5. SequentialIds' /\ Founded' /\ RowLock'
  BY <1>4 DEF IInv, SequentialIds, Founded, Anchored, RowLock, Holds
<1>6. \A t \in Task : Writer(t)'
  BY DEF IInv, Writer, Holds, Anchored, Taken
<1>7. ASSUME NEW r \in Replica PROVE Starter(r)'
  <2>1. CASE r = s
    BY <1>1, <1>3, <2>1 DEF Starter, Anchored
  <2>2. CASE r # s
    BY <1>1, <2>2 DEF IInv, Starter, Anchored
  <2> QED BY <2>1, <2>2
<1>8. OneOwes'
  BY <1>1, <1>3 DEF IInv, OneOwes
<1> QED BY <1>2, <1>5, <1>6, <1>7, <1>8 DEF IInv

LEMMA StutterIInv == IInv /\ UNCHANGED vars => IInv'
<1> SUFFICES ASSUME IInv, UNCHANGED vars PROVE IInv'
  OBVIOUS
<1>1. TypeOK' /\ Founded' /\ RowLock' /\ OneOwes'
  BY DEF vars, writers, IInv, TypeOK, Founded, Anchored, RowLock, Holds, OneOwes
<1>2. Unsettled' = Unsettled
  BY DEF vars, writers, Unsettled
<1>3. SequentialIds'
  BY <1>2 DEF vars, writers, IInv, SequentialIds
<1>4. (\A t \in Task : Writer(t)') /\ (\A s \in Replica : Starter(s)')
  BY DEF vars, writers, IInv, Writer, Holds, Taken, Starter, Anchored
<1> QED BY <1>1, <1>3, <1>4 DEF IInv

LEMMA EnsureUsersStep ==
  ASSUME IInv, NEW s \in Replica, EnsureUsers(s)
  PROVE  IInv'
<1>1. Owed(boot[s]) = {}
  BY OwedFacts DEF EnsureUsers
<1>2. CASE guests' = guests \cup {Pavel} /\ Proceed(s, "join")
  BY <1>1, <1>2, Advance, WallAssumption DEF EnsureUsers, IInv, TypeOK
<1>3. CASE UNCHANGED <<guests, lost, boot>>
  BY <1>3, StutterIInv DEF EnsureUsers, vars, writers
<1> QED BY <1>2, <1>3 DEF EnsureUsers

LEMMA JoinClubStep ==
  ASSUME IInv, NEW s \in Replica, JoinClub(s)
  PROVE  IInv'
<1> DEFINE l == IF s \in lost THEN "down" ELSE "count"
<1>1. Owed(boot[s]) = {}
  BY OwedFacts DEF JoinClub
<1>2. Proceed(s, l) /\ l \in {"down", "count"}
  BY DEF JoinClub
<1> HIDE DEF l
<1> QED BY <1>1, <1>2, Advance DEF JoinClub, IInv, TypeOK

LEMMA CountPostsStep ==
  ASSUME IInv, NEW s \in Replica, CountPosts(s)
  PROVE  IInv'
<1> DEFINE l == IF posts = {} THEN "insertNotes" ELSE "countClub"
<1>1. Owed(boot[s]) = {}
  BY OwedFacts DEF CountPosts
<1>2. l = "countClub" => Anchored(Ivan) /\ Anchored(Anna)
  BY DEF IInv, Founded
<1>3. Proceed(s, l) /\ l \in {"insertNotes", "countClub"}
  BY DEF CountPosts
<1> HIDE DEF l
<1> QED BY <1>1, <1>2, <1>3, Advance DEF CountPosts, IInv, TypeOK

LEMMA CountClubStep ==
  ASSUME IInv, NEW s \in Replica, CountClub(s)
  PROVE  IInv'
<1> DEFINE l == IF Visible(Club) = {} THEN "insertClub" ELSE "up"
<1>1. Owed(boot[s]) = {}
  BY OwedFacts DEF CountClub
<1>2. Anchored(Ivan) /\ Anchored(Anna) /\ (l = "up" => Anchored(Club))
  BY DEF CountClub, IInv, Starter, Founded, Visible
<1>3. Proceed(s, l) /\ l \in {"insertClub", "up"}
  BY DEF CountClub
<1> HIDE DEF l
<1> QED BY <1>1, <1>2, <1>3, Advance DEF CountClub, IInv, TypeOK

LEMMA StopStep ==
  ASSUME IInv, NEW s \in Replica, Stop(s)
  PROVE  IInv'
<1>1. Owed(boot[s]) \subseteq Walls
  BY DEF Owed, Walls
<1>2. stops' \in 0 .. MaxStops
  BY WallAssumption DEF Stop, IInv, TypeOK
<1> QED BY <1>1, <1>2, Advance DEF Stop, IInv, TypeOK

(***************************************************************************)
(* The notes of the seed are the first posts their walls ever had.         *)
(***************************************************************************)
LEMMA FirstNotes ==
  ASSUME IInv, NEW w \in Walls, ~Taken(w, 1)
  PROVE  /\ issued[w] = {} /\ seq[w] = 0 /\ ~Anchored(w)
         /\ \A t \in Task : pc[t] = "idle"
         /\ \A s \in Replica : w \notin Owed(boot[s])
<1>1. ~Anchored(w)
  BY DEF Anchored, Taken
<1>2. issued[w] = {}
  BY <1>1 DEF IInv, Founded
<1>3. seq[w] = 0
  <2>1. 1 .. seq[w] = {} /\ seq[w] \in Nat
    BY <1>2, WallAssumption DEF IInv, SequentialIds, TypeOK
  <2> QED BY <2>1
<1> QED BY <1>1, <1>2, <1>3 DEF IInv, Writer, Starter

LEMMA Insertion ==
  ASSUME IInv, NEW s \in Replica, NEW next \in {"setSeq", "raiseClubSeq"},
         boot[s] \in {"insertNotes", "insertClub"},
         next = "raiseClubSeq" => Anchored(Ivan) /\ Anchored(Anna),
         NEW notes \in SUBSET Post, InsertOrFail(s, notes, next),
         \A p \in notes : p.author \in {Owner, Pavel} /\ p.wall \in Owed(next),
         \A w \in Owed(next) : /\ Note(w, 1, Owner) \in notes
                              /\ {p.id : p \in {q \in notes : q.wall = w}} = Seeds(w)
  PROVE  IInv'
<1>1. Owed(boot[s]) = {} /\ Owed("down") = {} /\ Owed(next) \subseteq Walls /\ Owed(next) # {}
  BY OwedFacts DEF Owed, Walls
<1>2. UNCHANGED <<guests, address, seq, writers, stops, torn>>
  BY DEF InsertOrFail
<1>3. CASE Proceed(s, "down") /\ UNCHANGED <<posts, issued>>
  BY <1>1, <1>2, <1>3, Advance DEF IInv, TypeOK
<1>4. CASE ~(Proceed(s, "down") /\ UNCHANGED <<posts, issued>>)
  <2>1. /\ \A p \in notes : ~Taken(p.wall, p.id) /\ p.author \in guests \cup {Owner}
        /\ posts' = posts \cup notes
        /\ issued' = [w \in Walls |->
                        issued[w] \cup {p.id : p \in {q \in notes : q.wall = w}}]
        /\ Proceed(s, next)
    BY <1>4 DEF InsertOrFail
  <2>2. boot'[s] = next /\ \A r \in Replica \ {s} : boot'[r] = boot[r]
    BY <2>1 DEF Proceed, IInv, TypeOK
  <2>3. \A w \in Owed(next) : ~Taken(w, 1)
    BY <2>1 DEF Note
  <2>4. /\ \A w \in Owed(next) : issued[w] = {} /\ seq[w] = 0
        /\ \A t \in Task : pc[t] = "idle"
        /\ \A r \in Replica : Owed(boot[r]) \cap Owed(next) = {}
    BY <1>1, <2>3, FirstNotes
  <2>5. /\ \A w \in Owed(next) : issued'[w] = Seeds(w) /\ Anchored(w)'
        /\ \A w \in Walls \ Owed(next) : issued'[w] = issued[w]
        /\ \A w \in Walls : Anchored(w) => Anchored(w)'
    <3>1. \A w \in Owed(next) : issued'[w] = Seeds(w)
      BY <1>1, <2>1, <2>4
    <3>2. \A w \in Owed(next) : Anchored(w)'
      BY <2>1 DEF Anchored, Note
    <3>3. ASSUME NEW w \in Walls \ Owed(next) PROVE issued'[w] = issued[w]
      <4>1. {q \in notes : q.wall = w} = {}
        OBVIOUS
      <4> QED BY <2>1, <4>1
    <3>4. \A w \in Walls : Anchored(w) => Anchored(w)'
      BY <2>1 DEF Anchored
    <3> QED BY <3>1, <3>2, <3>3, <3>4
  <2>6. TypeOK'
    <3>1. posts' \in SUBSET Post /\ \A p \in posts' : p.author \in guests' \cup {Owner}
      BY <1>2, <2>1 DEF IInv, TypeOK
    <3>2. \A w \in Walls : issued'[w] \in SUBSET (1 .. MaxSeq)
      BY <2>5, WallAssumption DEF IInv, TypeOK, Seeds
    <3>3. issued' \in [Walls -> SUBSET (1 .. MaxSeq)]
      <4>1. issued' = [w \in Walls |-> issued'[w]]
        BY <2>1
      <4> QED BY <3>2, <4>1
    <3>4. boot' \in [Replica -> {"down", "join", "count", "insertNotes", "setSeq", "raiseSeq",
                                 "countClub", "insertClub", "raiseClubSeq", "up"}]
      BY <2>1 DEF Proceed, IInv, TypeOK
    <3>5. lost' \in SUBSET Replica
      BY <2>1 DEF Proceed, IInv, TypeOK
    <3> QED BY <1>2, <3>1, <3>3, <3>4, <3>5 DEF IInv, TypeOK, writers
  <2>7. SequentialIds'
    <3>1. Unsettled \subseteq Unsettled' /\ Owed(next) \subseteq Unsettled'
      <4>1. \A r \in Replica : Owed(boot[r]) \subseteq Owed(boot'[r])
        BY <1>1, <2>2
      <4>2. Owed(boot'[s]) = Owed(next)
        BY <2>2
      <4> QED BY <1>2, <4>1, <4>2 DEF Unsettled
    <3>2. ASSUME NEW w \in Owed(next) PROVE 1 .. seq'[w] \subseteq issued'[w]
      BY <1>2, <2>4
    <3>3. ASSUME NEW w \in Walls \ Owed(next)
          PROVE  /\ 1 .. seq'[w] \subseteq issued'[w]
                 /\ w \notin Unsettled' => issued'[w] \subseteq 1 .. seq'[w]
      BY <1>2, <2>5, <3>1 DEF IInv, SequentialIds
    <3> QED BY <3>1, <3>2, <3>3 DEF SequentialIds
  <2>8. Founded' /\ Anchored(Ivan)' /\ Anchored(Anna)'
    <3>1. Anchored(Ivan)' /\ Anchored(Anna)'
      BY <2>5, OwedFacts DEF Walls
    <3>2. ASSUME NEW p \in posts' PROVE Anchored(p.wall)'
      <4>1. p.wall \in Walls
        BY <2>6 DEF TypeOK, Post
      <4> QED BY <2>1, <2>5, <4>1 DEF IInv, Founded
    <3>3. ASSUME NEW w \in Walls, issued'[w] # {} PROVE Anchored(w)'
      BY <2>5, <3>3 DEF IInv, Founded
    <3> QED BY <3>1, <3>2, <3>3 DEF Founded
  <2>9. RowLock' /\ \A t \in Task : Writer(t)'
    BY <1>2, <2>4 DEF writers, RowLock, Writer, Holds
  <2>10. ASSUME NEW r \in Replica PROVE Starter(r)'
    <3>1. CASE r = s
      BY <1>2, <2>2, <2>4, <2>5, <2>8, <3>1, OwedFacts DEF Starter
    <3>2. CASE r # s
      <4>1. Starter(r) /\ boot'[r] = boot[r] /\ Owed(boot[r]) \subseteq Walls \ Owed(next)
        BY <2>2, <2>4, <3>2 DEF IInv, Owed, Walls
      <4>2. Anchored(Club) => Anchored(Club)'
        BY <2>5 DEF Walls
      <4> QED BY <1>2, <2>5, <2>8, <4>1, <4>2 DEF Starter
    <3> QED BY <3>1, <3>2
  <2>11. OneOwes'
    BY <2>2, <2>4 DEF IInv, OneOwes
  <2> QED BY <2>6, <2>7, <2>8, <2>9, <2>10, <2>11 DEF IInv
<1> QED BY <1>3, <1>4

LEMMA InsertNotesStep ==
  ASSUME IInv, NEW s \in Replica, InsertNotes(s)
  PROVE  IInv'
<1> DEFINE notes == {Note(Ivan, 1, Owner), Note(Ivan, 2, Pavel), Note(Anna, 1, Owner)}
<1>1. boot[s] = "insertNotes" /\ InsertOrFail(s, notes, "setSeq")
  BY DEF InsertNotes
<1>2. notes \in SUBSET Post
  BY WallAssumption DEF Note, Post, Walls, Author
<1>3. Owed("setSeq") = {Ivan, Anna}
  BY OwedFacts
<1>4. \A p \in notes : p.author \in {Owner, Pavel} /\ p.wall \in {Ivan, Anna}
  BY DEF Note
<1>5. \A w \in {Ivan, Anna} : /\ Note(w, 1, Owner) \in notes
                             /\ {p.id : p \in {q \in notes : q.wall = w}} = Seeds(w)
  <2>1. {q \in notes : q.wall = Ivan} = {Note(Ivan, 1, Owner), Note(Ivan, 2, Pavel)}
    BY WallAssumption DEF Note
  <2>2. {q \in notes : q.wall = Anna} = {Note(Anna, 1, Owner)}
    BY WallAssumption DEF Note
  <2>3. {p.id : p \in {Note(Ivan, 1, Owner), Note(Ivan, 2, Pavel)}} = {1, 2}
    BY DEF Note
  <2>4. {p.id : p \in {Note(Anna, 1, Owner)}} = {1}
    BY DEF Note
  <2>5. Seeds(Ivan) = {1, 2} /\ Seeds(Anna) = {1}
    BY WallAssumption DEF Seeds
  <2>6. Note(Ivan, 1, Owner) \in notes /\ Note(Anna, 1, Owner) \in notes
    OBVIOUS
  <2> HIDE DEF notes
  <2> QED BY <2>1, <2>2, <2>3, <2>4, <2>5, <2>6
<1> HIDE DEF notes
<1> QED BY <1>1, <1>2, <1>3, <1>4, <1>5, Insertion

LEMMA InsertClubStep ==
  ASSUME IInv, NEW s \in Replica, InsertClub(s)
  PROVE  IInv'
<1> DEFINE notes == {Note(Club, 1, Owner)}
<1>1. boot[s] = "insertClub" /\ InsertOrFail(s, notes, "raiseClubSeq")
  BY DEF InsertClub
<1>2. notes \in SUBSET Post
  BY WallAssumption DEF Note, Post, Walls, Author
<1>3. Owed("raiseClubSeq") = {Club} /\ Anchored(Ivan) /\ Anchored(Anna)
  BY <1>1, OwedFacts DEF IInv, Starter
<1>4. \A p \in notes : p.author \in {Owner, Pavel} /\ p.wall \in {Club}
  BY DEF Note
<1>5. \A w \in {Club} : /\ Note(w, 1, Owner) \in notes
                       /\ {p.id : p \in {q \in notes : q.wall = w}} = Seeds(w)
  <2>1. {q \in notes : q.wall = Club} = {Note(Club, 1, Owner)}
    BY DEF Note
  <2>2. {p.id : p \in {Note(Club, 1, Owner)}} = {1}
    BY DEF Note
  <2>3. Seeds(Club) = {1}
    BY WallAssumption DEF Seeds
  <2> QED BY <2>1, <2>2, <2>3
<1> HIDE DEF notes
<1> QED BY <1>1, <1>2, <1>3, <1>4, <1>5, Insertion

(***************************************************************************)
(* A start sets the wall_seq it owed: the wall's numbers are in order from *)
(* here on.                                                                *)
(***************************************************************************)
LEMMA Settling ==
  ASSUME IInv, NEW s \in Replica, NEW w \in Owed(boot[s]), NEW n \in 1 .. 2,
         Seeds(w) = 1 .. n, Holding(w) = {}, seq' = [seq EXCEPT ![w] = n],
         NEW l \in {"raiseSeq", "countClub", "up"}, Proceed(s, l),
         Owed(l) = Owed(boot[s]) \ {w}, l = "up" => w = Club,
         UNCHANGED <<guests, address, posts, writers, stops, torn, issued>>
  PROVE  IInv'
<1>1. w \in Walls /\ boot[s] \in {"setSeq", "raiseSeq", "raiseClubSeq"}
  BY DEF Owed, Walls
<1>2. /\ boot'[s] = l /\ \A r \in Replica \ {s} : boot'[r] = boot[r]
      /\ seq'[w] = n /\ \A v \in Walls \ {w} : seq'[v] = seq[v]
  BY <1>1 DEF Proceed, IInv, TypeOK
<1>3. TypeOK'
  <2>1. n \in 0 .. MaxSeq
    BY WallAssumption
  <2>3. seq' \in [Walls -> 0 .. MaxSeq]
    BY <2>1 DEF IInv, TypeOK
  <2>2. boot' \in [Replica -> {"down", "join", "count", "insertNotes", "setSeq", "raiseSeq",
                               "countClub", "insertClub", "raiseClubSeq", "up"}]
    BY DEF Proceed, IInv, TypeOK
  <2>4. lost' \in SUBSET Replica
    BY DEF Proceed, IInv, TypeOK
  <2> QED BY <2>2, <2>3, <2>4 DEF IInv, TypeOK, writers
<1>4. issued[w] = 1 .. n
  BY DEF IInv, Starter
<1>5. SequentialIds'
  <2>1. Unsettled \subseteq Unsettled' \cup {w}
    <3>1. \A r \in Replica : Owed(boot[r]) \subseteq Owed(boot'[r]) \cup {w}
      BY <1>2
    <3> QED BY <3>1 DEF Unsettled
  <2>2. ASSUME NEW v \in Walls
        PROVE  /\ 1 .. seq'[v] \subseteq issued'[v]
               /\ v \notin Unsettled' => issued'[v] \subseteq 1 .. seq'[v]
    <3>1. CASE v = w
      BY <1>2, <1>4, <3>1
    <3>2. CASE v # w
      BY <1>2, <2>1, <3>2 DEF IInv, SequentialIds
    <3> QED BY <3>1, <3>2
  <2> QED BY <2>2 DEF SequentialIds
<1>6. Founded' /\ RowLock'
  BY DEF IInv, Founded, Anchored, RowLock, Holds, writers
<1>7. ASSUME NEW t \in Task PROVE Writer(t)'
  <2>1. Holds(t) => job[t].wall \in Walls \ {w}
    BY WallAssumption DEF Holding, Holds, IInv, TypeOK, Job
  <2> QED BY <1>2, <2>1 DEF IInv, Writer, Holds, Anchored, Taken, writers
<1>8. ASSUME NEW r \in Replica PROVE Starter(r)'
  <2>1. CASE r = s
    <3>1. Starter(s) /\ Owed(l) \subseteq Walls \ {w} /\ Owed(l) \subseteq Owed(boot[s])
      BY DEF IInv, Owed, Walls
    <3>2. Anchored(Ivan) /\ Anchored(Anna) /\ Anchored(w)
      BY <1>1, <3>1 DEF Starter
    <3> QED BY <1>2, <2>1, <3>1, <3>2 DEF Starter, Anchored
  <2>2. CASE r # s
    <3>1. Starter(r) /\ boot'[r] = boot[r] /\ Owed(boot[r]) \subseteq Walls \ {w}
      BY <1>2, <2>2 DEF IInv, OneOwes, Owed, Walls
    <3> QED BY <1>2, <3>1 DEF Starter, Anchored
  <2> QED BY <2>1, <2>2
<1>9. OneOwes'
  BY <1>2 DEF IInv, OneOwes
<1> QED BY <1>3, <1>5, <1>6, <1>7, <1>8, <1>9 DEF IInv

LEMMA SetSeqStep ==
  ASSUME IInv, NEW s \in Replica, SetSeq(s)
  PROVE  IInv'
<1>1. boot[s] = "setSeq" /\ Owed("setSeq") = {Ivan, Anna} /\ Owed("raiseSeq") = {Anna}
  BY OwedFacts DEF SetSeq
<1>2. Owed("raiseSeq") = Owed(boot[s]) \ {Ivan} /\ Ivan \in Owed(boot[s])
  BY <1>1, WallAssumption
<1>3. Seeds(Ivan) = 1 .. 2
  BY DEF Seeds
<1>4. /\ Holding(Ivan) = {} /\ seq' = [seq EXCEPT ![Ivan] = 2] /\ Proceed(s, "raiseSeq")
      /\ UNCHANGED <<guests, address, posts, writers, stops, torn, issued>>
      /\ 2 \in 1 .. 2
  BY DEF SetSeq
<1> QED BY <1>2, <1>3, <1>4, Settling

LEMMA RaiseSeqStep ==
  ASSUME IInv, NEW s \in Replica, RaiseSeq(s)
  PROVE  IInv'
<1>1. boot[s] = "raiseSeq" /\ Owed("raiseSeq") = {Anna} /\ Owed("countClub") = {}
  BY OwedFacts DEF RaiseSeq
<1>2. Owed("countClub") = Owed(boot[s]) \ {Anna} /\ Anna \in Owed(boot[s])
  BY <1>1
<1>3. Seeds(Anna) = 1 .. 1
  BY WallAssumption DEF Seeds
<1>4. Raise(Anna, 1) = 1
  BY <1>2 DEF Raise, IInv, Starter
<1>5. /\ Holding(Anna) = {} /\ seq' = [seq EXCEPT ![Anna] = 1] /\ Proceed(s, "countClub")
      /\ UNCHANGED <<guests, address, posts, writers, stops, torn, issued>>
      /\ 1 \in 1 .. 2
  <2>1. seq' = [seq EXCEPT ![Anna] = Raise(Anna, 1)]
    BY DEF RaiseSeq
  <2>2. seq' = [seq EXCEPT ![Anna] = 1]
    BY <1>4, <2>1, Zenon
  <2>3. /\ Holding(Anna) = {} /\ Proceed(s, "countClub")
        /\ UNCHANGED <<guests, address, posts, writers, stops, torn, issued>>
    BY DEF RaiseSeq
  <2> QED BY <2>2, <2>3
<1> QED BY <1>2, <1>3, <1>5, Settling

LEMMA RaiseClubSeqStep ==
  ASSUME IInv, NEW s \in Replica, RaiseClubSeq(s)
  PROVE  IInv'
<1>1. boot[s] = "raiseClubSeq" /\ Owed("raiseClubSeq") = {Club} /\ Owed("up") = {}
  BY OwedFacts DEF RaiseClubSeq
<1>2. Owed("up") = Owed(boot[s]) \ {Club} /\ Club \in Owed(boot[s])
  BY <1>1
<1>3. Seeds(Club) = 1 .. 1
  BY WallAssumption DEF Seeds
<1>4. Raise(Club, 1) = 1
  BY <1>2 DEF Raise, IInv, Starter
<1>5. /\ Holding(Club) = {} /\ seq' = [seq EXCEPT ![Club] = 1] /\ Proceed(s, "up")
      /\ UNCHANGED <<guests, address, posts, writers, stops, torn, issued>>
      /\ 1 \in 1 .. 2
  <2>1. seq' = [seq EXCEPT ![Club] = Raise(Club, 1)]
    BY DEF RaiseClubSeq
  <2>2. seq' = [seq EXCEPT ![Club] = 1]
    BY <1>4, <2>1, Zenon
  <2>3. /\ Holding(Club) = {} /\ Proceed(s, "up")
        /\ UNCHANGED <<guests, address, posts, writers, stops, torn, issued>>
    BY DEF RaiseClubSeq
  <2> QED BY <2>2, <2>3
<1> QED BY <1>2, <1>3, <1>5, Settling

-----------------------------------------------------------------------------
(***************************************************************************)
(* Moderation and accounts change which posts there are, and which are     *)
(* seen, but neither take a note of an owner away nor a number.            *)
(***************************************************************************)
LEMMA PostsChange ==
  ASSUME IInv, UNCHANGED <<seq, writers, boot, stops, torn, issued>>,
         guests' \subseteq Guest, posts' \in SUBSET Post,
         address' \in Taker \cup {None}, lost' \subseteq Replica,
         \A p \in posts' : p.author \in guests' \cup {Owner},
         \A p \in posts' : \E q \in posts : p.wall = q.wall /\ p.id = q.id,
         \A w \in Walls : Anchored(w) => Anchored(w)',
         \A t \in Task : pc[t] = "commit" =>
            (job[t].author \in guests => job[t].author \in guests')
  PROVE  IInv'
<1> USE DEF writers
<1>1. TypeOK'
  BY DEF IInv, TypeOK
<1>2. SequentialIds' /\ OneOwes' /\ RowLock'
  <2>1. Unsettled' = Unsettled
    BY DEF Unsettled
  <2> QED BY <2>1 DEF IInv, SequentialIds, OneOwes, RowLock, Holds
<1>3. Founded'
  <2>1. \A p \in posts' : p.wall \in Walls /\ Anchored(p.wall)
    BY DEF Post, IInv, Founded
  <2>2. posts' # {} => posts # {}
    OBVIOUS
  <2>3. Ivan \in Walls /\ Anna \in Walls
    BY DEF Walls
  <2> QED BY <2>1, <2>2, <2>3 DEF IInv, Founded
<1>4. ASSUME NEW t \in Task PROVE Writer(t)'
  <2>1. \A w, n : Taken(w, n)' => Taken(w, n)
    BY DEF Taken
  <2> QED BY <2>1 DEF IInv, Writer, Holds
<1>5. ASSUME NEW s \in Replica PROVE Starter(s)'
  <2>1. Owed(boot[s]) \subseteq Walls /\ Ivan \in Walls /\ Anna \in Walls /\ Club \in Walls
    BY DEF Owed, Walls
  <2> QED BY <2>1 DEF IInv, Starter
<1> QED BY <1>1, <1>2, <1>3, <1>4, <1>5 DEF IInv

LEMMA ModerateStep == IInv /\ Moderate => IInv'
<1> SUFFICES ASSUME IInv, NEW p \in posts, NEW flag \in BOOLEAN, SetHidden({p}, flag)
             PROVE  IInv'
  BY DEF Moderate
<1> DEFINE Of(q) == IF q \in {p} THEN [q EXCEPT !.hidden = flag] ELSE q
<1>1. /\ posts' = {Of(q) : q \in posts}
      /\ UNCHANGED <<guests, address, lost, seq, writers, boot, stops, torn, issued>>
  BY DEF SetHidden
<1>2. \A q \in posts : /\ Of(q) \in Post /\ Of(q).wall = q.wall /\ Of(q).id = q.id
                      /\ Of(q).author = q.author
  BY DEF IInv, TypeOK, Post
<1> HIDE DEF Of
<1>3. posts' \in SUBSET Post /\ \A q \in posts' : q.author \in guests' \cup {Owner}
  BY <1>1, <1>2 DEF IInv, TypeOK
<1>4. \A q \in posts' : \E r \in posts : q.wall = r.wall /\ q.id = r.id
  BY <1>1, <1>2
<1>5. \A w \in Walls : Anchored(w) => Anchored(w)'
  BY <1>1, <1>2 DEF Anchored
<1>6. guests' \subseteq Guest /\ address' \in Taker \cup {None} /\ lost' \subseteq Replica
  BY <1>1 DEF IInv, TypeOK
<1> QED BY <1>1, <1>3, <1>4, <1>5, <1>6, PostsChange

LEMMA RegisterStep ==
  ASSUME IInv, NEW a \in Guest, Register(a)
  PROVE  IInv'
<1>1. /\ guests' = guests \cup {a}
      /\ UNCHANGED <<address, lost, seq, posts, writers, boot, stops, torn, issued>>
  BY DEF Register
<1>2. /\ guests' \subseteq Guest /\ posts' \in SUBSET Post
      /\ address' \in Taker \cup {None} /\ lost' \subseteq Replica
      /\ \A p \in posts' : p.author \in guests' \cup {Owner}
  BY <1>1 DEF IInv, TypeOK
<1>3. \A w \in Walls : Anchored(w) => Anchored(w)'
  BY <1>1 DEF Anchored
<1> QED BY <1>1, <1>2, <1>3, PostsChange

LEMMA ChangeAddressStep ==
  ASSUME IInv, NEW a \in Taker, ChangeAddress(a)
  PROVE  IInv'
<1>1. UNCHANGED <<guests, lost, seq, posts, writers, boot, stops, torn, issued>>
  BY DEF ChangeAddress
<1>2. /\ guests' \subseteq Guest /\ posts' \in SUBSET Post
      /\ address' \in Taker \cup {None} /\ lost' \subseteq Replica
      /\ \A p \in posts' : p.author \in guests' \cup {Owner}
  BY <1>1 DEF ChangeAddress, IInv, TypeOK
<1>3. \A w \in Walls : Anchored(w) => Anchored(w)'
  BY <1>1 DEF Anchored
<1> QED BY <1>1, <1>2, <1>3, PostsChange

LEMMA DeleteAccountStep ==
  ASSUME IInv, NEW a \in Guest, DeleteAccount(a)
  PROVE  IInv'
<1>1. /\ guests' = guests \ {a} /\ posts' = {p \in posts : p.author # a}
      /\ UNCHANGED <<seq, writers, boot, stops, torn, issued>>
  BY DEF DeleteAccount
<1>2. /\ guests' \subseteq Guest /\ posts' \in SUBSET Post
      /\ \A p \in posts' : p.author \in guests' \cup {Owner}
  BY <1>1 DEF IInv, TypeOK
<1>3. \A w \in Walls : Anchored(w) => Anchored(w)'
  BY <1>1, WallAssumption DEF Anchored
<1>4. \A t \in Task : pc[t] = "commit" => job[t].author # a
  BY DEF DeleteAccount, Citing
<1>5. address' \in Taker \cup {None} /\ lost' \subseteq Replica
  BY DEF DeleteAccount, IInv, TypeOK
<1> QED BY <1>1, <1>2, <1>3, <1>4, <1>5, PostsChange

LEMMA NextIInv == IInv /\ [Next]_vars => IInv'
<1> SUFFICES ASSUME IInv, [Next]_vars PROVE IInv'
  OBVIOUS
<1>1. ASSUME NEW t \in Task, NEW j \in Job, Begin(t, j) PROVE IInv'
  BY <1>1, BeginStep
<1>2. ASSUME NEW t \in Task, Write(t) \/ Drop(t) PROVE IInv'
  BY <1>2, BumpStep, InsertStep, CommitStep, DropStep DEF Write
<1>3. ASSUME NEW s \in Replica, Seed(s) \/ Stop(s) PROVE IInv'
  BY <1>3, EnsureUsersStep, JoinClubStep, CountPostsStep, InsertNotesStep, SetSeqStep, RaiseSeqStep,
     CountClubStep, InsertClubStep, RaiseClubSeqStep, StopStep DEF Seed
<1>4. ASSUME Moderate PROVE IInv'
  BY <1>4, ModerateStep
<1>5. ASSUME NEW a \in Guest, Register(a) \/ DeleteAccount(a) PROVE IInv'
  BY <1>5, RegisterStep, DeleteAccountStep
<1>6. CASE UNCHANGED vars
  BY <1>6, StutterIInv
<1>7. ASSUME NEW a \in Taker, ChangeAddress(a) PROVE IInv'
  BY <1>7, ChangeAddressStep
<1> QED BY <1>1, <1>2, <1>3, <1>4, <1>5, <1>6, <1>7 DEF Next

LEMMA Inductive == Spec => []IInv
  BY InitIInv, NextIInv, PTL DEF Spec

-----------------------------------------------------------------------------
(***************************************************************************)
(* The tables, the writes and the starts have their types, and each post   *)
(* has an author with an account.                                          *)
(***************************************************************************)
THEOREM TypesHold == Spec => []TypeOK
  BY Inductive, PTL DEF IInv

(***************************************************************************)
(* The numbers of each wall are 1 .. wall_seq, whichever walls are written *)
(* to and however many replicas seed, stop and start again meanwhile,      *)
(* unless a start was cut off before it set wall_seq.                      *)
(***************************************************************************)
THEOREM IdsSequential == Spec => []SequentialIds
  BY Inductive, PTL DEF IInv

-----------------------------------------------------------------------------
(***************************************************************************)
(* A wall whose start was cut off keeps its notes and its count of 0, and  *)
(* no start that could set the count is left: another one that owed it     *)
(* would have had to insert the same notes.                                *)
(***************************************************************************)
Blighted(w) ==
  /\ Anchored(w) /\ seq[w] = 0 /\ issued[w] = Seeds(w)
  /\ \A s \in Replica : w \notin Owed(boot[s])

Blight == \A w \in torn : Blighted(w)

LEMMA AnchorsStay ==
  ASSUME IInv, [Next]_vars, NEW w \in Walls, Anchored(w)
  PROVE  Anchored(w)'
<1>1. PICK p \in posts : p.wall = w /\ p.id = 1 /\ p.author = Owner
  BY DEF Anchored
<1>2. CASE posts \subseteq posts'
  BY <1>1, <1>2 DEF Anchored
<1>3. CASE Moderate
  <2>1. PICK q \in posts, flag \in BOOLEAN : SetHidden({q}, flag)
    BY <1>3 DEF Moderate
  <2>2. posts' = {IF r \in {q} THEN [r EXCEPT !.hidden = flag] ELSE r : r \in posts}
    BY <2>1 DEF SetHidden
  <2>3. PICK r : r = IF p \in {q} THEN [p EXCEPT !.hidden = flag] ELSE p
    OBVIOUS
  <2>4. p \in Post
    BY <1>1 DEF IInv, TypeOK
  <2>5. r.wall = w /\ r.id = 1 /\ r.author = Owner
    BY <1>1, <2>3, <2>4 DEF Post
  <2>6. r \in posts'
    BY <1>1, <2>2, <2>3
  <2> QED BY <2>5, <2>6 DEF Anchored
<1>4. ASSUME NEW a \in Guest, DeleteAccount(a) PROVE Anchored(w)'
  <2>1. p \in posts'
    BY <1>1, <1>4, WallAssumption DEF DeleteAccount
  <2> QED BY <1>1, <2>1 DEF Anchored
<1>5. posts \subseteq posts' \/ Moderate \/ \E a \in Guest : DeleteAccount(a)
  BY DEF Next, vars, Begin, Write, Bump, Insert, Commit, Drop, Seed, EnsureUsers, JoinClub, CountPosts,
     InsertNotes, InsertOrFail, SetSeq, RaiseSeq, CountClub, InsertClub, RaiseClubSeq, Stop,
     Register, ChangeAddress
<1> QED BY <1>2, <1>3, <1>4, <1>5

(***************************************************************************)
(* A note of the seed, and a post of a client, appears where number 1 is   *)
(* free, or beside an owner's note on a wall that is not cut off.          *)
(***************************************************************************)
LEMMA BlightedStays ==
  ASSUME IInv, [Next]_vars, NEW w \in Walls, Blighted(w)
  PROVE  Blighted(w)' /\ issued'[w] = issued[w] /\ seq'[w] = seq[w]
<1>1. Anchored(w)' /\ Anchored(w) /\ Taken(w, 1) /\ seq[w] = 0
  BY AnchorsStay DEF Blighted, Anchored, Taken
<1>2. /\ issued'[w] = issued[w] /\ seq'[w] = seq[w]
      /\ \A s \in Replica : w \notin Owed(boot'[s])
  <2> USE <1>1 DEF Blighted
  <2>1. ASSUME NEW t \in Task, Commit(t)
        PROVE  issued'[w] = issued[w] /\ seq'[w] = seq[w] /\ boot' = boot
    <3>1. pc[t] = "commit" /\ job[t].wall \in Walls /\ got[t] = seq[job[t].wall] + 1
      BY <2>1, NextNumber DEF Commit
    <3>2. ~ Taken(job[t].wall, got[t])
      BY <3>1 DEF IInv, Writer
    <3>3. job[t].wall # w
      BY <3>1, <3>2
    <3> QED BY <2>1, <3>1, <3>3 DEF Commit, IInv, TypeOK
  <2>2. ASSUME NEW s \in Replica, SetSeq(s) \/ RaiseSeq(s) \/ RaiseClubSeq(s)
        PROVE  /\ issued' = issued /\ seq'[w] = seq[w]
               /\ \A r \in Replica : Owed(boot'[r]) \subseteq Owed(boot[r])
    <3>1. PICK v \in Walls, n \in 0 .. MaxSeq, l \in {"raiseSeq", "countClub", "up"} :
            /\ v \in Owed(boot[s]) /\ seq' = [seq EXCEPT ![v] = n] /\ issued' = issued
            /\ boot' = [boot EXCEPT ![s] = l] /\ Owed(l) \subseteq Owed(boot[s])
      <4>1. Raise(Anna, 1) \in 0 .. MaxSeq /\ Raise(Club, 1) \in 0 .. MaxSeq /\ 2 \in 0 .. MaxSeq
        BY WallAssumption DEF Raise, IInv, TypeOK, Walls
      <4>2. CASE SetSeq(s)
        <5>1. /\ boot[s] = "setSeq" /\ seq' = [seq EXCEPT ![Ivan] = 2] /\ issued' = issued
              /\ boot' = [boot EXCEPT ![s] = "raiseSeq"]
          BY <4>2 DEF SetSeq, Proceed
        <5> QED BY <4>1, <5>1, OwedFacts DEF Walls
      <4>3. CASE RaiseSeq(s)
        <5>1. /\ boot[s] = "raiseSeq" /\ seq' = [seq EXCEPT ![Anna] = Raise(Anna, 1)]
              /\ issued' = issued /\ boot' = [boot EXCEPT ![s] = "countClub"]
          BY <4>3 DEF RaiseSeq, Proceed
        <5>2. Anna \in Owed("raiseSeq") /\ Owed("countClub") \subseteq Owed("raiseSeq")
          BY OwedFacts
        <5> QED BY <4>1, <5>1, <5>2 DEF Walls
      <4>4. CASE RaiseClubSeq(s)
        <5>1. /\ boot[s] = "raiseClubSeq" /\ seq' = [seq EXCEPT ![Club] = Raise(Club, 1)]
              /\ issued' = issued /\ boot' = [boot EXCEPT ![s] = "up"]
          BY <4>4 DEF RaiseClubSeq, Proceed
        <5>2. Club \in Owed("raiseClubSeq") /\ Owed("up") \subseteq Owed("raiseClubSeq")
          BY OwedFacts
        <5> QED BY <4>1, <5>1, <5>2 DEF Walls
      <4> QED BY <2>2, <4>2, <4>3, <4>4
    <3>2. v # w
      BY <3>1
    <3> QED BY <3>1, <3>2 DEF IInv, TypeOK
  <2>3. ASSUME NEW s \in Replica, InsertNotes(s) \/ InsertClub(s)
        PROVE  /\ issued'[w] = issued[w] /\ seq' = seq
               /\ \A r \in Replica : w \notin Owed(boot'[r])
    <3>1. ASSUME NEW notes, NEW next \in {"setSeq", "raiseClubSeq"}, InsertOrFail(s, notes, next),
                 \A v \in Owed(next) : \E p \in notes : p.wall = v /\ p.id = 1,
                 \A p \in notes : \E q \in notes : q.wall = p.wall /\ q.id = 1
          PROVE  /\ issued'[w] = issued[w] /\ seq' = seq
                 /\ \A r \in Replica : w \notin Owed(boot'[r])
      <4>1. CASE boot' = [boot EXCEPT ![s] = "down"] /\ UNCHANGED issued
        BY <3>1, <4>1, OwedFacts DEF InsertOrFail, IInv, TypeOK
      <4>2. CASE /\ \A p \in notes : ~Taken(p.wall, p.id)
                 /\ issued' = [v \in Walls |->
                        issued[v] \cup {p.id : p \in {q \in notes : q.wall = v}}]
                 /\ boot' = [boot EXCEPT ![s] = next]
        <5>1. \A p \in notes : p.wall # w
          BY <3>1, <4>2
        <5>2. w \notin Owed(next)
          BY <3>1, <5>1
        <5>3. issued'[w] = issued[w]
          BY <4>2, <5>1
        <5> QED BY <3>1, <4>2, <5>2, <5>3 DEF InsertOrFail, IInv, TypeOK
      <4> QED BY <3>1, <4>1, <4>2 DEF InsertOrFail, Proceed
    <3>2. CASE InsertNotes(s)
      <4> DEFINE notes == {Note(Ivan, 1, Owner), Note(Ivan, 2, Pavel), Note(Anna, 1, Owner)}
      <4>1. InsertOrFail(s, notes, "setSeq")
        BY <3>2 DEF InsertNotes
      <4>2. /\ \E p \in notes : p.wall = Ivan /\ p.id = 1
            /\ \E p \in notes : p.wall = Anna /\ p.id = 1
            /\ \A p \in notes : p.wall \in {Ivan, Anna}
        BY DEF Note
      <4> HIDE DEF notes
      <4>3. \A v \in Owed("setSeq") : \E p \in notes : p.wall = v /\ p.id = 1
        BY <4>2, OwedFacts
      <4> QED BY <3>1, <4>1, <4>2, <4>3
    <3>3. CASE InsertClub(s)
      <4> DEFINE notes == {Note(Club, 1, Owner)}
      <4>1. InsertOrFail(s, notes, "raiseClubSeq")
        BY <3>3 DEF InsertClub
      <4>2. (\E p \in notes : p.wall = Club /\ p.id = 1) /\ \A p \in notes : p.wall = Club
        BY DEF Note
      <4> HIDE DEF notes
      <4>3. \A v \in Owed("raiseClubSeq") : \E p \in notes : p.wall = v /\ p.id = 1
        BY <4>2, OwedFacts
      <4> QED BY <3>1, <4>1, <4>2, <4>3
    <3> QED BY <2>3, <3>2, <3>3
  <2>4. ASSUME NEW s \in Replica,
               EnsureUsers(s) \/ JoinClub(s) \/ CountPosts(s) \/ CountClub(s) \/ Stop(s)
        PROVE  issued' = issued /\ seq' = seq /\ \A r \in Replica : w \notin Owed(boot'[r])
    <3>1. PICK l \in {"down", "join", "count", "insertNotes", "countClub", "insertClub", "up"} :
            boot' = [boot EXCEPT ![s] = l]
      <4>1. boot[s] = "down" /\ boot' = boot => boot' = [boot EXCEPT ![s] = "down"]
        BY DEF IInv, TypeOK
      <4> QED BY <2>4, <4>1 DEF EnsureUsers, JoinClub, CountPosts, CountClub, Stop, Proceed
    <3>2. \A r \in Replica : boot'[r] = boot[r] \/ boot'[r] = l
      BY <3>1 DEF IInv, TypeOK
    <3>3. Owed(l) = {}
      BY OwedFacts
    <3> QED BY <2>4, <3>2, <3>3 DEF EnsureUsers, JoinClub, CountPosts, CountClub, Stop
  <2>5. CASE UNCHANGED <<issued, seq, boot>>
    BY <2>5
  <2>6. \/ UNCHANGED <<issued, seq, boot>>
        \/ \E t \in Task : Commit(t)
        \/ \E s \in Replica :
             \/ SetSeq(s) \/ RaiseSeq(s) \/ RaiseClubSeq(s) \/ InsertNotes(s) \/ InsertClub(s)
             \/ EnsureUsers(s) \/ JoinClub(s) \/ CountPosts(s) \/ CountClub(s) \/ Stop(s)
    BY DEF Next, vars, Begin, Write, Bump, Insert, Drop, Seed, Moderate, SetHidden, Register,
       ChangeAddress, DeleteAccount
  <2> QED BY <2>1, <2>2, <2>3, <2>4, <2>5, <2>6
<1> QED BY <1>1, <1>2 DEF Blighted

LEMMA NewlyTorn ==
  ASSUME IInv, [Next]_vars, NEW w \in torn', w \notin torn
  PROVE  Blighted(w)'
<1>1. PICK s \in Replica : Stop(s)
  BY DEF Next, vars, Begin, Write, Bump, Insert, Commit, Drop, Seed, EnsureUsers, JoinClub, CountPosts,
     InsertNotes, InsertOrFail, SetSeq, RaiseSeq, CountClub, InsertClub, RaiseClubSeq,
     Moderate, SetHidden, Register, ChangeAddress, DeleteAccount
<1>2. /\ w \in Owed(boot[s]) /\ boot' = [boot EXCEPT ![s] = "down"]
      /\ UNCHANGED <<seq, posts, issued>>
  BY <1>1 DEF Stop, Proceed
<1>3. Anchored(w) /\ seq[w] = 0 /\ issued[w] = Seeds(w)
  BY <1>2 DEF IInv, Starter
<1>4. ASSUME NEW r \in Replica PROVE w \notin Owed(boot'[r])
  <2>1. CASE r = s
    BY <1>2, <2>1, OwedFacts DEF IInv, TypeOK
  <2>2. CASE r # s
    BY <1>2, <2>2 DEF IInv, TypeOK, OneOwes
  <2> QED BY <2>1, <2>2
<1> QED BY <1>2, <1>3, <1>4 DEF Blighted, Anchored

LEMMA BlightHolds == Spec => [](IInv /\ Blight)
<1>1. Init => Blight
  BY DEF Init, Blight
<1>2. IInv /\ Blight /\ [Next]_vars => Blight'
  <2> SUFFICES ASSUME IInv, Blight, [Next]_vars, NEW w \in torn' PROVE Blighted(w)'
    BY DEF Blight
  <2>1. CASE w \in torn
    BY <2>1, BlightedStays DEF Blight, IInv, TypeOK
  <2>2. CASE w \notin torn
    BY <2>2, NewlyTorn
  <2> QED BY <2>1, <2>2
<1> QED BY <1>1, <1>2, Inductive, PTL DEF Spec

(***************************************************************************)
(* A wall whose start was cut off before it set wall_seq is never written  *)
(* to again, by clients, by other starts or by the same one after it was   *)
(* restarted: nothing repairs it.                                          *)
(***************************************************************************)
THEOREM TornStayShut == Spec => TornWallsAreShut
<1>1. IInv /\ Blight /\ [Next]_vars =>
        [\A w \in torn : issued'[w] = issued[w] /\ seq'[w] = seq[w]]_vars
  BY BlightedStays DEF Blight, IInv, TypeOK
<1> QED BY <1>1, BlightHolds, PTL DEF Spec, TornWallsAreShut

-----------------------------------------------------------------------------
(***************************************************************************)
(* Every post there is has a number its wall gave, which the number drawn  *)
(* next is not.                                                            *)
(***************************************************************************)
Numbered == \A p \in posts : p.id \in issued[p.wall]

LEMMA NumberedHolds == Spec => [](IInv /\ Numbered)
<1>1. Init => Numbered
  BY DEF Init, Numbered
<1>2. IInv /\ Numbered /\ [Next]_vars => Numbered'
  <2> SUFFICES ASSUME IInv, Numbered, [Next]_vars PROVE Numbered'
    OBVIOUS
  <2>1. /\ \A p \in posts : p \in Post
        /\ issued \in [Walls -> SUBSET (1 .. MaxSeq)]
    BY DEF IInv, TypeOK
  <2>2. ASSUME NEW t \in Task, Commit(t) PROVE Numbered'
    <3>1. PICK p : p = Note(job[t].wall, got[t], job[t].author)
      OBVIOUS
    <3>2. posts' = posts \cup {p} /\ issued' = [issued EXCEPT ![job[t].wall] = @ \cup {got[t]}]
      BY <2>2, <3>1 DEF Commit
    <3>3. p.wall = job[t].wall /\ p.id = got[t] /\ job[t].wall \in Walls
      BY <2>2, <3>1, NextNumber DEF Note, Commit
    <3> QED BY <2>1, <3>2, <3>3 DEF Numbered, Post
  <2>3. ASSUME NEW s \in Replica, NEW notes, NEW next, InsertOrFail(s, notes, next),
               \A p \in notes : p.wall \in Walls
        PROVE  Numbered'
    <3>1. CASE UNCHANGED <<posts, issued>>
      BY <3>1 DEF Numbered
    <3>2. CASE /\ posts' = posts \cup notes
               /\ issued' = [w \in Walls |->
                               issued[w] \cup {p.id : p \in {q \in notes : q.wall = w}}]
      BY <2>1, <2>3, <3>2 DEF Numbered, Post
    <3> QED BY <2>3, <3>1, <3>2 DEF InsertOrFail
  <2>4. ASSUME NEW s \in Replica, InsertNotes(s) \/ InsertClub(s) PROVE Numbered'
    <3>1. CASE InsertNotes(s)
      <4> DEFINE notes == {Note(Ivan, 1, Owner), Note(Ivan, 2, Pavel), Note(Anna, 1, Owner)}
      <4>1. InsertOrFail(s, notes, "setSeq")
        BY <3>1 DEF InsertNotes
      <4>2. \A p \in notes : p.wall \in Walls
        BY DEF Note, Walls
      <4> HIDE DEF notes
      <4> QED BY <2>3, <4>1, <4>2
    <3>2. CASE InsertClub(s)
      <4> DEFINE notes == {Note(Club, 1, Owner)}
      <4>1. InsertOrFail(s, notes, "raiseClubSeq")
        BY <3>2 DEF InsertClub
      <4>2. \A p \in notes : p.wall \in Walls
        BY DEF Note, Walls
      <4> HIDE DEF notes
      <4> QED BY <2>3, <4>1, <4>2
    <3> QED BY <2>4, <3>1, <3>2
  <2>5. ASSUME NEW ps, NEW flag, SetHidden(ps, flag) PROVE Numbered'
    <3>1. /\ posts' = {IF p \in ps THEN [p EXCEPT !.hidden = flag] ELSE p : p \in posts}
          /\ issued' = issued
      BY <2>5 DEF SetHidden
    <3>2. ASSUME NEW q \in posts' PROVE \E p \in posts : q.wall = p.wall /\ q.id = p.id
      <4>1. PICK p \in posts : q = IF p \in ps THEN [p EXCEPT !.hidden = flag] ELSE p
        BY <3>1
      <4>2. CASE p \in ps
        <5>1. q = [p EXCEPT !.hidden = flag] /\ p \in Post
          BY <2>1, <4>1, <4>2
        <5>2. q.wall = p.wall /\ q.id = p.id
          BY <5>1 DEF Post
        <5> QED BY <5>2
      <4> QED BY <4>1, <4>2
    <3> QED BY <3>1, <3>2 DEF Numbered
  <2>6. ASSUME NEW a \in Guest, DeleteAccount(a) PROVE Numbered'
    BY <2>6 DEF DeleteAccount, Numbered
  <2>7. CASE UNCHANGED <<posts, issued>>
    BY <2>7 DEF Numbered
  <2>8. \/ UNCHANGED <<posts, issued>> \/ Moderate
        \/ (\E t \in Task : Commit(t)) \/ (\E a \in Guest : DeleteAccount(a))
        \/ \E s \in Replica : InsertNotes(s) \/ InsertClub(s)
    BY DEF Next, vars, Begin, Write, Bump, Insert, Drop, Seed, EnsureUsers, JoinClub, CountPosts, SetSeq,
       RaiseSeq, CountClub, RaiseClubSeq, Stop, Register, ChangeAddress
  <2> QED BY <2>2, <2>4, <2>5, <2>6, <2>7, <2>8 DEF Moderate
<1> QED BY <1>1, <1>2, Inductive, PTL DEF Spec

(***************************************************************************)
(* next_wall_local_id: the number a write draws is free when it inserts,   *)
(* for any number of writes at once, since wall_seq and the post are in    *)
(* one transaction and the row stays locked until it ends; only a wall     *)
(* that a start owes its wall_seq, or left without it, refuses.            *)
(***************************************************************************)
THEOREM NumbersAreFree == Spec => []WritesFindRoom
<1>1. ASSUME IInv, Numbered, NEW t \in Task, pc[t] = "insert", Taken(job[t].wall, got[t])
      PROVE  job[t].wall \in Unsettled
  <2> DEFINE w == job[t].wall
  <2>1. w \in Walls
    BY <1>1, WallAssumption DEF IInv, TypeOK, Job
  <2>2. got[t] = seq[w] + 1 /\ seq[w] \in Nat
    BY <1>1, <2>1, WallAssumption DEF IInv, TypeOK, Writer, Holds
  <2>3. got[t] \in issued[w]
    BY <1>1 DEF Taken, Numbered
  <2> QED BY <1>1, <2>1, <2>2, <2>3 DEF IInv, SequentialIds
<1>2. IInv /\ Numbered => WritesFindRoom
  BY <1>1 DEF WritesFindRoom
<1> QED BY <1>2, NumberedHolds, PTL

-----------------------------------------------------------------------------
(***************************************************************************)
(* The walls implement a counter each: the numbers given are 1 up to some  *)
(* number at any moment, settled or not, so their count is that number.    *)
(***************************************************************************)
LEMMA CountOfInterval == \A n \in Nat : Cardinality(1 .. n) = n
<1> SUFFICES ASSUME NEW n \in Nat PROVE Cardinality(1 .. n) = n
  OBVIOUS
<1>1. CASE n = 0
  <2>1. 1 .. n = {}
    BY <1>1
  <2> QED BY <1>1, <2>1, FS_EmptySet
<1>2. CASE n # 0
  <2>1. 1 \in Int /\ n \in Int /\ 1 <= n /\ n - 1 + 1 = n
    BY <1>2
  <2> QED BY <2>1, FS_Interval
<1> QED BY <1>1, <1>2

LEMMA NumbersGiven ==
  ASSUME IInv, Blight, NEW w \in Walls
  PROVE  \E n \in Nat : issued[w] = 1 .. n /\ Cardinality(issued[w]) = n
<1>1. \E n \in Nat : issued[w] = 1 .. n
  <2>1. CASE w \notin Unsettled
    <3>1. seq[w] \in Nat
      BY WallAssumption DEF IInv, TypeOK
    <3>2. issued[w] = 1 .. seq[w]
      BY <2>1 DEF IInv, SequentialIds
    <3> QED BY <3>1, <3>2
  <2>2. CASE w \in Unsettled
    <3>1. issued[w] = Seeds(w)
      BY <2>2 DEF Unsettled, Blight, Blighted, IInv, Starter
    <3>2. Seeds(w) = 1 .. 2 \/ Seeds(w) = 1 .. 1
      BY DEF Seeds
    <3> QED BY <3>1, <3>2
  <2> QED BY <2>1, <2>2
<1> QED BY <1>1, CountOfInterval

Counted == \A w \in Walls : \E n \in Nat : issued[w] = 1 .. n /\ Cardinality(issued[w]) = n

LEMMA NumbersCounted == IInv /\ Blight => Counted
BY NumbersGiven DEF Counted

LEMMA Publishing ==
  ASSUME IInv, Blight, IInv', Blight', NEW notes \in SUBSET Post, posts' = posts \cup notes,
         issued' = [w \in Walls |-> issued[w] \cup {p.id : p \in {q \in notes : q.wall = w}}],
         \A p \in notes : ~Taken(p.wall, p.id) /\ p.id \notin issued[p.wall] /\ ~p.hidden,
         \A p, q \in notes : p.wall = q.wall /\ p.id = q.id => p = q
  PROVE  T!Publish
<1>1. posts' \ posts = notes
  BY DEF Taken
<1>2. ASSUME NEW w \in Walls
      PROVE  /\ Cardinality(issued[w]) \in Nat /\ Cardinality(issued'[w]) \in Nat
             /\ Cardinality(issued[w]) <= Cardinality(issued'[w])
             /\ {p.id : p \in {q \in notes : q.wall = w}}
                  = (Cardinality(issued[w]) + 1) .. Cardinality(issued'[w])
  <2>1. PICK n \in Nat : issued[w] = 1 .. n /\ Cardinality(issued[w]) = n
    BY NumbersGiven
  <2>2. PICK I : I = issued'
    OBVIOUS
  <2>3. PICK m \in Nat : I[w] = 1 .. m /\ Cardinality(I[w]) = m
    <3>1. Counted'
      BY NumbersCounted, PTL
    <3> QED BY <3>1, <2>2 DEF Counted
  <2> DEFINE ids == {p.id : p \in {q \in notes : q.wall = w}}
  <2>4. I[w] = issued[w] \cup ids
    BY <2>2
  <2>5. ids \cap issued[w] = {}
    OBVIOUS
  <2> HIDE DEF ids
  <2>6. ids = (1 .. m) \ (1 .. n) /\ 1 .. n \subseteq 1 .. m
    BY <2>1, <2>3, <2>4, <2>5
  <2>7. n <= m
    <3>1. n # 0 => n \in 1 .. n
      OBVIOUS
    <3>2. n # 0 => n \in 1 .. m
      BY <2>6, <3>1
    <3> QED BY <3>2
  <2>8. ids = (n + 1) .. m
    BY <2>6, <2>7
  <2> QED BY <2>1, <2>2, <2>3, <2>7, <2>8 DEF ids
<1>3. \A p \in notes : p.wall \in Walls /\ p.author \in Author /\ ~ p.hidden
  BY DEF Post
<1> QED BY <1>1, <1>2, <1>3 DEF T!Publish

LEMMA CommitPublishes ==
  ASSUME IInv, Blight, IInv', Blight', NEW t \in Task, Commit(t)
  PROVE  T!Publish
<1> DEFINE w == job[t].wall
<1>1. PICK p : p = Note(w, got[t], job[t].author)
  OBVIOUS
<1>2. /\ pc[t] = "commit" /\ posts' = posts \cup {p}
      /\ issued' = [issued EXCEPT ![w] = @ \cup {got[t]}]
  BY <1>1 DEF Commit
<1>3. /\ w \in Walls /\ job[t] \in Job /\ got[t] = seq[w] + 1 /\ seq[w] \in Nat
      /\ got[t] \in 1 .. MaxSeq /\ (w \notin torn => issued[w] \subseteq 1 .. seq[w])
  BY <1>2, NextNumber
<1>4. ~Taken(w, got[t])
  BY <1>2 DEF IInv, Writer
<1>5. w \notin torn
  BY <1>3, <1>4 DEF Blight, Blighted, Anchored, Taken
<1>6. got[t] \notin issued[w]
  BY <1>3, <1>5
<1>7. /\ p.wall = w /\ p.id = got[t] /\ ~p.hidden /\ p \in Post
  BY <1>1, <1>3 DEF Note, Post, Job
<1>8. issued' = [v \in Walls |-> issued[v] \cup {r.id : r \in {q \in {p} : q.wall = v}}]
  <2>1. \A v \in Walls : {r.id : r \in {q \in {p} : q.wall = v}} = IF v = w THEN {got[t]} ELSE {}
    BY <1>7
  <2> QED BY <1>2, <1>3, <2>1 DEF IInv, TypeOK
<1> HIDE DEF w
<1>9. PICK notes : notes = {p}
  OBVIOUS
<1>10. /\ notes \in SUBSET Post /\ posts' = posts \cup notes
       /\ \A q \in notes : ~Taken(q.wall, q.id) /\ q.id \notin issued[q.wall] /\ ~q.hidden
       /\ \A q, r \in notes : q.wall = r.wall /\ q.id = r.id => q = r
  BY <1>2, <1>4, <1>6, <1>7, <1>9
<1>11. issued' = [v \in Walls |-> issued[v] \cup {r.id : r \in {q \in notes : q.wall = v}}]
  BY <1>8, <1>9
<1> QED BY <1>10, <1>11, Publishing

LEMMA SeedPublishes ==
  ASSUME IInv, Blight, IInv', Blight', NEW s \in Replica, InsertNotes(s) \/ InsertClub(s)
  PROVE  T!Publish \/ UNCHANGED <<posts, issued>>
<1>1. ASSUME NEW notes \in SUBSET Post, NEW next, InsertOrFail(s, notes, next),
             \A p \in notes : \E q \in notes : q.wall = p.wall /\ q.id = 1,
             \A p \in notes : ~p.hidden,
             \A p, q \in notes : p.wall = q.wall /\ p.id = q.id => p = q
      PROVE  T!Publish \/ UNCHANGED <<posts, issued>>
  <2>1. CASE UNCHANGED <<posts, issued>>
    BY <2>1
  <2>2. CASE /\ \A p \in notes : ~Taken(p.wall, p.id)
             /\ posts' = posts \cup notes
             /\ issued' = [w \in Walls |->
                             issued[w] \cup {p.id : p \in {q \in notes : q.wall = w}}]
    <3>1. \A p \in notes : issued[p.wall] = {}
      BY <1>1, <2>2, FirstNotes DEF Post
    <3> QED BY <1>1, <2>2, <3>1, Publishing
  <2> QED BY <1>1, <2>1, <2>2 DEF InsertOrFail
<1>2. CASE InsertNotes(s)
  <2> DEFINE notes == {Note(Ivan, 1, Owner), Note(Ivan, 2, Pavel), Note(Anna, 1, Owner)}
  <2>1. InsertOrFail(s, notes, "setSeq")
    BY <1>2 DEF InsertNotes
  <2>2. /\ \A p \in notes : \E q \in notes : q.wall = p.wall /\ q.id = 1
        /\ \A p \in notes : ~p.hidden
        /\ \A p, q \in notes : p.wall = q.wall /\ p.id = q.id => p = q
    BY WallAssumption DEF Note
  <2>3. notes \in SUBSET Post
    BY WallAssumption DEF Note, Post, Walls, Author
  <2> HIDE DEF notes
  <2> QED BY <1>1, <2>1, <2>2, <2>3
<1>3. CASE InsertClub(s)
  <2> DEFINE notes == {Note(Club, 1, Owner)}
  <2>1. InsertOrFail(s, notes, "raiseClubSeq")
    BY <1>3 DEF InsertClub
  <2>2. /\ \A p \in notes : \E q \in notes : q.wall = p.wall /\ q.id = 1
        /\ \A p \in notes : ~p.hidden
        /\ \A p, q \in notes : p.wall = q.wall /\ p.id = q.id => p = q
    BY DEF Note
  <2>3. notes \in SUBSET Post
    BY WallAssumption DEF Note, Post, Walls, Author
  <2> HIDE DEF notes
  <2> QED BY <1>1, <2>1, <2>2, <2>3
<1> QED BY <1>2, <1>3

LEMMA StepRefines ==
  ASSUME IInv, Blight, IInv', Blight', [Next]_vars
  PROVE  T!Next \/ UNCHANGED <<posts, issued>>
<1>1. ASSUME NEW t \in Task, Commit(t) PROVE T!Next
  BY <1>1, CommitPublishes DEF T!Next
<1>2. ASSUME NEW s \in Replica, InsertNotes(s) \/ InsertClub(s)
      PROVE  T!Next \/ UNCHANGED <<posts, issued>>
  BY <1>2, SeedPublishes DEF T!Next
<1>3. CASE Moderate
  <2>1. PICK p \in posts, flag \in BOOLEAN : SetHidden({p}, flag)
    BY <1>3 DEF Moderate
  <2>2. /\ posts' = {IF r \in {p} THEN [r EXCEPT !.hidden = flag] ELSE r : r \in posts}
        /\ issued' = issued
    BY <2>1 DEF SetHidden
  <2>3. posts' = (posts \ {p}) \cup {[p EXCEPT !.hidden = flag]}
    <3>1. PICK q : q = [p EXCEPT !.hidden = flag]
      OBVIOUS
    <3>2. posts' = {IF r \in {p} THEN q ELSE r : r \in posts}
      BY <2>2, <3>1
    <3>3. posts' = (posts \ {p}) \cup {q}
      BY <3>2
    <3> QED BY <3>1, <3>3
  <2>4. T!SetHidden(p, flag)
    BY <2>2, <2>3 DEF T!SetHidden
  <2> QED BY <2>4 DEF T!Next
<1>4. ASSUME NEW a \in Guest, DeleteAccount(a) PROVE T!Next
  <2>1. T!Leave(a)
    BY <1>4 DEF DeleteAccount, T!Leave
  <2> QED BY <2>1 DEF T!Next, Author
<1>5. \/ UNCHANGED <<posts, issued>> \/ Moderate
      \/ (\E t \in Task : Commit(t)) \/ (\E a \in Guest : DeleteAccount(a))
      \/ \E s \in Replica : InsertNotes(s) \/ InsertClub(s)
  BY DEF Next, vars, Begin, Write, Bump, Insert, Drop, Seed, EnsureUsers, JoinClub, CountPosts, SetSeq,
     RaiseSeq, CountClub, RaiseClubSeq, Stop, Register, ChangeAddress
<1> QED BY <1>1, <1>2, <1>3, <1>4, <1>5

(***************************************************************************)
(* The walls implement the timeline: whatever writes, starts, moderation   *)
(* and deletions do statement by statement, a post that appears takes the  *)
(* number after the last its wall gave, or the seed's first notes the      *)
(* first ones, and no other step touches a number.                         *)
(***************************************************************************)
THEOREM TimelineImplemented == Spec => ImplementsTimeline
<1>1. Init => T!Init
  <2> SUFFICES ASSUME Init PROVE T!Init
    OBVIOUS
  <2>1. \A w \in Walls : Cardinality(issued[w]) = 0
    BY FS_EmptySet DEF Init
  <2> QED BY <2>1 DEF Init, T!Init
<1>2. IInv /\ Blight /\ (IInv /\ Blight)' /\ [Next]_vars => [T!Next]_(T!timelineVars)
  <2> SUFFICES ASSUME IInv, Blight, IInv', Blight', [Next]_vars
      PROVE  T!Next \/ UNCHANGED T!timelineVars
    OBVIOUS
  <2>1. CASE UNCHANGED <<posts, issued>>
    BY <2>1 DEF T!timelineVars
  <2> QED BY <2>1, StepRefines
<1> QED BY <1>1, <1>2, BlightHolds, PTL DEF Spec, ImplementsTimeline, T!Spec

LEMMA AppearingPost ==
  ASSUME IInv, Blight, IInv', Blight', [Next]_vars,
         NEW p \in Post, p \in posts', ~Taken(p.wall, p.id), NEW n \in issued[p.wall]
  PROVE  n < p.id
<1>1. p \notin posts /\ p.wall \in Walls
  BY DEF Taken, Post
<1>2. CASE T!Publish
  <2>1. p.id \in (Cardinality(issued[p.wall]) + 1) .. Cardinality(issued'[p.wall])
    BY <1>1, <1>2 DEF T!Publish
  <2>2. PICK k \in Nat : issued[p.wall] = 1 .. k /\ Cardinality(issued[p.wall]) = k
    BY <1>1, NumbersGiven
  <2>3. PICK c : c = Cardinality(issued'[p.wall])
    OBVIOUS
  <2>4. p.id \in (k + 1) .. c /\ p.id \in Nat /\ n \in 1 .. k
    BY <2>1, <2>2, <2>3, WallAssumption DEF Post
  <2> QED BY <2>4
<1>3. ASSUME NEW q \in posts, NEW flag \in BOOLEAN, T!SetHidden(q, flag) PROVE FALSE
  <2>1. p = [q EXCEPT !.hidden = flag]
    BY <1>1, <1>3 DEF T!SetHidden
  <2>2. p.wall = q.wall /\ p.id = q.id
    BY <2>1 DEF IInv, TypeOK, Post
  <2> QED BY <2>2 DEF Taken
<1>4. ASSUME NEW a, T!Leave(a) PROVE FALSE
  BY <1>1, <1>4 DEF T!Leave
<1>5. ~ UNCHANGED <<posts, issued>>
  BY <1>1
<1> QED BY <1>2, <1>3, <1>4, <1>5, StepRefines DEF T!Next

(***************************************************************************)
(* A number that a post appears under was never given before, so that the  *)
(* comments and likes that name it belong to this post.                    *)
(***************************************************************************)
THEOREM PermalinksKept == Spec => PermalinksNameOnePost
<1>1. IInv /\ Blight /\ (IInv /\ Blight)' /\ [Next]_vars =>
        [\A p \in Post :
           p \in posts' /\ ~Taken(p.wall, p.id) =>
             \A n \in issued[p.wall] : n < p.id]_vars
  BY AppearingPost
<1> QED BY <1>1, BlightHolds, PTL DEF Spec, PermalinksNameOnePost
=============================================================================
