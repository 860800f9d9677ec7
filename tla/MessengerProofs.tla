--------------------------- MODULE MessengerProofs ---------------------------
(***************************************************************************)
(* What holds of Messenger for any number of users, requests,              *)
(* conversations and wrap keys.                                            *)
(***************************************************************************)
EXTENDS Messenger, SequenceTheorems, TLAPS

Conversation ==
  [pair : SUBSET User, members : SUBSET User,
   wrapped : UNION {[S -> Key] : S \in SUBSET User}]

Job == [author : User \cup {None}, peer : User \cup {None},
        thread : Nat \cup {None}, sealed : Key \cup {None},
        left : Seq(User), minted : SUBSET (User \X Key),
        wrapped : SUBSET (User \X Key), unkeyed : SUBSET User]

Types ==
  /\ TypeOK
  /\ threads \in Seq(Conversation)
  /\ job \in [Task -> Job]
  /\ \A t \in Task : pc[t] \notin {"idle", "seal"} => Pair(t) \subseteq User

Owners(keys) == {p[1] : p \in keys}

(***************************************************************************)
(* How far a transaction has come with the members it wraps the key for.   *)
(***************************************************************************)
Wraps(t) ==
  LET a == job[t].author  b == job[t].peer  left == job[t].left
      wrapped == job[t].wrapped
  IN /\ pc[t] \in {"wrapKey", "mint"} =>
          \/ left = <<a, b>> /\ a # b /\ Owners(wrapped) = {}
          \/ left = <<b>> /\ Owners(wrapped) = {a} \ {b}
     /\ pc[t] = "commit" => Owners(wrapped) = {a, b}

(***************************************************************************)
(* Each copy was wrapped with one key, which the transaction made, or      *)
(* which is still in the row of the member unless it was overwritten.      *)
(***************************************************************************)
Keeps(t) ==
  InTransaction(t) =>
    /\ Pair(t) \subseteq users
    /\ job[t].minted \subseteq job[t].wrapped
    /\ \A p, q \in job[t].wrapped : p[1] = q[1] => p = q
    /\ \A p \in job[t].wrapped :
         p \in job[t].minted \/ p[1] \in overwritten \/ wrapKey[p[1]] = p[2]

Empty(t) ==
  pc[t] \in {"find", "create"} => job[t].wrapped = {} /\ job[t].minted = {}

(***************************************************************************)
(* A request that has its conversation: the two are its members, as far as *)
(* they still have an account.                                             *)
(***************************************************************************)
Addresses(t) ==
  pc[t] \in {"dek", "unwrap", "insert"} =>
    /\ job[t].thread \in DOMAIN threads
    /\ threads[job[t].thread].members = Pair(t) \cap users

Good(t) == Empty(t) /\ Wraps(t) /\ Keeps(t) /\ Addresses(t)

MessagesPlaced ==
  \A m \in messages : threads[m.thread].members = {m.author, m.peer} \cap users

IInv ==
  /\ Types
  /\ MembersCanRead
  /\ MessagesPlaced
  /\ \A t \in Task : Good(t)

-----------------------------------------------------------------------------
LEMMA InitIInv == Init => IInv
<1> SUFFICES ASSUME Init PROVE IInv
  OBVIOUS
<1> USE DEF Init
<1>1. Types
  <2>1. Idle \in Job
    BY DEF Idle, Job
  <2> QED BY <2>1, MessengerAssumption DEF Types, TypeOK, Key, Label
<1>2. MembersCanRead /\ MessagesPlaced
  BY DEF MembersCanRead, MessagesPlaced
<1>3. \A t \in Task : Good(t)
  BY DEF Good, Empty, Wraps, Keeps, Addresses, InTransaction
<1> QED BY <1>1, <1>2, <1>3 DEF IInv

(***************************************************************************)
(* The key chosen for a user is the only one there is.                     *)
(***************************************************************************)
LEMMA OneKey ==
  ASSUME NEW keys \in SUBSET (User \X Key), \A p, q \in keys : p[1] = q[1] => p = q,
         NEW u \in Owners(keys)
  PROVE  /\ (CHOOSE p \in keys : p[1] = u) \in keys
         /\ (CHOOSE p \in keys : p[1] = u)[1] = u
         /\ (CHOOSE p \in keys : p[1] = u)[2] \in Key
         /\ u \in User
  BY DEF Owners

LEMMA StoreFacts ==
  ASSUME Types, NEW keys \in SUBSET (User \X Key),
         \A p, q \in keys : p[1] = q[1] => p = q, Store(keys)
  PROVE  /\ wrapKey' \in [User -> Key \cup {None}]
         /\ overwritten' \in SUBSET User
         /\ overwritten \subseteq overwritten'
         /\ \A p \in keys : wrapKey'[p[1]] = p[2]
         /\ \A u \in User : u \notin Owners(keys) => wrapKey'[u] = wrapKey[u]
         /\ \A u \in User : \/ wrapKey'[u] = wrapKey[u] \/ wrapKey[u] = None
                            \/ u \in overwritten'
<1> DEFINE Of(u) == CHOOSE p \in keys : p[1] = u
<1>1. \A u \in Owners(keys) : Of(u) \in keys /\ Of(u)[1] = u /\ Of(u)[2] \in Key /\ u \in User
  BY OneKey
<1>2. \A p \in keys : p[1] \in Owners(keys)
  BY DEF Owners
<1>3. /\ wrapKey' = [u \in User |-> IF u \in Owners(keys) THEN Of(u)[2] ELSE wrapKey[u]]
      /\ overwritten' = overwritten \cup {u \in Owners(keys) : wrapKey[u] # None}
  BY DEF Store, Owners
<1>4. \A p \in keys : Of(p[1]) = p
  BY <1>1, <1>2
<1> HIDE DEF Of
<1> QED BY <1>1, <1>2, <1>3, <1>4 DEF Types, TypeOK

-----------------------------------------------------------------------------
(***************************************************************************)
(* A statement that changes no account and no conversation: it is enough   *)
(* to look at the task that ran it.                                        *)
(***************************************************************************)
LEMMA Quiet ==
  ASSUME IInv, NEW t \in Task, NEW j \in Job, NEW l \in Label,
         job' = [job EXCEPT ![t] = j], pc' = [pc EXCEPT ![t] = l],
         l \notin {"idle", "seal"} => {j.author, j.peer} \subseteq User,
         UNCHANGED <<users, wrapKey, threads, overwritten>>, made' \in 0 .. MaxKeys,
         messages' \in SUBSET [thread : DOMAIN threads, author : users, peer : User],
         MessagesPlaced', Good(t)'
  PROVE  IInv'
<1>1. Types'
  <2>1. job' \in [Task -> Job] /\ pc' \in [Task -> Label]
    BY DEF IInv, Types, TypeOK
  <2>2. TypeOK'
    BY <2>1 DEF IInv, Types, TypeOK
  <2>3. \A s \in Task : pc'[s] \notin {"idle", "seal"} => Pair(s)' \subseteq User
    BY DEF IInv, Types, TypeOK, Pair
  <2> QED BY <2>1, <2>2, <2>3 DEF IInv, Types
<1>2. MembersCanRead'
  BY DEF IInv, MembersCanRead, Opens
<1>3. ASSUME NEW s \in Task, s # t PROVE Good(s)'
  <2>1. pc'[s] = pc[s] /\ job'[s] = job[s]
    BY <1>3 DEF IInv, Types, TypeOK
  <2>2. Good(s)
    BY DEF IInv
  <2> QED BY <2>1, <2>2 DEF Good, Empty, Wraps, Keeps, Addresses, InTransaction, Pair
<1> QED BY <1>1, <1>2, <1>3 DEF IInv

LEMMA EndStep ==
  ASSUME IInv, NEW t \in Task, End(t), UNCHANGED <<accounts, threads>>,
         messages' \in SUBSET [thread : DOMAIN threads, author : users, peer : User],
         MessagesPlaced'
  PROVE  IInv'
<1>1. Idle \in Job /\ "idle" \in Label
  BY DEF Idle, Job, Label
<1>2. job' = [job EXCEPT ![t] = Idle] /\ pc' = [pc EXCEPT ![t] = "idle"] /\ pc'[t] = "idle"
  BY DEF End, Goto, IInv, Types, TypeOK
<1>3. Good(t)'
  BY <1>2 DEF Good, Empty, Wraps, Keeps, Addresses, InTransaction
<1>4. UNCHANGED <<users, wrapKey, threads, overwritten>> /\ made' \in 0 .. MaxKeys
  BY DEF accounts, IInv, Types, TypeOK
<1> QED BY <1>1, <1>2, <1>3, <1>4, Quiet

(***************************************************************************)
(* The messages are as they were.                                          *)
(***************************************************************************)
LEMMA SameMessages ==
  ASSUME IInv, UNCHANGED <<users, threads, messages>>
  PROVE  /\ messages' \in SUBSET [thread : DOMAIN threads, author : users, peer : User]
         /\ MessagesPlaced'
  BY DEF IInv, Types, TypeOK, MessagesPlaced

LEMMA SendStep ==
  ASSUME IInv, NEW t \in Task, NEW a \in User, NEW b \in User, Send(t, a, b)
  PROVE  IInv'
<1> DEFINE j == [Idle EXCEPT !.author = a, !.peer = b]
<1>1. j \in Job /\ "find" \in Label /\ {j.author, j.peer} \subseteq User
  <2>1. Idle \in Job
    BY DEF Idle, Job
  <2>2. j \in Job /\ j.author = a /\ j.peer = b
    BY <2>1 DEF Job
  <2> QED BY <2>2 DEF Label
<1>2. job' = [job EXCEPT ![t] = j] /\ pc' = [pc EXCEPT ![t] = "find"]
      /\ pc'[t] = "find" /\ job'[t] = j
  BY DEF Send, Goto, IInv, Types, TypeOK
<1>3. Good(t)'
  BY <1>2 DEF Good, Empty, Wraps, Keeps, Addresses, InTransaction, Idle
<1>4. UNCHANGED <<users, wrapKey, threads, messages, overwritten>> /\ made' \in 0 .. MaxKeys
  BY DEF Send, accounts, IInv, Types, TypeOK
<1> QED BY <1>1, <1>2, <1>3, <1>4, SameMessages, Quiet

LEMMA FindStep ==
  ASSUME IInv, NEW t \in Task, FindDirect(t)
  PROVE  IInv'
<1>1. pc[t] = "find" /\ job[t] \in Job /\ Pair(t) \subseteq User
  BY DEF FindDirect, IInv, Types, TypeOK
<1>2. UNCHANGED <<users, wrapKey, threads, messages, overwritten>> /\ made' \in 0 .. MaxKeys
  BY DEF FindDirect, accounts, IInv, Types, TypeOK
<1>3. ASSUME NEW c \in Direct(job[t].author, job[t].peer),
             job' = [job EXCEPT ![t].thread = c], Goto(t, "dek")
      PROVE  IInv'
  <2> DEFINE j == [job[t] EXCEPT !.thread = c]
  <2>1. c \in DOMAIN threads /\ c \in Nat /\ threads[c].members = Pair(t)
        /\ threads[c].members \subseteq users
    BY <1>3 DEF Direct, Pair, IInv, Types, TypeOK
  <2>2. j \in Job /\ "dek" \in Label /\ {j.author, j.peer} \subseteq User
    BY <1>1, <2>1 DEF Job, Label, Pair
  <2>3. job' = [job EXCEPT ![t] = j] /\ pc' = [pc EXCEPT ![t] = "dek"]
        /\ pc'[t] = "dek" /\ job'[t] = j
    BY <1>3 DEF Goto, IInv, Types, TypeOK
  <2>4. j.thread = c /\ j.author = job[t].author /\ j.peer = job[t].peer
    BY <1>1 DEF Job
  <2>5. Good(t)'
    BY <1>2, <2>1, <2>3, <2>4
       DEF Good, Empty, Wraps, Keeps, Addresses, InTransaction, Pair
  <2> QED BY <1>2, <2>2, <2>3, <2>5, SameMessages, Quiet
<1>4. CASE Goto(t, "create") /\ UNCHANGED job
  <2>1. job' = [job EXCEPT ![t] = job[t]] /\ pc' = [pc EXCEPT ![t] = "create"]
        /\ pc'[t] = "create" /\ job'[t] = job[t] /\ "create" \in Label
    BY <1>4 DEF Goto, IInv, Types, TypeOK, Label
  <2>2. Good(t)'
    BY <1>1, <2>1 DEF IInv, Good, Empty, Wraps, Keeps, Addresses, InTransaction
  <2> QED BY <1>1, <1>2, <2>1, <2>2, SameMessages, Quiet DEF Pair
<1> QED BY <1>3, <1>4 DEF FindDirect

LEMMA InsertThreadStep ==
  ASSUME IInv, NEW t \in Task, InsertThread(t)
  PROVE  IInv'
<1>1. pc[t] = "create" /\ job[t] \in Job /\ Pair(t) \subseteq User /\ Good(t)
  BY DEF InsertThread, IInv, Types, TypeOK
<1>2. UNCHANGED <<accounts, threads, messages>>
  BY DEF InsertThread
<1>3. CASE End(t)
  BY <1>2, <1>3, EndStep, SameMessages DEF accounts
<1>4. CASE ~End(t)
  <2> DEFINE a == job[t].author
             b == job[t].peer
             left == IF a = b THEN <<a>> ELSE <<a, b>>
             j == [job[t] EXCEPT !.left = left]
  <2>1. Pair(t) \subseteq users /\ job' = [job EXCEPT ![t] = j] /\ Goto(t, "wrapKey")
    BY <1>4 DEF InsertThread, IInv, Types
  <2>2. a \in User /\ b \in User /\ left \in Seq(User)
    BY <1>1 DEF Pair
  <2>3. /\ j \in Job /\ j.author = a /\ j.peer = b /\ j.left = left
        /\ j.wrapped = job[t].wrapped /\ j.minted = job[t].minted
    BY <1>1, <2>2 DEF Job
  <2> HIDE DEF j
  <2>4. /\ pc' = [pc EXCEPT ![t] = "wrapKey"] /\ "wrapKey" \in Label
        /\ pc'[t] = "wrapKey" /\ job'[t] = j
    BY <2>1 DEF Goto, IInv, Types, TypeOK, Label
  <2>5. job[t].wrapped = {} /\ job[t].minted = {}
    BY <1>1 DEF Good, Empty
  <2>6. Wraps(t)'
    BY <2>3, <2>4, <2>5 DEF Wraps, Owners
  <2>7. Good(t)'
    BY <1>2, <2>1, <2>3, <2>4, <2>5, <2>6
       DEF Good, Empty, Keeps, Addresses, InTransaction, Pair, accounts
  <2>8. UNCHANGED <<users, wrapKey, threads, messages, overwritten>> /\ made' \in 0 .. MaxKeys
    BY <1>2 DEF accounts, IInv, Types, TypeOK
  <2>9. {j.author, j.peer} \subseteq User
    BY <2>2, <2>3
  <2> QED BY <2>1, <2>3, <2>4, <2>7, <2>8, <2>9, SameMessages, Quiet
<1> QED BY <1>3, <1>4

(***************************************************************************)
(* The members are done one after the other, each with one key, which the  *)
(* transaction made or read.                                               *)
(***************************************************************************)
LEMMA NextMember ==
  ASSUME IInv, NEW t \in Task, pc[t] \in {"wrapKey", "mint"}
  PROVE  /\ Head(job[t].left) \in users /\ Head(job[t].left) \in Pair(t)
         /\ Head(job[t].left) \notin Owners(job[t].wrapped)
         /\ Tail(job[t].left) \in Seq(User)
         /\ Len(job[t].left) = 1 =>
              Owners(job[t].wrapped) \cup {Head(job[t].left)} = Pair(t)
         /\ Len(job[t].left) # 1 => /\ Tail(job[t].left) = <<job[t].peer>>
                                    /\ Owners(job[t].wrapped) = {}
                                    /\ Head(job[t].left) = job[t].author
                                    /\ job[t].author # job[t].peer
<1> DEFINE a == job[t].author
           b == job[t].peer
           left == job[t].left
<1>1. Wraps(t) /\ Pair(t) \subseteq users /\ Pair(t) \subseteq User
  BY DEF IInv, Good, Keeps, InTransaction, Types
<1>2. CASE left = <<a, b>> /\ a # b /\ Owners(job[t].wrapped) = {}
  <2>1. Head(left) = a /\ Tail(left) = <<b>> /\ Len(left) = 2
    BY <1>2
  <2> QED BY <1>1, <1>2, <2>1 DEF Pair
<1>3. CASE left = <<b>> /\ Owners(job[t].wrapped) = {a} \ {b}
  <2>1. Head(left) = b /\ Tail(left) = <<>> /\ Len(left) = 1
    BY <1>3
  <2> QED BY <1>1, <1>3, <2>1 DEF Pair
<1> QED BY <1>1, <1>2, <1>3 DEF Wraps

LEMMA OwnersAdd ==
  ASSUME NEW keys, NEW u, NEW k
  PROVE  Owners(keys \cup {<<u, k>>}) = Owners(keys) \cup {u}
<1>1. <<u, k>>[1] = u
  OBVIOUS
<1> QED BY <1>1 DEF Owners

(***************************************************************************)
(* What wrapping does to the task, whether the key was read or made.       *)
(***************************************************************************)
LEMMA WrapStep ==
  ASSUME IInv, NEW t \in Task, pc[t] \in {"wrapKey", "mint"}, NEW k \in Key, NEW j \in Job,
         j.author = job[t].author, j.peer = job[t].peer, j.thread = job[t].thread,
         j.left = Tail(job[t].left),
         j.wrapped = job[t].wrapped \cup {<<Head(job[t].left), k>>},
         \/ j.minted = job[t].minted /\ wrapKey[Head(job[t].left)] = k
         \/ j.minted = job[t].minted \cup {<<Head(job[t].left), k>>},
         job' = [job EXCEPT ![t] = j],
         Goto(t, IF Len(job[t].left) = 1 THEN "commit" ELSE "wrapKey"),
         UNCHANGED <<users, wrapKey, overwritten, threads, messages>>,
         made' \in 0 .. MaxKeys
  PROVE  IInv'
<1> DEFINE u == Head(job[t].left)
           l == IF Len(job[t].left) = 1 THEN "commit" ELSE "wrapKey"
           old == job[t].wrapped
<1>1. /\ u \in users /\ u \in Pair(t) /\ u \notin Owners(old)
      /\ Len(job[t].left) = 1 => Owners(old) \cup {u} = Pair(t)
      /\ Len(job[t].left) # 1 => /\ Tail(job[t].left) = <<job[t].peer>>
                                 /\ Owners(old) = {}
                                 /\ u = job[t].author /\ job[t].author # job[t].peer
  BY NextMember, Zenon
<1>2. Owners(j.wrapped) = Owners(old) \cup {u}
  <2>1. Owners(old \cup {<<u, k>>}) = Owners(old) \cup {u}
    BY OwnersAdd, Zenon
  <2> QED BY <2>1
<1>3. /\ pc' = [pc EXCEPT ![t] = l] /\ l \in Label /\ pc'[t] = l /\ job'[t] = j
  BY DEF Goto, IInv, Types, TypeOK, Label
<1>4. Wraps(t)'
  <2>1. CASE Len(job[t].left) = 1
    <3>1. Owners(j.wrapped) = {j.author, j.peer} /\ l = "commit"
      BY <1>1, <1>2, <2>1 DEF Pair
    <3> QED BY <1>3, <3>1 DEF Wraps
  <2>2. CASE Len(job[t].left) # 1
    <3>1. j.left = <<j.peer>> /\ Owners(j.wrapped) = {j.author} \ {j.peer}
      BY <1>1, <1>2, <2>2
    <3> QED BY <1>3, <2>2, <3>1 DEF Wraps
  <2> QED BY <2>1, <2>2
<1>5. Keeps(t)'
  <2>1. Keeps(t) /\ InTransaction(t)
    BY DEF IInv, Good, InTransaction
  <2>2. \A p \in old : p[1] \in Owners(old)
    BY DEF Owners
  <2>3. \A p, q \in j.wrapped : p[1] = q[1] => p = q
    BY <1>1, <2>1, <2>2 DEF Keeps
  <2>4. Pair(t)' = Pair(t)
    BY <1>3 DEF Pair
  <2> QED BY <1>3, <2>1, <2>3, <2>4 DEF Keeps
<1>6. Good(t)'
  BY <1>3, <1>4, <1>5 DEF Good, Empty, Addresses
<1>7. Pair(t) \subseteq User
  BY DEF IInv, Types
<1> QED BY <1>3, <1>6, <1>7, SameMessages, Quiet DEF Pair

LEMMA ReadWrapKeyStep ==
  ASSUME IInv, NEW t \in Task, ReadWrapKey(t)
  PROVE  IInv'
<1> DEFINE u == Head(job[t].left)
<1>1. pc[t] = "wrapKey" /\ job[t] \in Job /\ Pair(t) \subseteq User /\ Good(t)
  BY DEF ReadWrapKey, IInv, Types, TypeOK
<1>2. UNCHANGED <<users, wrapKey, threads, messages, overwritten>> /\ made' \in 0 .. MaxKeys
  BY DEF ReadWrapKey, accounts, IInv, Types, TypeOK
<1>3. CASE wrapKey[u] = None
  <2>1. job' = [job EXCEPT ![t] = job[t]] /\ pc' = [pc EXCEPT ![t] = "mint"]
        /\ pc'[t] = "mint" /\ job'[t] = job[t] /\ "mint" \in Label
    BY <1>3 DEF ReadWrapKey, Goto, IInv, Types, TypeOK, Label
  <2>2. Good(t)'
    BY <1>1, <1>2, <2>1 DEF Good, Empty, Wraps, Keeps, Addresses, InTransaction, Pair
  <2> QED BY <1>1, <1>2, <2>1, <2>2, SameMessages, Quiet DEF Pair
<1>4. CASE wrapKey[u] # None
  <2> DEFINE k == wrapKey[u]
             j == [job[t] EXCEPT !.left = Tail(@), !.wrapped = @ \cup {<<u, k>>}]
  <2>1. u \in User /\ k \in Key /\ Tail(job[t].left) \in Seq(User)
    BY <1>1, <1>4, NextMember DEF IInv, Types, TypeOK
  <2>2. j \in Job
    <3>1. job[t].wrapped \cup {<<u, k>>} \in SUBSET (User \X Key)
      BY <1>1, <2>1 DEF Job
    <3> QED BY <1>1, <2>1, <3>1 DEF Job
  <2>3. /\ j.author = job[t].author /\ j.peer = job[t].peer /\ j.thread = job[t].thread
        /\ j.left = Tail(job[t].left) /\ j.minted = job[t].minted
        /\ j.wrapped = job[t].wrapped \cup {<<u, k>>}
    BY <1>1 DEF Job
  <2>4. job' = [job EXCEPT ![t] = j]
        /\ Goto(t, IF Len(job[t].left) = 1 THEN "commit" ELSE "wrapKey")
    BY <1>4 DEF ReadWrapKey, Wrap, IInv, Types
  <2> HIDE DEF j
  <2> QED BY <1>1, <1>2, <2>1, <2>2, <2>3, <2>4, WrapStep
<1> QED BY <1>3, <1>4

LEMMA MintWrapKeyStep ==
  ASSUME IInv, NEW t \in Task, MintWrapKey(t)
  PROVE  IInv'
<1> DEFINE u == Head(job[t].left)
           k == made + 1
           j == [job[t] EXCEPT !.minted = @ \cup {<<u, k>>}, !.left = Tail(@),
                               !.wrapped = @ \cup {<<u, k>>}]
<1>1. pc[t] = "mint" /\ job[t] \in Job /\ made < MaxKeys /\ made' = k
  BY DEF MintWrapKey, IInv, Types, TypeOK
<1>2. UNCHANGED <<users, wrapKey, threads, messages, overwritten>>
  BY DEF MintWrapKey
<1>3. k \in Key /\ made' \in 0 .. MaxKeys
  BY <1>1, MessengerAssumption DEF Key, IInv, Types, TypeOK
<1>4. u \in User /\ Tail(job[t].left) \in Seq(User)
  BY <1>1, NextMember DEF IInv, Types, TypeOK
<1>5. j \in Job
  <2>1. /\ job[t].wrapped \cup {<<u, k>>} \in SUBSET (User \X Key)
        /\ job[t].minted \cup {<<u, k>>} \in SUBSET (User \X Key)
    BY <1>1, <1>3, <1>4 DEF Job
  <2> HIDE DEF k
  <2> QED BY <1>1, <1>4, <2>1 DEF Job
<1>6. /\ j.author = job[t].author /\ j.peer = job[t].peer /\ j.thread = job[t].thread
      /\ j.left = Tail(job[t].left) /\ j.minted = job[t].minted \cup {<<u, k>>}
      /\ j.wrapped = job[t].wrapped \cup {<<u, k>>}
  BY <1>1 DEF Job
<1>7. job' = [job EXCEPT ![t] = j]
      /\ Goto(t, IF Len(job[t].left) = 1 THEN "commit" ELSE "wrapKey")
  BY <1>1 DEF MintWrapKey, IInv, Types
<1> HIDE DEF j
<1> QED BY <1>1, <1>2, <1>3, <1>5, <1>6, <1>7, WrapStep

LEMMA BreakDeadlockStep ==
  ASSUME IInv, NEW t \in Task, BreakDeadlock(t)
  PROVE  IInv'
  BY EndStep, SameMessages DEF BreakDeadlock, accounts

-----------------------------------------------------------------------------
LEMMA ReadDekStep ==
  ASSUME IInv, NEW t \in Task, ReadDek(t)
  PROVE  IInv'
<1>1. /\ pc[t] = "dek" /\ job[t] \in Job /\ Pair(t) \subseteq User /\ Good(t)
      /\ job[t].thread \in DOMAIN threads
  BY DEF ReadDek, IInv, Types, TypeOK, Good, Addresses
<1>2. UNCHANGED <<accounts, threads, messages>>
  BY DEF ReadDek
<1>3. CASE End(t)
  BY <1>2, <1>3, EndStep, SameMessages DEF accounts
<1>4. CASE ~End(t)
  <2> DEFINE c == threads[job[t].thread]
             k == c.wrapped[job[t].author]
             j == [job[t] EXCEPT !.sealed = k]
  <2>1. job[t].author \in c.members /\ job' = [job EXCEPT ![t] = j] /\ Goto(t, "unwrap")
    BY <1>4 DEF ReadDek, IInv, Types
  <2>2. k \in Key
    BY <1>1, <2>1 DEF IInv, Types, TypeOK
  <2> HIDE DEF k
  <2>3. /\ j \in Job /\ j.author = job[t].author /\ j.peer = job[t].peer
        /\ j.thread = job[t].thread
    BY <1>1, <2>2 DEF Job
  <2> HIDE DEF j
  <2>4. /\ pc' = [pc EXCEPT ![t] = "unwrap"] /\ pc'[t] = "unwrap" /\ job'[t] = j
        /\ "unwrap" \in Label
    BY <2>1 DEF Goto, IInv, Types, TypeOK, Label
  <2>5. UNCHANGED <<users, wrapKey, threads, messages, overwritten>> /\ made' \in 0 .. MaxKeys
    BY <1>2 DEF accounts, IInv, Types, TypeOK
  <2>6. Good(t)'
    BY <1>1, <2>3, <2>4, <2>5 DEF Good, Empty, Wraps, Keeps, Addresses, InTransaction, Pair
  <2>7. {j.author, j.peer} \subseteq User
    BY <1>1, <2>3 DEF Pair
  <2> QED BY <2>1, <2>3, <2>4, <2>5, <2>6, <2>7, SameMessages, Quiet
<1> QED BY <1>3, <1>4

LEMMA UnwrapStep ==
  ASSUME IInv, NEW t \in Task, Unwrap(t)
  PROVE  IInv'
<1>1. pc[t] = "unwrap" /\ job[t] \in Job /\ Pair(t) \subseteq User /\ Good(t)
  BY DEF Unwrap, IInv, Types, TypeOK
<1>2. UNCHANGED <<accounts, threads, messages>>
  BY DEF Unwrap
<1>3. CASE End(t)
  BY <1>2, <1>3, EndStep, SameMessages DEF accounts
<1>4. CASE ~End(t)
  <2>1. job' = [job EXCEPT ![t] = job[t]] /\ pc' = [pc EXCEPT ![t] = "insert"]
        /\ pc'[t] = "insert" /\ job'[t] = job[t] /\ "insert" \in Label
    BY <1>4 DEF Unwrap, Goto, IInv, Types, TypeOK, Label
  <2>2. UNCHANGED <<users, wrapKey, threads, messages, overwritten>> /\ made' \in 0 .. MaxKeys
    BY <1>2 DEF accounts, IInv, Types, TypeOK
  <2>3. Good(t)'
    BY <1>1, <2>1, <2>2 DEF Good, Empty, Wraps, Keeps, Addresses, InTransaction, Pair
  <2> QED BY <1>1, <2>1, <2>2, <2>3, SameMessages, Quiet DEF Pair
<1> QED BY <1>3, <1>4

(***************************************************************************)
(* The message goes where the two are the members: Addresses.              *)
(***************************************************************************)
LEMMA InsertMessageStep ==
  ASSUME IInv, NEW t \in Task, InsertMessage(t)
  PROVE  IInv'
<1> DEFINE m == [thread |-> job[t].thread, author |-> job[t].author, peer |-> job[t].peer]
<1>1. /\ job[t].thread \in DOMAIN threads /\ Pair(t) \subseteq User
      /\ threads[job[t].thread].members = Pair(t) \cap users
  BY DEF InsertMessage, IInv, Types, Good, Addresses
<1>2. End(t) /\ UNCHANGED <<accounts, threads>>
  BY DEF InsertMessage
<1>3. messages' \subseteq messages \cup {m} /\ (m \in messages' => m \in messages \/ job[t].author \in users)
  BY DEF InsertMessage
<1>4. messages' \in SUBSET [thread : DOMAIN threads, author : users, peer : User]
  BY <1>1, <1>3 DEF IInv, Types, TypeOK, Pair
<1>5. MessagesPlaced'
  BY <1>1, <1>2, <1>3 DEF IInv, MessagesPlaced, Pair, accounts
<1> QED BY <1>2, <1>4, <1>5, EndStep

LEMMA StartProtectingStep ==
  ASSUME IInv, NEW t \in Task, StartProtecting(t)
  PROVE  IInv'
<1> DEFINE unkeyed == {u \in users : wrapKey[u] = None}
           j == [Idle EXCEPT !.unkeyed = unkeyed]
<1>1. Idle \in Job
  BY DEF Idle, Job
<1>2. j \in Job
  BY <1>1 DEF Job, IInv, Types, TypeOK
<1> HIDE DEF j
<1>3. /\ job' = [job EXCEPT ![t] = j] /\ pc' = [pc EXCEPT ![t] = "seal"]
      /\ pc'[t] = "seal" /\ job'[t] = j /\ "seal" \in Label
  BY DEF j, StartProtecting, Goto, IInv, Types, TypeOK, Label
<1>4. UNCHANGED <<users, wrapKey, threads, messages, overwritten>> /\ made' \in 0 .. MaxKeys
  BY DEF StartProtecting, accounts, IInv, Types, TypeOK
<1>5. Good(t)'
  BY <1>3 DEF Good, Empty, Wraps, Keeps, Addresses, InTransaction
<1> QED BY <1>2, <1>3, <1>4, <1>5, SameMessages, Quiet

LEMMA DropStep ==
  ASSUME IInv, NEW t \in Task, Drop(t)
  PROVE  IInv'
  BY EndStep, SameMessages DEF Drop, accounts

-----------------------------------------------------------------------------
(***************************************************************************)
(* When keys are stored, a copy that its member could open is one that the *)
(* member can open, unless the key was overwritten: it had been a key, and *)
(* not none.                                                               *)
(***************************************************************************)
LEMMA StoreKeeps ==
  ASSUME IInv, NEW keys \in SUBSET (User \X Key),
         \A p, q \in keys : p[1] = q[1] => p = q, Store(keys)
  PROVE  \A u \in User, k \in Key :
           wrapKey[u] = k => wrapKey'[u] = k \/ u \in overwritten'
<1>1. \A k \in Key : k # None
  BY MessengerAssumption DEF Key
<1> QED BY <1>1, StoreFacts DEF IInv

(***************************************************************************)
(* The other tasks and the conversations there were, when a task stores    *)
(* keys.                                                                   *)
(***************************************************************************)
LEMMA StoreFrame ==
  ASSUME IInv, NEW keys \in SUBSET (User \X Key),
         \A p, q \in keys : p[1] = q[1] => p = q, Store(keys),
         UNCHANGED users,
         \A c \in DOMAIN threads : c \in DOMAIN threads' /\ threads'[c] = threads[c]
  PROVE  /\ \A c \in DOMAIN threads : \A u \in threads'[c].members \ overwritten' :
              threads'[c].wrapped[u] = wrapKey'[u]
         /\ \A s \in Task : pc'[s] = pc[s] /\ job'[s] = job[s] => Good(s)'
<1>1. overwritten \subseteq overwritten'
  BY StoreFacts DEF IInv
<1>2. \A u \in User, k \in Key : wrapKey[u] = k => wrapKey'[u] = k \/ u \in overwritten'
  BY StoreKeeps
<1>3. ASSUME NEW c \in DOMAIN threads, NEW u \in threads'[c].members \ overwritten'
      PROVE  threads'[c].wrapped[u] = wrapKey'[u]
  <2>1. u \in User /\ threads[c].wrapped[u] \in Key /\ u \in threads[c].members \ overwritten
    BY <1>1, <1>3 DEF IInv, Types, TypeOK
  <2>2. threads[c].wrapped[u] = wrapKey[u]
    BY <2>1 DEF IInv, MembersCanRead, Opens
  <2> QED BY <1>2, <1>3, <2>1, <2>2
<1>4. ASSUME NEW s \in Task, pc'[s] = pc[s], job'[s] = job[s]
      PROVE  Good(s)'
  <2>1. Good(s) /\ job[s] \in Job
    BY DEF IInv, Types
  <2>2. \A p \in job[s].wrapped : p[1] \in User /\ p[2] \in Key
    BY <2>1 DEF Job
  <2>3. Keeps(s)'
    BY <1>1, <1>2, <1>4, <2>1, <2>2 DEF Good, Keeps, InTransaction, Pair
  <2>4. Addresses(s)'
    BY <1>4, <2>1 DEF Good, Addresses, Pair
  <2> QED BY <1>4, <2>1, <2>3, <2>4 DEF Good, Empty, Wraps
<1> QED BY <1>3, <1>4

(***************************************************************************)
(* The copies that a transaction made of the key of its conversation.      *)
(***************************************************************************)
LEMMA CopiesMade ==
  ASSUME IInv, NEW t \in Task, pc[t] = "commit"
  PROVE  /\ NewThread(t).wrapped \in [Pair(t) -> Key]
         /\ \A u \in Pair(t) : <<u, NewThread(t).wrapped[u]>> \in job[t].wrapped
<1> DEFINE w == job[t].wrapped
           Of(u) == CHOOSE p \in w : p[1] = u
<1>1. /\ w \in SUBSET (User \X Key) /\ Owners(w) = Pair(t)
      /\ \A p, q \in w : p[1] = q[1] => p = q
  BY DEF IInv, Types, Job, Good, Wraps, Keeps, InTransaction, Pair
<1>2. \A u \in Pair(t) : Of(u) \in w /\ Of(u)[1] = u /\ Of(u)[2] \in Key
  BY <1>1, OneKey
<1>3. NewThread(t).wrapped = [u \in Pair(t) |-> Of(u)[2]]
  BY DEF NewThread
<1>4. \A u \in Pair(t) : <<u, Of(u)[2]>> = Of(u)
  BY <1>1, <1>2
<1> HIDE DEF Of, w
<1> QED BY <1>2, <1>3, <1>4 DEF w

LEMMA CommitStep ==
  ASSUME IInv, NEW t \in Task, Commit(t)
  PROVE  IInv'
<1> DEFINE keys == job[t].minted
           new == Len(threads) + 1
           j == [Idle EXCEPT !.author = job[t].author, !.peer = job[t].peer, !.thread = new]
<1>1. /\ pc[t] = "commit" /\ Good(t) /\ InTransaction(t) /\ job[t] \in Job
      /\ Pair(t) \subseteq users /\ Pair(t) \subseteq User
      /\ threads \in Seq(Conversation)
  BY DEF Commit, IInv, Types, InTransaction, Good, Keeps
<1>2. keys \in SUBSET (User \X Key) /\ \A p, q \in keys : p[1] = q[1] => p = q
  BY <1>1 DEF Job, Good, Keeps
<1>3. Store(keys) /\ threads' = Append(threads, NewThread(t)) /\ UNCHANGED <<users, made, messages>>
  BY DEF Commit
<1>4. NewThread(t).members = Pair(t) /\ NewThread(t).pair = Pair(t)
      /\ NewThread(t).wrapped \in [Pair(t) -> Key] /\ NewThread(t) \in Conversation
  <2>1. NewThread(t).wrapped \in [Pair(t) -> Key]
    BY <1>1, CopiesMade
  <2> QED BY <1>1, <2>1 DEF NewThread, Conversation
<1>5. /\ threads' \in Seq(Conversation) /\ Len(threads') = new
      /\ DOMAIN threads' = DOMAIN threads \cup {new} /\ threads'[new] = NewThread(t)
      /\ \A c \in DOMAIN threads : threads'[c] = threads[c]
  <2> HIDE DEF NewThread
  <2> QED BY <1>1, <1>3, <1>4, AppendProperties
<1>6. /\ j \in Job /\ j.author = job[t].author /\ j.peer = job[t].peer /\ j.thread = new
  <2>1. Idle \in Job
    BY DEF Idle, Job
  <2>2. new \in Nat
    BY <1>1
  <2> HIDE DEF new
  <2> QED BY <1>1, <2>1, <2>2 DEF Job
<1>7. job' = [job EXCEPT ![t] = j] /\ pc' = [pc EXCEPT ![t] = "dek"]
  BY <1>5 DEF Commit, Goto
<1> HIDE DEF j
<1>8. /\ job' \in [Task -> Job] /\ pc' \in [Task -> Label] /\ pc'[t] = "dek" /\ job'[t] = j
      /\ \A s \in Task \ {t} : pc'[s] = pc[s] /\ job'[s] = job[s]
  BY <1>6, <1>7 DEF IInv, Types, TypeOK, Label
<1>9. Types'
  <2>1. wrapKey' \in [User -> Key \cup {None}] /\ overwritten' \in SUBSET User
    BY <1>2, <1>3, StoreFacts DEF IInv
  <2>2. Len(threads') <= MaxThreads
    BY <1>1, <1>5, MessengerAssumption DEF Commit
  <2>3. \A c \in DOMAIN threads' :
          /\ threads'[c].pair \in SUBSET User
          /\ threads'[c].members \in SUBSET users'
          /\ threads'[c].wrapped \in [threads'[c].members -> Key]
    BY <1>1, <1>3, <1>4, <1>5 DEF IInv, Types, TypeOK
  <2>4. messages' \in SUBSET [thread : DOMAIN threads', author : users', peer : User]
    BY <1>3, <1>5 DEF IInv, Types, TypeOK
  <2>5. TypeOK'
    BY <1>3, <1>8, <2>1, <2>2, <2>3, <2>4 DEF IInv, Types, TypeOK
  <2>6. \A s \in Task : pc'[s] \notin {"idle", "seal"} => Pair(s)' \subseteq User
    BY <1>1, <1>6, <1>8 DEF IInv, Types, Pair
  <2> QED BY <1>5, <1>8, <2>5, <2>6 DEF Types
<1>10. /\ \A c \in DOMAIN threads : \A u \in threads'[c].members \ overwritten' :
             threads'[c].wrapped[u] = wrapKey'[u]
       /\ \A s \in Task : pc'[s] = pc[s] /\ job'[s] = job[s] => Good(s)'
  BY <1>2, <1>3, <1>5, StoreFrame
<1>11. MembersCanRead'
  <2>1. ASSUME NEW u \in Pair(t) \ overwritten' PROVE NewThread(t).wrapped[u] = wrapKey'[u]
    <3> DEFINE k == NewThread(t).wrapped[u]
    <3>1. <<u, k>> \in job[t].wrapped /\ k \in Key /\ u \in User
      BY <1>1, <2>1, CopiesMade
    <3>2. CASE <<u, k>> \in keys
      BY <1>2, <1>3, <3>2, StoreFacts DEF IInv
    <3>3. CASE u \in overwritten \/ wrapKey[u] = k
      <4>1. overwritten \subseteq overwritten'
        BY <1>2, <1>3, StoreFacts DEF IInv
      <4>2. wrapKey[u] = k => wrapKey'[u] = k \/ u \in overwritten'
        BY <1>2, <1>3, <3>1, StoreKeeps
      <4> QED BY <2>1, <3>3, <4>1, <4>2
    <3>4. <<u, k>> \in keys \/ u \in overwritten \/ wrapKey[u] = k
      <4> HIDE DEF k
      <4> QED BY <1>1, <3>1 DEF Good, Keeps
    <3> QED BY <3>2, <3>3, <3>4
  <2> QED BY <1>4, <1>5, <1>10, <2>1 DEF MembersCanRead, Opens
<1>12. MessagesPlaced'
  BY <1>3, <1>5 DEF IInv, Types, TypeOK, MessagesPlaced
<1>13. Good(t)'
  <2>1. Addresses(t)'
    BY <1>1, <1>3, <1>4, <1>5, <1>6, <1>8 DEF Addresses, Pair
  <2> QED BY <1>8, <2>1 DEF Good, Empty, Wraps, Keeps, InTransaction
<1> QED BY <1>8, <1>9, <1>10, <1>11, <1>12, <1>13 DEF IInv

LEMMA SealUserStep ==
  ASSUME IInv, NEW t \in Task, SealUser(t)
  PROVE  IInv'
<1>1. UNCHANGED <<threads, messages>>
  BY DEF SealUser
<1>2. CASE End(t) /\ UNCHANGED accounts
  BY <1>1, <1>2, EndStep, SameMessages DEF accounts
<1>3. CASE ~(End(t) /\ UNCHANGED accounts)
  <2>1. PICK u \in job[t].unkeyed :
          /\ u \in users /\ made < MaxKeys /\ made' = made + 1 /\ Store({<<u, made'>>})
          /\ job' = [job EXCEPT ![t].unkeyed = @ \ {u}]
          /\ UNCHANGED <<users, pc>>
    BY <1>3 DEF SealUser
  <2> DEFINE keys == {<<u, made'>>}
             j == [job[t] EXCEPT !.unkeyed = @ \ {u}]
  <2>2. made' \in Key /\ made' \in 0 .. MaxKeys /\ u \in User
    BY <2>1, MessengerAssumption DEF Key, IInv, Types, TypeOK
  <2>3. keys \in SUBSET (User \X Key) /\ \A p, q \in keys : p[1] = q[1] => p = q
    BY <2>2
  <2>4. job[t] \in Job /\ pc[t] = "seal"
    BY <1>3 DEF SealUser, IInv, Types
  <2>5. j \in Job
    BY <2>4 DEF Job
  <2>6. job' = [job EXCEPT ![t] = j]
    BY <2>1 DEF IInv, Types
  <2> HIDE DEF j
  <2>7. job' \in [Task -> Job] /\ \A s \in Task \ {t} : job'[s] = job[s]
    BY <2>5, <2>6 DEF IInv, Types
  <2> HIDE DEF keys
  <2>8. Store(keys) /\ pc' = pc /\ users' = users
    BY <2>1 DEF keys
  <2>9. wrapKey' \in [User -> Key \cup {None}] /\ overwritten' \in SUBSET User
    BY <2>3, <2>8, StoreFacts DEF IInv
  <2>10. Types'
    <3>1. TypeOK'
      BY <1>1, <2>2, <2>8, <2>9 DEF IInv, Types, TypeOK
    <3>2. \A s \in Task : pc'[s] \notin {"idle", "seal"} => Pair(s)' \subseteq User
      BY <2>4, <2>7, <2>8 DEF IInv, Types, Pair
    <3> QED BY <1>1, <2>7, <3>1, <3>2 DEF IInv, Types
  <2>11. /\ \A c \in DOMAIN threads : \A v \in threads'[c].members \ overwritten' :
              threads'[c].wrapped[v] = wrapKey'[v]
         /\ \A s \in Task : pc'[s] = pc[s] /\ job'[s] = job[s] => Good(s)'
    BY <1>1, <2>3, <2>8, StoreFrame
  <2>12. MembersCanRead' /\ MessagesPlaced'
    BY <1>1, <2>8, <2>11 DEF IInv, MembersCanRead, Opens, MessagesPlaced
  <2>13. Good(t)'
    BY <2>4, <2>8 DEF Good, Empty, Wraps, Keeps, Addresses, InTransaction
  <2> QED BY <2>7, <2>8, <2>10, <2>11, <2>12, <2>13 DEF IInv
<1> QED BY <1>2, <1>3

(***************************************************************************)
(* An account is not deleted while a transaction makes it a member, so     *)
(* what a transaction works on is not disturbed; everywhere else the user  *)
(* is gone from the members and from the users alike.                      *)
(***************************************************************************)
LEMMA DeleteAccountStep ==
  ASSUME IInv, NEW u \in User, DeleteAccount(u)
  PROVE  IInv'
<1>1. /\ users' = users \ {u}
      /\ wrapKey' = [wrapKey EXCEPT ![u] = None]
      /\ threads' = [c \in DOMAIN threads |-> CloseThread(threads[c], u)]
      /\ messages' = {m \in messages : m.author # u}
      /\ UNCHANGED <<made, overwritten, pc, job>>
  BY DEF DeleteAccount, tasks
<1>2. \A v \in User \ {u} : wrapKey'[v] = wrapKey[v]
  BY <1>1 DEF IInv, Types, TypeOK
<1>3. ASSUME NEW c \in DOMAIN threads
      PROVE  /\ threads'[c].pair = threads[c].pair
             /\ threads'[c].members = threads[c].members \ {u}
             /\ threads'[c].wrapped \in [threads[c].members \ {u} -> Key]
             /\ \A v \in threads[c].members \ {u} : threads'[c].wrapped[v] = threads[c].wrapped[v]
             /\ threads'[c] \in Conversation
  <2>1. threads[c] \in Conversation /\ threads[c].wrapped \in [threads[c].members -> Key]
    BY DEF IInv, Types, TypeOK
  <2>2. threads'[c] = CloseThread(threads[c], u)
    BY <1>1
  <2> DEFINE w == [m \in threads[c].members \ {u} |-> threads[c].wrapped[m]]
  <2>3. w \in [threads[c].members \ {u} -> Key] /\ threads[c].members \ {u} \in SUBSET User
    BY <2>1 DEF Conversation
  <2>4. /\ threads'[c].pair = threads[c].pair
        /\ threads'[c].members = threads[c].members \ {u}
        /\ threads'[c].wrapped = w
        /\ threads'[c] = [pair |-> threads[c].pair, members |-> threads[c].members \ {u},
                           wrapped |-> w]
    BY <2>1, <2>2 DEF CloseThread, Conversation
  <2>5. w \in UNION {[S -> Key] : S \in SUBSET User} /\ threads[c].pair \in SUBSET User
    BY <2>1, <2>3 DEF Conversation
  <2>6. threads'[c] \in Conversation
    <3> HIDE DEF w
    <3> QED BY <2>3, <2>4, <2>5 DEF Conversation
  <2> QED BY <2>3, <2>4, <2>6
<1>4. threads' \in Seq(Conversation) /\ DOMAIN threads' = DOMAIN threads /\ Len(threads') = Len(threads)
  <2>1. DOMAIN threads = 1 .. Len(threads) /\ Len(threads) \in Nat
    BY DEF IInv, Types
  <2>2. DOMAIN threads' = DOMAIN threads
    BY <1>1
  <2>3. threads' = [c \in 1 .. Len(threads) |-> threads'[c]]
    BY <1>1, <2>1
  <2>4. \A c \in 1 .. Len(threads) : threads'[c] \in Conversation
    BY <1>3, <2>1
  <2>5. threads' \in [1 .. Len(threads) -> Conversation]
    BY <2>3, <2>4
  <2>6. threads' \in Seq(Conversation)
    BY <2>1, <2>5
  <2> QED BY <2>1, <2>2, <2>6
<1>5. Types'
  <2>1. ASSUME NEW c \in DOMAIN threads'
        PROVE  /\ threads'[c].pair \in SUBSET User
               /\ threads'[c].members \in SUBSET users'
               /\ threads'[c].wrapped \in [threads'[c].members -> Key]
    <3>1. c \in DOMAIN threads
      BY <1>4
    <3>2. threads[c].pair \in SUBSET User /\ threads[c].members \in SUBSET users
      BY <3>1 DEF IInv, Types, TypeOK
    <3>3. /\ threads'[c].pair = threads[c].pair
          /\ threads'[c].members = threads[c].members \ {u}
          /\ threads'[c].wrapped \in [threads[c].members \ {u} -> Key]
      BY <1>3, <3>1
    <3> QED BY <1>1, <3>2, <3>3
  <2>2. messages' \in SUBSET [thread : DOMAIN threads', author : users', peer : User]
    BY <1>1, <1>4 DEF IInv, Types, TypeOK
  <2>3. wrapKey' \in [User -> Key \cup {None}]
    BY <1>1 DEF IInv, Types, TypeOK
  <2>4. TypeOK'
    BY <1>1, <1>4, <2>1, <2>2, <2>3 DEF IInv, Types, TypeOK
  <2>5. \A t \in Task : pc'[t] \notin {"idle", "seal"} => Pair(t)' \subseteq User
    BY <1>1 DEF IInv, Types, Pair
  <2> QED BY <1>1, <1>4, <2>4, <2>5 DEF IInv, Types
<1>6. MembersCanRead'
  <2>1. ASSUME NEW c \in DOMAIN threads, NEW v \in threads[c].members \ {u}, v \notin overwritten
        PROVE  threads'[c].wrapped[v] = wrapKey'[v]
    <3>1. v \in User \ {u} /\ threads[c].wrapped[v] = wrapKey[v]
      BY <2>1 DEF IInv, Types, TypeOK, MembersCanRead, Opens
    <3> QED BY <1>2, <1>3, <2>1, <3>1
  <2>2. ASSUME NEW c \in DOMAIN threads', NEW v \in threads'[c].members \ overwritten'
        PROVE  Opens(v, c)'
    <3>1. c \in DOMAIN threads /\ v \notin overwritten
      BY <1>1, <1>4, <2>2
    <3>2. v \in threads[c].members \ {u}
      BY <1>3, <2>2, <3>1
    <3> QED BY <2>1, <3>1, <3>2 DEF Opens
  <2> QED BY <2>2 DEF MembersCanRead
<1>7. MessagesPlaced'
  <2>1. ASSUME NEW m \in messages'
        PROVE  threads'[m.thread].members = {m.author, m.peer} \cap users'
    <3>1. m \in messages /\ m.thread \in DOMAIN threads
      BY <1>1 DEF IInv, Types, TypeOK
    <3>2. threads[m.thread].members = {m.author, m.peer} \cap users
      BY <3>1 DEF IInv, MessagesPlaced
    <3> QED BY <1>1, <1>3, <3>1, <3>2
  <2> QED BY <2>1 DEF MessagesPlaced
<1>8. ASSUME NEW t \in Task PROVE Good(t)'
  <2>1. Good(t) /\ Pair(t)' = Pair(t) /\ job[t] \in Job
    BY <1>1 DEF IInv, Types, Pair
  <2>2. Keeps(t)'
    <3>1. SUFFICES ASSUME InTransaction(t) PROVE Keeps(t)'
      BY <1>1 DEF Keeps, InTransaction
    <3>2. u \notin Pair(t)
      BY <3>1 DEF DeleteAccount, Cited
    <3>3. Owners(job[t].wrapped) \subseteq Pair(t)
      BY <2>1, <3>1 DEF Good, Wraps, InTransaction, Pair
    <3>4. \A p \in job[t].wrapped : p[1] \in User \ {u}
      BY <2>1, <3>2, <3>3 DEF Owners, Job
    <3>5. Keeps(t)
      BY <2>1 DEF Good
    <3> QED BY <1>1, <1>2, <2>1, <3>1, <3>2, <3>4, <3>5 DEF Keeps, InTransaction
  <2>3. Addresses(t)'
    <3> SUFFICES ASSUME pc[t] \in {"dek", "unwrap", "insert"}
                 PROVE  /\ job[t].thread \in DOMAIN threads'
                        /\ threads'[job[t].thread].members = Pair(t) \cap users'
      BY <1>1, <2>1 DEF Addresses
    <3>1. job[t].thread \in DOMAIN threads
          /\ threads[job[t].thread].members = Pair(t) \cap users
      BY <2>1 DEF Good, Addresses
    <3>2. threads'[job[t].thread].members = threads[job[t].thread].members \ {u}
      BY <1>3, <3>1
    <3> QED BY <1>1, <1>4, <3>1, <3>2
  <2> QED BY <1>1, <2>1, <2>2, <2>3 DEF Good, Empty, Wraps
<1> QED BY <1>5, <1>6, <1>7, <1>8 DEF IInv

-----------------------------------------------------------------------------
LEMMA NextIInv == IInv /\ [Next]_vars => IInv'
<1> SUFFICES ASSUME IInv, [Next]_vars PROVE IInv'
  OBVIOUS
<1>1. ASSUME NEW t \in Task, NEW a \in User, NEW b \in User, Send(t, a, b) PROVE IInv'
  BY <1>1, SendStep
<1>2. ASSUME NEW t \in Task, StartProtecting(t) PROVE IInv'
  BY <1>2, StartProtectingStep
<1>3. ASSUME NEW t \in Task, Step(t) PROVE IInv'
  BY <1>3, FindStep, InsertThreadStep, ReadWrapKeyStep, MintWrapKeyStep, BreakDeadlockStep,
     CommitStep, ReadDekStep, UnwrapStep, InsertMessageStep, SealUserStep, DropStep DEF Step
<1>4. ASSUME NEW u \in User, DeleteAccount(u) PROVE IInv'
  BY <1>4, DeleteAccountStep
<1>5. CASE UNCHANGED vars
  <2>1. Types' /\ MembersCanRead' /\ MessagesPlaced'
    BY <1>5 DEF vars, IInv, Types, TypeOK, Pair, MembersCanRead, Opens, MessagesPlaced
  <2>2. \A t \in Task : Good(t)'
    BY <1>5 DEF vars, IInv, Good, Empty, Wraps, Keeps, Addresses, InTransaction, Pair
  <2> QED BY <2>1, <2>2 DEF IInv
<1> QED BY <1>1, <1>2, <1>3, <1>4, <1>5 DEF Next

LEMMA Inductive == Spec => []IInv
  BY InitIInv, NextIInv, PTL DEF Spec

(***************************************************************************)
(* Rows and jobs have their types, and the foreign keys hold: members and  *)
(* authors have accounts, and messages are in conversations there are.     *)
(***************************************************************************)
THEOREM TypesHold == Spec => []TypeOK
  BY Inductive, PTL DEF IInv, Types

(***************************************************************************)
(* However many requests create conversations while replicas start and     *)
(* accounts are deleted, each member can open each conversation unless a   *)
(* later writer replaced the wrap key of that member.                      *)
(***************************************************************************)
THEOREM MembersRead == Spec => []MembersCanRead
  BY Inductive, PTL DEF IInv

(***************************************************************************)
(* A message that is placed is found by the two it is between.             *)
(***************************************************************************)
LEMMA PlacedIsRead == IInv => ReadersArePair
<1> SUFFICES ASSUME IInv, NEW m \in messages
             PROVE  /\ threads[m.thread].members = {m.author, m.peer} \cap users
                    /\ \A u, p \in {m.author, m.peer} \cap users :
                         {u, p} = {m.author, m.peer} /\ u \notin overwritten =>
                           /\ m \in Thread(u, p, m.thread)
                           /\ u # p => <<m.thread, p>> \in Inbox(u)
  BY DEF ReadersArePair
<1>1. /\ threads[m.thread].members = {m.author, m.peer} \cap users
      /\ m.thread \in DOMAIN threads /\ users \subseteq User
  BY DEF IInv, MessagesPlaced, Types, TypeOK
<1>2. ASSUME NEW u \in {m.author, m.peer} \cap users, NEW p \in {m.author, m.peer} \cap users,
             {u, p} = {m.author, m.peer}, u \notin overwritten
      PROVE  m \in Thread(u, p, m.thread) /\ (u # p => <<m.thread, p>> \in Inbox(u))
  <2>1. threads[m.thread].members = {u, p}
    BY <1>1, <1>2
  <2>2. m.thread \in Direct(u, p) /\ Opens(u, m.thread)
    BY <1>1, <1>2, <2>1 DEF Direct, IInv, MembersCanRead
  <2>3. u # p => <<m.thread, p>> \in (DOMAIN threads) \X (User \ {u})
    BY <1>1, <1>2
  <2> QED BY <2>1, <2>2, <2>3 DEF Thread, Inbox
<1> QED BY <1>1, <1>2

(***************************************************************************)
(* A message stays between the two it was written by and for, and each of  *)
(* them finds it, however the lookup, the creation of the conversation,    *)
(* the insertion and the deletion of accounts interleave.                  *)
(***************************************************************************)
THEOREM ReadersPaired == Spec => []ReadersArePair
  BY Inductive, PlacedIsRead, PTL
=============================================================================
