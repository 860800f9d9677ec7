------------------------------ MODULE Messenger ------------------------------
(***************************************************************************)
(* Direct messages (src/modules/messenger) and the keys they are sealed    *)
(* with.  A conversation has a key of its own (the DEK), kept once for     *)
(* each member, wrapped with the member's wrap key, which is in the row of *)
(* the user.  Sending looks the conversation of the two up and creates it, *)
(* in a transaction, if there is none; an account from before the keys has *)
(* no wrap key, and the first conversation or the next start of a replica  *)
(* (protect_stored_pii) gives it one.                                      *)
(*                                                                         *)
(* An action is one SQL statement, or one that only the transaction sees   *)
(* together with the next; what a transaction wrote is in its job until it *)
(* commits.  Privacy, which may refuse a message before the first          *)
(* statement, and texts are left out.                                      *)
(***************************************************************************)
EXTENDS Integers, Sequences, FiniteSets

CONSTANTS
  User,
  Legacy,       \* users whose account is older than the wrap keys
  Task,         \* requests, and starts of replicas, that run at once
  MaxThreads,   \* bound: conversations created
  MaxKeys,      \* bound: wrap keys made
  None

ASSUME MessengerAssumption ==
  /\ Legacy \subseteq User
  /\ MaxThreads \in Nat /\ MaxKeys \in Nat
  /\ None \notin Int

Key == 0 .. MaxKeys   \* wrap keys; every account that is not old has key 0, its own

VARIABLES
  users,        \* the users that have a row
  wrapKey,      \* users.wrap_key
  made,         \* wrap keys made so far
  threads,      \* conversations, members and keys: [pair, members, wrapped]
  messages,     \* messages, without their texts: [thread, author, peer]
  pc, job,      \* the next statement of a task, and what it works on
  overwritten   \* history: users whose wrap key was replaced by another

accounts == <<users, wrapKey, made, overwritten>>
tasks == <<pc, job>>
vars == <<users, wrapKey, made, threads, messages, pc, job, overwritten>>

Idle == [author |-> None, peer |-> None, thread |-> None, sealed |-> None,
         left |-> <<>>, minted |-> {}, wrapped |-> {}, unkeyed |-> {}]

Init ==
  /\ users = User
  /\ wrapKey = [u \in User |-> IF u \in Legacy THEN None ELSE 0]
  /\ made = 0
  /\ threads = <<>> /\ messages = {}
  /\ pc = [t \in Task |-> "idle"] /\ job = [t \in Task |-> Idle]
  /\ overwritten = {}

Goto(t, label) == pc' = [pc EXCEPT ![t] = label]
End(t) == Goto(t, "idle") /\ job' = [job EXCEPT ![t] = Idle]

Pair(t) == {job[t].author, job[t].peer}

InTransaction(t) == pc[t] \in {"wrapKey", "mint", "commit"}

(***************************************************************************)
(* A row of users is locked by the transaction that gave it a key; a       *)
(* transaction that made it a member keeps it from being deleted.          *)
(***************************************************************************)
Locked(u, t) ==
  \E s \in Task \ {t} : InTransaction(s) /\ \E k \in Key : <<u, k>> \in job[s].minted

Cited(u) == \E s \in Task : InTransaction(s) /\ u \in Pair(s)

-----------------------------------------------------------------------------
(***************************************************************************)
(* Sending, up to the conversation: any conversation whose members are the *)
(* two, or the user alone for notes to oneself.  LIMIT 1 has no ORDER BY.  *)
(***************************************************************************)
Direct(a, b) == {c \in DOMAIN threads : threads[c].members = {a, b}}

Send(t, a, b) ==
  /\ pc[t] = "idle"
  /\ a \in users /\ b \in users
  /\ job' = [job EXCEPT ![t] = [Idle EXCEPT !.author = a, !.peer = b]]
  /\ Goto(t, "find")
  /\ UNCHANGED <<accounts, threads, messages>>

(* Mistake: it is enough that the two are members. *)
FindAmong(t) ==
  LET found == {c \in DOMAIN threads : Pair(t) \subseteq threads[c].members}
  IN /\ pc[t] = "find"
     /\ \/ \E c \in found : job' = [job EXCEPT ![t].thread = c] /\ Goto(t, "dek")
        \/ found = {} /\ Goto(t, "create") /\ UNCHANGED job
     /\ UNCHANGED <<accounts, threads, messages>>

FindDirect(t) ==
  LET found == Direct(job[t].author, job[t].peer)
  IN /\ pc[t] = "find"
     /\ \/ \E c \in found : job' = [job EXCEPT ![t].thread = c] /\ Goto(t, "dek")
        \/ found = {} /\ Goto(t, "create") /\ UNCHANGED job
     /\ UNCHANGED <<accounts, threads, messages>>

-----------------------------------------------------------------------------
(***************************************************************************)
(* Creating the conversation: it and its members, for whom there must be   *)
(* rows, then for each member the key, wrapped with a wrap key that is     *)
(* read and, when there is none, made.                                     *)
(***************************************************************************)
InsertThread(t) ==
  /\ pc[t] = "create"
  /\ \/ /\ Pair(t) \subseteq users
        /\ job' = [job EXCEPT ![t].left =
                     IF job[t].author = job[t].peer THEN <<job[t].author>>
                     ELSE <<job[t].author, job[t].peer>>]
        /\ Goto(t, "wrapKey")
     \/ ~(Pair(t) \subseteq users) /\ End(t)
  /\ UNCHANGED <<accounts, threads, messages>>

Wrap(t, u, k) ==
  /\ job' = [job EXCEPT ![t].left = Tail(@), ![t].wrapped = @ \cup {<<u, k>>}]
  /\ Goto(t, IF Len(job[t].left) = 1 THEN "commit" ELSE "wrapKey")

ReadWrapKey(t) ==
  LET u == Head(job[t].left)
  IN /\ pc[t] = "wrapKey"
     /\ IF wrapKey[u] = None THEN Goto(t, "mint") /\ UNCHANGED job
                             ELSE Wrap(t, u, wrapKey[u])
     /\ UNCHANGED <<accounts, threads, messages>>

MintWrapKey(t) ==
  LET u == Head(job[t].left)
  IN /\ pc[t] = "mint"
     /\ ~Locked(u, t)
     /\ made < MaxKeys
     /\ made' = made + 1
     /\ job' = [job EXCEPT ![t].minted = @ \cup {<<u, made'>>},
                           ![t].left = Tail(@),
                           ![t].wrapped = @ \cup {<<u, made'>>}]
     /\ Goto(t, IF Len(job[t].left) = 1 THEN "commit" ELSE "wrapKey")
     /\ UNCHANGED <<users, wrapKey, overwritten, threads, messages>>

(***************************************************************************)
(* Two transactions that wait for each other's row: Postgres ends one.     *)
(***************************************************************************)
BreakDeadlock(t) ==
  /\ pc[t] = "mint"
  /\ \E s \in Task \ {t} :
       /\ pc[s] = "mint"
       /\ \E k \in Key : <<Head(job[t].left), k>> \in job[s].minted
       /\ \E k \in Key : <<Head(job[s].left), k>> \in job[t].minted
  /\ End(t)
  /\ UNCHANGED <<accounts, threads, messages>>

Store(keys) ==   \* keys: pairs of a user and a wrap key
  LET owners == {p[1] : p \in keys}
  IN /\ wrapKey' = [u \in User |-> IF u \in owners THEN (CHOOSE p \in keys : p[1] = u)[2]
                                                   ELSE wrapKey[u]]
     /\ overwritten' = overwritten \cup {u \in owners : wrapKey[u] # None}

NewThread(t) ==
  [pair |-> Pair(t), members |-> Pair(t),
   wrapped |-> [u \in Pair(t) |-> (CHOOSE p \in job[t].wrapped : p[1] = u)[2]]]

(* Mistake: the wrap keys are made and not kept. *)
CommitThreadOnly(t) ==
  /\ pc[t] = "commit"
  /\ Len(threads) < MaxThreads
  /\ threads' = Append(threads, NewThread(t))
  /\ job' = [job EXCEPT ![t] =
               [Idle EXCEPT !.author = job[t].author, !.peer = job[t].peer,
                            !.thread = Len(threads')]]
  /\ Goto(t, "dek")
  /\ UNCHANGED <<accounts, messages>>

Commit(t) ==
  /\ pc[t] = "commit"
  /\ Len(threads) < MaxThreads
  /\ threads' = Append(threads, NewThread(t))
  /\ Store(job[t].minted)
  /\ job' = [job EXCEPT ![t] =
               [Idle EXCEPT !.author = job[t].author, !.peer = job[t].peer,
                            !.thread = Len(threads')]]
  /\ Goto(t, "dek")
  /\ UNCHANGED <<users, made, messages>>

-----------------------------------------------------------------------------
(***************************************************************************)
(* The message: the author's copy of the key is read, then the author's    *)
(* wrap key, which opens it or does not, and the message is inserted.      *)
(***************************************************************************)
ReadDek(t) ==
  LET thread == threads[job[t].thread]
  IN /\ pc[t] = "dek"
     /\ \/ /\ job[t].author \in thread.members
           /\ job' = [job EXCEPT ![t].sealed = thread.wrapped[job[t].author]]
           /\ Goto(t, "unwrap")
        \/ job[t].author \notin thread.members /\ End(t)
     /\ UNCHANGED <<accounts, threads, messages>>

Unwrap(t) ==
  /\ pc[t] = "unwrap"
  /\ IF job[t].author \in users /\ wrapKey[job[t].author] = job[t].sealed
       THEN Goto(t, "insert") /\ UNCHANGED job
       ELSE End(t)
  /\ UNCHANGED <<accounts, threads, messages>>

InsertMessage(t) ==
  /\ pc[t] = "insert"
  /\ messages' = IF job[t].author \in users
                   THEN messages \cup {[thread |-> job[t].thread, author |-> job[t].author,
                                        peer |-> job[t].peer]}
                   ELSE messages
  /\ End(t)
  /\ UNCHANGED <<accounts, threads>>

-----------------------------------------------------------------------------
(***************************************************************************)
(* What is read: the messages of the conversation that is found for the    *)
(* two, and the conversations with somebody else in which anything was     *)
(* written.  Each is opened as above, and the inbox fails with one.        *)
(***************************************************************************)
Opens(u, c) == threads[c].wrapped[u] = wrapKey[u]

Thread(u, p, c) ==
  IF c \in Direct(u, p) /\ Opens(u, c) THEN {m \in messages : m.thread = c} ELSE {}

Inbox(u) ==
  {e \in (DOMAIN threads) \X (User \ {u}) :
     {u, e[2]} \subseteq threads[e[1]].members /\ \E m \in messages : m.thread = e[1]}

-----------------------------------------------------------------------------
(***************************************************************************)
(* The start of a replica reads all users and then gives a wrap key, one   *)
(* statement each, to those that had none; it fails at one that is gone.   *)
(***************************************************************************)
StartProtecting(t) ==
  LET unkeyed == {u \in users : wrapKey[u] = None}
  IN /\ pc[t] = "idle"
     /\ unkeyed # {}
     /\ job' = [job EXCEPT ![t] = [Idle EXCEPT !.unkeyed = unkeyed]]
     /\ Goto(t, "seal")
     /\ UNCHANGED <<accounts, threads, messages>>

SealUser(t) ==
  /\ pc[t] = "seal"
  /\ \/ job[t].unkeyed = {} /\ End(t) /\ UNCHANGED accounts
     \/ \E u \in job[t].unkeyed :
          \/ /\ u \in users /\ ~Locked(u, t)
             /\ made < MaxKeys
             /\ made' = made + 1
             /\ Store({<<u, made'>>})
             /\ job' = [job EXCEPT ![t].unkeyed = @ \ {u}]
             /\ UNCHANGED <<users, pc>>
          \/ u \notin users /\ End(t) /\ UNCHANGED accounts
  /\ UNCHANGED <<threads, messages>>

(***************************************************************************)
(* The rows of a user go with the account: memberships, copies of keys and *)
(* messages.  The conversation stays, with the other member or none.       *)
(***************************************************************************)
CloseThread(c, u) ==
  [c EXCEPT !.members = @ \ {u}, !.wrapped = [m \in c.members \ {u} |-> c.wrapped[m]]]

DeleteAccount(u) ==
  /\ u \in users /\ ~Cited(u)
  /\ users' = users \ {u}
  /\ wrapKey' = [wrapKey EXCEPT ![u] = None]
  /\ threads' = [c \in DOMAIN threads |-> CloseThread(threads[c], u)]
  /\ messages' = {m \in messages : m.author # u}
  /\ UNCHANGED <<made, overwritten, tasks>>

Drop(t) ==   \* the request fails or its task is dropped, the transaction rolled back
  /\ pc[t] # "idle"
  /\ End(t)
  /\ UNCHANGED <<accounts, threads, messages>>

Step(t) ==
  \/ FindDirect(t) \/ InsertThread(t) \/ ReadWrapKey(t) \/ MintWrapKey(t)
  \/ BreakDeadlock(t) \/ Commit(t) \/ ReadDek(t) \/ Unwrap(t) \/ InsertMessage(t)
  \/ SealUser(t) \/ Drop(t)

Next ==
  \/ \E t \in Task : \/ \E a, b \in User : Send(t, a, b)
                     \/ StartProtecting(t)
                     \/ Step(t)
  \/ \E u \in User : DeleteAccount(u)

Spec == Init /\ [][Next]_vars

-----------------------------------------------------------------------------
Label == {"idle", "find", "create", "wrapKey", "mint", "commit", "dek", "unwrap",
          "insert", "seal"}

(***************************************************************************)
(* The types, and what the foreign keys say.                               *)
(***************************************************************************)
TypeOK ==
  /\ users \in SUBSET User
  /\ wrapKey \in [User -> Key \cup {None}] /\ made \in 0 .. MaxKeys
  /\ Len(threads) <= MaxThreads
  /\ \A c \in DOMAIN threads :
       /\ threads[c].pair \in SUBSET User
       /\ threads[c].members \in SUBSET users
       /\ threads[c].wrapped \in [threads[c].members -> Key]
  /\ messages \in SUBSET [thread : DOMAIN threads, author : users, peer : User]
  /\ pc \in [Task -> Label]
  /\ overwritten \in SUBSET User

(***************************************************************************)
(* Every member of a conversation can open it: the key the copy of the DEK *)
(* was wrapped with is the one in the row of the user, whatever failed or  *)
(* was rolled back on the way, unless two requests made a wrap key for the *)
(* user at once, or a start and a request: the later one replaces the key. *)
(***************************************************************************)
MembersCanRead ==
  \A c \in DOMAIN threads : \A u \in threads[c].members \ overwritten : Opens(u, c)

(***************************************************************************)
(* A message is kept where its author and the one it is for, as far as     *)
(* they still have an account, are the members and nobody else is, also    *)
(* when accounts are deleted while it is sent and when a note to oneself   *)
(* ends up in the conversation with somebody who has left; and each of     *)
(* them finds it under the other's name.                                   *)
(***************************************************************************)
ReadersArePair ==
  \A m \in messages :
    /\ threads[m.thread].members = {m.author, m.peer} \cap users
    /\ \A u, p \in {m.author, m.peer} \cap users :
         {u, p} = {m.author, m.peer} /\ u \notin overwritten =>
           /\ m \in Thread(u, p, m.thread)
           /\ u # p => <<m.thread, p>> \in Inbox(u)

=============================================================================
