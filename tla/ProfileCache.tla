---------------------------- MODULE ProfileCache ----------------------------
(***************************************************************************)
(* One user's profile, a ban included, and its copies: the row in          *)
(* Postgres, the entry "user:<id>" in Redis, and one moka cache per        *)
(* replica (src/cache.rs, src/state.rs, src/modules/users/services).       *)
(* Requests run as tasks that may be suspended between any two accesses;   *)
(* Redis is best effort.                                                   *)
(*                                                                         *)
(* The contents of a row are its version: the n-th write makes it n.       *)
(* Time advances by ticks.  A cached entry lives at most Ttl ticks from    *)
(* its insertion, a request takes at most Patience ticks.                  *)
(***************************************************************************)
EXTENDS Integers

CONSTANTS
  Replica,    \* server processes
  Task,       \* bound: requests for the profile that run at once
  MaxWrites,  \* bound: writes of the row
  Ttl,        \* ticks an entry lives, USER_CACHE_TTL and USER_TTL_SECS
  Patience,   \* ticks a request may take
  None

ASSUME ProfileCacheAssumption ==
  /\ MaxWrites \in Nat /\ Ttl \in Nat /\ Patience \in Nat
  /\ None \notin Nat

VARIABLES
  stored,     \* version of the row
  deleted,    \* the row was deleted
  local,      \* local[p]: the entry in the cache of replica p
  redis,      \* the entry in Redis
  pc, at, copy,   \* pc[t]; the replica t runs on; the profile t carries
  answer,     \* the version t answered with
  lost,       \* history: lost[n]: ticks since version n was overwritten
  spent,      \* history: ticks since t began
  wrote,      \* history: the version t wrote
  crossed     \* history: since t wrote, somebody else filled a cache t looks
              \* at, or Redis skipped one of t's own calls

disk == <<stored, deleted>>
task == <<pc, at, copy, answer>>
history == <<lost, spent, wrote, crossed>>
vars == <<stored, deleted, local, redis, pc, at, copy, answer,
          lost, spent, wrote, crossed>>

Version == 0 .. MaxWrites
Entry == [row : Version, left : 0 .. Ttl]
Horizon == 2 * Ttl + 3 * Patience + 1   \* ages are not counted beyond this

Init ==
  /\ stored = 0 /\ deleted = FALSE
  /\ local = [p \in Replica |-> None] /\ redis = None
  /\ pc = [t \in Task |-> "idle"]
  /\ at \in [Task -> Replica]
  /\ copy = [t \in Task |-> 0]
  /\ answer = [t \in Task |-> None]
  /\ lost = [n \in Version |-> 0]
  /\ spent = [t \in Task |-> 0]
  /\ wrote = [t \in Task |-> None]
  /\ crossed = [t \in Task |-> FALSE]

Goto(t, label) == pc' = [pc EXCEPT ![t] = label]

Fresh(n) == [row |-> n, left |-> Ttl]

(***************************************************************************)
(* Who is crossed when t fills the cache of its replica, or Redis.         *)
(***************************************************************************)
Cross(t, cached) ==
  crossed' = [u \in Task |->
                crossed[u] \/ (u # t /\ wrote[u] # None
                               /\ (cached = "redis" \/ at[u] = at[t]))]

FillLocal(t) ==
  /\ local' = [local EXCEPT ![at[t]] = Fresh(copy[t])]
  /\ Cross(t, "local")
  /\ UNCHANGED <<disk, redis, at, lost, spent, wrote>>

Finish(t, n) ==
  /\ Goto(t, "idle")
  /\ answer' = [answer EXCEPT ![t] = n]

-----------------------------------------------------------------------------
(***************************************************************************)
(* A request arrives: to read the profile, to change it and cache the      *)
(* result (update_account, upload_avatar), to change it and reload it (a   *)
(* ban, a gift, a voucher, ...), to lift a ban that is over, which         *)
(* self_unban does when it has read the profile and authenticate does when *)
(* it has read the row, or to delete the account.                          *)
(***************************************************************************)
Entrance == {"read", "update", "change", "login", "delete"}

Begin(t, p, first) ==
  /\ pc[t] = "idle"
  /\ Goto(t, first)
  /\ at' = [at EXCEPT ![t] = p]
  /\ answer' = [answer EXCEPT ![t] = None]
  /\ wrote' = [wrote EXCEPT ![t] = None]
  /\ crossed' = [crossed EXCEPT ![t] = FALSE]
  /\ spent' = [spent EXCEPT ![t] = 0]
  /\ UNCHANGED <<disk, local, redis, copy, lost>>

(***************************************************************************)
(* UPDATE users: the row count tells whether there was a row.  To lift a   *)
(* ban is an UPDATE as any other: it does not ask what is in the row by    *)
(* now.  A login leaves the caches alone.                                  *)
(***************************************************************************)
Write(t) ==
  /\ pc[t] \in {"update", "change", "lift", "liftAtLogin"}
  /\ \/ /\ ~deleted /\ stored < MaxWrites
        /\ stored' = stored + 1
        /\ copy' = [copy EXCEPT ![t] = stored + 1]
        /\ wrote' = [wrote EXCEPT ![t] = stored + 1]
        /\ \/ pc[t] = "update" /\ Goto(t, "put")
           \/ pc[t] \in {"change", "lift"} /\ Goto(t, "forget")
           \/ pc[t] = "liftAtLogin" /\ Goto(t, "idle")
        /\ UNCHANGED answer
     \/ /\ deleted
        /\ Finish(t, None)
        /\ UNCHANGED <<stored, copy, wrote>>
  /\ UNCHANGED <<deleted, local, redis, at, lost, spent, crossed>>

Delete(t) ==
  /\ pc[t] = "delete"
  /\ deleted' = TRUE
  /\ Goto(t, IF deleted THEN "idle" ELSE "forgetDeleted")
  /\ UNCHANGED <<stored, local, redis, at, copy, answer, history>>

(***************************************************************************)
(* update_account and replace_cached_user put what they wrote into the     *)
(* local cache, then drop and set the entry in Redis.                      *)
(***************************************************************************)
Put(t) ==
  /\ pc[t] = "put"
  /\ FillLocal(t)
  /\ Goto(t, "dropThenShare")
  /\ UNCHANGED <<copy, answer>>

(* Mistake: reload relies on Redis alone. *)
ForgetNothing(t) ==
  /\ pc[t] \in {"forget", "forgetDeleted"}
  /\ Goto(t, IF pc[t] = "forget" THEN "dropThenRead" ELSE "dropThenEnd")
  /\ UNCHANGED <<disk, local, redis, at, copy, answer, history>>

(***************************************************************************)
(* reload and delete_account invalidate the local entry, then Redis's.     *)
(***************************************************************************)
Forget(t) ==
  /\ pc[t] \in {"forget", "forgetDeleted"}
  /\ local' = [local EXCEPT ![at[t]] = None]
  /\ Goto(t, IF pc[t] = "forget" THEN "dropThenRead" ELSE "dropThenEnd")
  /\ UNCHANGED <<disk, redis, at, copy, answer, history>>

DropRedis(t) ==
  /\ \/ pc[t] = "dropThenShare" /\ Goto(t, "share")
     \/ pc[t] = "dropThenRead" /\ Goto(t, "read")
     \/ pc[t] = "dropThenEnd" /\ Goto(t, "idle")
  /\ \/ redis' = None /\ UNCHANGED crossed
     \/ UNCHANGED redis /\ crossed' = [crossed EXCEPT ![t] = TRUE]
  /\ UNCHANGED <<disk, local, at, copy, answer, lost, spent, wrote>>

(* Mistake: the login believes the profile in the cache of its replica. *)
AuthenticateFromCache(t) ==
  /\ pc[t] = "login"
  /\ \/ Goto(t, "idle") /\ UNCHANGED copy
     \/ /\ local[at[t]] # None
        /\ Goto(t, "liftAtLogin")
        /\ copy' = [copy EXCEPT ![t] = local[at[t]].row]
  /\ UNCHANGED <<disk, local, redis, at, answer, history>>

(***************************************************************************)
(* authenticate looks at the row, and lifts the ban it sees there if its   *)
(* time is over.                                                           *)
(***************************************************************************)
Authenticate(t) ==
  /\ pc[t] = "login"
  /\ \/ Goto(t, "idle") /\ UNCHANGED copy
     \/ ~deleted /\ Goto(t, "liftAtLogin") /\ copy' = [copy EXCEPT ![t] = stored]
  /\ UNCHANGED <<disk, local, redis, at, answer, history>>

(***************************************************************************)
(* A lookup is answered with version n.  If it was self_unban's and n has  *)
(* a ban whose time is over, the ban is lifted.  Who has changed the       *)
(* profile and reloads it only answers.                                    *)
(***************************************************************************)
Serve(t, n) ==
  \/ Finish(t, n) /\ UNCHANGED copy
  \/ /\ wrote[t] = None
     /\ Goto(t, "lift")
     /\ copy' = [copy EXCEPT ![t] = n]
     /\ UNCHANGED answer

(***************************************************************************)
(* get_profile_by_key reads the row before it looks at any cache.          *)
(***************************************************************************)
ReadRow(t) ==
  /\ pc[t] = "read"
  /\ \/ deleted /\ Finish(t, None) /\ UNCHANGED copy
     \/ /\ ~deleted
        /\ copy' = [copy EXCEPT ![t] = stored]
        /\ Goto(t, "lookLocal")
        /\ UNCHANGED answer
  /\ UNCHANGED <<disk, local, redis, at, history>>

(* Mistake: a hit in the local cache refreshes the entry in Redis. *)
LookLocalRefreshing(t) ==
  /\ pc[t] = "lookLocal"
  /\ \/ /\ local[at[t]] # None
        /\ Serve(t, local[at[t]].row)
        /\ redis' = Fresh(local[at[t]].row)
     \/ local[at[t]] = None /\ Goto(t, "lookRedis") /\ UNCHANGED <<copy, answer, redis>>
  /\ UNCHANGED <<disk, local, at, history>>

LookLocal(t) ==
  /\ pc[t] = "lookLocal"
  /\ \/ local[at[t]] # None /\ Serve(t, local[at[t]].row)
     \/ local[at[t]] = None /\ Goto(t, "lookRedis") /\ UNCHANGED <<copy, answer>>
  /\ UNCHANGED <<disk, local, redis, at, history>>

LookRedis(t) ==
  /\ pc[t] = "lookRedis"
  /\ \/ /\ redis # None
        /\ copy' = [copy EXCEPT ![t] = redis.row]
        /\ Goto(t, "keep")
     \/ UNCHANGED copy /\ Goto(t, "fill")
  /\ UNCHANGED <<disk, local, redis, at, answer, history>>

Keep(t) ==
  /\ pc[t] = "keep"
  /\ FillLocal(t)
  /\ Serve(t, copy[t])

Fill(t) ==
  /\ pc[t] = "fill"
  /\ FillLocal(t)
  /\ Goto(t, "share")
  /\ UNCHANGED <<copy, answer>>

Share(t) ==
  /\ pc[t] = "share"
  /\ Serve(t, copy[t])
  /\ \/ redis' = Fresh(copy[t]) /\ Cross(t, "redis")
     \/ UNCHANGED <<redis, crossed>>
  /\ UNCHANGED <<disk, local, at, lost, spent, wrote>>

(***************************************************************************)
(* The client disconnects or the replica stops.                            *)
(***************************************************************************)
Drop(t) ==
  /\ pc[t] # "idle"
  /\ Goto(t, "idle")
  /\ UNCHANGED <<disk, local, redis, at, copy, answer, history>>

-----------------------------------------------------------------------------
(***************************************************************************)
(* Entries go early when a cache is full and when its process restarts,    *)
(* and at the latest when their time is over.                              *)
(***************************************************************************)
Evict ==
  /\ \/ \E p \in Replica : local' = [local EXCEPT ![p] = None] /\ UNCHANGED redis
     \/ redis' = None /\ UNCHANGED local
  /\ UNCHANGED <<disk, task, history>>

Older(e) ==
  IF e = None \/ e.left = 0 THEN None ELSE [e EXCEPT !.left = @ - 1]

Tick ==
  /\ \A t \in Task : pc[t] # "idle" => spent[t] < Patience
  /\ local' = [p \in Replica |-> Older(local[p])]
  /\ redis' = Older(redis)
  /\ lost' = [n \in Version |->
                IF (n < stored \/ deleted) /\ lost[n] < Horizon
                  THEN lost[n] + 1 ELSE lost[n]]
  /\ spent' = [t \in Task |-> IF pc[t] = "idle" THEN 0 ELSE spent[t] + 1]
  /\ UNCHANGED <<disk, task, wrote, crossed>>

Step(t) ==
  \/ Write(t) \/ Delete(t) \/ Put(t) \/ Forget(t) \/ DropRedis(t)
  \/ Authenticate(t) \/ ReadRow(t) \/ LookLocal(t) \/ LookRedis(t)
  \/ Keep(t) \/ Fill(t) \/ Share(t) \/ Drop(t)

Next ==
  \/ \E t \in Task, p \in Replica :
       \E first \in Entrance : Begin(t, p, first)
  \/ \E t \in Task : Step(t)
  \/ Evict
  \/ Tick

Spec == Init /\ [][Next]_vars

-----------------------------------------------------------------------------
Label == Entrance \cup
  {"idle", "lift", "liftAtLogin", "lookLocal", "lookRedis", "keep", "fill", "share", "put", "forget",
   "forgetDeleted", "dropThenShare", "dropThenRead", "dropThenEnd"}

TypeOK ==
  /\ stored \in Version /\ deleted \in BOOLEAN
  /\ local \in [Replica -> Entry \cup {None}]
  /\ redis \in Entry \cup {None}
  /\ pc \in [Task -> Label] /\ at \in [Task -> Replica]
  /\ copy \in [Task -> Version]
  /\ answer \in [Task -> Version \cup {None}]
  /\ lost \in [Version -> 0 .. Horizon]
  /\ spent \in [Task -> 0 .. Patience]

(***************************************************************************)
(* However lookups and writes interleave, and whatever Redis skips, an     *)
(* entry in Redis was the stored profile no longer than one lifetime and   *)
(* one request ago, and a copy in a replica, which may have been taken     *)
(* from Redis at the last moment, no longer than twice that (about a       *)
(* minute).  Nothing but the short lifetimes bounds the staleness: there   *)
(* is no invalidation across replicas.                                     *)
(***************************************************************************)
BoundedStaleness ==
  /\ redis # None => lost[redis.row] <= Ttl + Patience
  /\ \A p \in Replica :
       local[p] # None => lost[local[p].row] <= 2 * (Ttl + Patience)

(***************************************************************************)
(* A change that reloads the profile answers with its own effect, unless   *)
(* somebody filled one of the two caches in between, or Redis skipped the  *)
(* invalidation: reload leaves no other way to a stale answer.             *)
(***************************************************************************)
UncrossedAnswerIsFresh ==
  \A t \in Task :
    wrote[t] # None /\ answer[t] # None /\ ~crossed[t] => answer[t] >= wrote[t]

(***************************************************************************)
(* Who lifts a ban by their own login or /unban has seen one that was over *)
(* in the row or in a copy of it, and the lift undoes whatever ban is in   *)
(* the row by then, a new one included.  What they saw was in the row one  *)
(* request, or two lifetimes and three requests, before: a ban that has    *)
(* stood for longer was seen, and is not lifted before its time.           *)
(***************************************************************************)
LiftsRecentBansOnly ==
  \A t \in Task :
    /\ pc[t] = "liftAtLogin" => lost[copy[t]] <= Patience
    /\ pc[t] = "lift" => lost[copy[t]] <= 2 * Ttl + 3 * Patience
=============================================================================
