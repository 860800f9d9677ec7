------------------------- MODULE ProfileCacheProofs -------------------------
(***************************************************************************)
(* The staleness of a cached profile is bounded, for every lifetime of an  *)
(* entry, every bound on the duration of a request and any number of       *)
(* replicas and requests.                                                  *)
(*                                                                         *)
(* The inductive invariant adds to each copy the time it has left: what an *)
(* entry gains in age with a tick it loses in remaining life.              *)
(***************************************************************************)
EXTENDS ProfileCache, TLAPS

FromRow == {"lookLocal", "lookRedis", "fill", "share", "put", "dropThenShare", "liftAtLogin"}

(***************************************************************************)
(* While there is a row its version, and those not written yet, are new.       *)
(***************************************************************************)
Ages == ~deleted => \A n \in Version : n >= stored => lost[n] = 0

RedisAge == redis # None => lost[redis.row] + redis.left <= Ttl + Patience

LocalAge(p) ==
  local[p] # None =>
    lost[local[p].row] + local[p].left <= 2 * (Ttl + Patience)

(***************************************************************************)
(* A task carries what it read from the table, at most as old as its       *)
(* request, or what it read from Redis, or from any of the three.          *)
(***************************************************************************)
Carried(t) ==
  /\ pc[t] \in FromRow => lost[copy[t]] <= spent[t]
  /\ pc[t] = "keep" => lost[copy[t]] <= Ttl + Patience + spent[t]
  /\ pc[t] = "lift" => lost[copy[t]] <= 2 * (Ttl + Patience) + spent[t]

IInv ==
  /\ TypeOK
  /\ Ages
  /\ RedisAge
  /\ \A p \in Replica : LocalAge(p)
  /\ \A t \in Task : Carried(t)

-----------------------------------------------------------------------------
LEMMA Times ==
  /\ Ttl \in Nat /\ Patience \in Nat /\ MaxWrites \in Nat
  /\ Horizon \in Nat /\ Horizon = 2 * Ttl + 3 * Patience + 1
  /\ 0 \in Version /\ Version \subseteq Nat
  /\ 0 \in 0 .. Horizon /\ 0 \in 0 .. Patience
BY ProfileCacheAssumption DEF Horizon, Version

LEMMA Numbers ==
  ASSUME TypeOK
  PROVE  /\ stored \in Version /\ stored \in Nat
         /\ lost \in [Version -> Nat]
         /\ spent \in [Task -> Nat] /\ \A t \in Task : spent[t] <= Patience
         /\ copy \in [Task -> Version]
<1> USE DEF TypeOK
<1>1. \A n \in 0 .. Horizon : n \in Nat
  BY Times
<1>2. \A n \in 0 .. Patience : n \in Nat /\ n <= Patience
  BY Times
<1> QED
  BY <1>1, <1>2, Times

LEMMA InitInv == Init => IInv
<1> SUFFICES ASSUME Init PROVE IInv
  OBVIOUS
<1> USE Times DEF Init
<1>1. TypeOK
  <2>1. lost \in [Version -> 0 .. Horizon] /\ spent \in [Task -> 0 .. Patience]
    OBVIOUS
  <2> QED
    BY <2>1 DEF TypeOK, Label, Entrance
<1>2. Ages
  BY DEF Ages
<1>3. RedisAge /\ \A p \in Replica : LocalAge(p)
  BY DEF RedisAge, LocalAge
<1>4. \A t \in Task : Carried(t)
  BY DEF Carried, FromRow
<1> QED
  BY <1>1, <1>2, <1>3, <1>4 DEF IInv

(***************************************************************************)
(* A step of one task that lets no time pass and does not write the row.   *)
(***************************************************************************)
LEMMA QuietStep ==
  ASSUME IInv, NEW t \in Task, TypeOK', UNCHANGED <<disk, lost>>,
         \A u \in Task \ {t} :
           pc'[u] = pc[u] /\ copy'[u] = copy[u] /\ spent'[u] = spent[u],
         Carried(t)', RedisAge', \A p \in Replica : LocalAge(p)'
  PROVE  IInv'
<1>1. Ages'
  BY DEF IInv, Ages, disk
<1>2. ASSUME NEW u \in Task
      PROVE  Carried(u)'
  <2>1. CASE u = t
    BY <2>1
  <2>2. CASE u # t
    BY <2>2 DEF IInv, Carried
  <2> QED
    BY <2>1, <2>2
<1> QED
  BY <1>1, <1>2 DEF IInv

-----------------------------------------------------------------------------
LEMMA BeginInv ==
  ASSUME IInv, NEW t \in Task, NEW p \in Replica,
         NEW first \in Entrance, Begin(t, p, first)
  PROVE  IInv'
<1> USE DEF Begin, Goto, disk
<1>1. TypeOK'
  BY Times DEF IInv, TypeOK, Label, Entrance
<1>2. Carried(t)'
  BY DEF IInv, TypeOK, Carried, FromRow, Entrance
<1>3. RedisAge' /\ \A q \in Replica : LocalAge(q)'
  BY DEF IInv, RedisAge, LocalAge
<1>4. \A u \in Task \ {t} :
        pc'[u] = pc[u] /\ copy'[u] = copy[u] /\ spent'[u] = spent[u]
  BY DEF IInv, TypeOK
<1> QED
  BY <1>1, <1>2, <1>3, <1>4, QuietStep

LEMMA WriteInv ==
  ASSUME IInv, NEW t \in Task, Write(t)
  PROVE  IInv'
<1> USE DEF Write, Goto, Finish, disk
<1>1. TypeOK'
  <2>1. ~deleted => stored + 1 \in Version
    BY Times DEF IInv, TypeOK, Version
  <2> QED
    BY <2>1 DEF IInv, TypeOK, Label, Entrance
<1>2. Ages'
  BY Times DEF IInv, TypeOK, Ages
<1>3. ASSUME NEW u \in Task
      PROVE  Carried(u)'
  <2>1. CASE u = t /\ ~deleted
    <3>1. lost[stored + 1] = 0 /\ stored + 1 \in Version /\ spent[t] \in Nat
      BY <2>1, Times DEF IInv, TypeOK, Ages, Version
    <3> QED
      BY <2>1, <3>1 DEF IInv, TypeOK, Carried, FromRow
  <2>2. CASE u # t \/ deleted
    BY <2>2 DEF IInv, TypeOK, Carried, FromRow
  <2> QED
    BY <2>1, <2>2
<1>4. RedisAge' /\ \A q \in Replica : LocalAge(q)'
  BY DEF IInv, RedisAge, LocalAge
<1> QED
  BY <1>1, <1>2, <1>3, <1>4 DEF IInv

LEMMA DeleteInv ==
  ASSUME IInv, NEW t \in Task, Delete(t)
  PROVE  IInv'
<1> USE DEF Delete, Goto, history
<1>1. TypeOK'
  BY DEF IInv, TypeOK, Label, Entrance
<1>2. Ages'
  BY DEF IInv, Ages
<1>3. \A u \in Task : Carried(u)'
  BY DEF IInv, TypeOK, Carried, FromRow
<1>4. RedisAge' /\ \A q \in Replica : LocalAge(q)'
  BY DEF IInv, RedisAge, LocalAge
<1> QED
  BY <1>1, <1>2, <1>3, <1>4 DEF IInv

(***************************************************************************)
(* The steps that fill the cache of a replica, and the one that fills      *)
(* Redis.                                                                  *)
(***************************************************************************)
LEMMA ServeTypes ==
  ASSUME TypeOK, NEW t \in Task, NEW n \in Version, Serve(t, n)
  PROVE  /\ pc' \in [Task -> Label] /\ copy' \in [Task -> Version]
         /\ answer' \in [Task -> Version \cup {None}]
         /\ \/ pc'[t] = "idle" /\ copy' = copy /\ answer'[t] = n
            \/ pc'[t] = "lift" /\ copy'[t] = n /\ wrote[t] = None /\ answer' = answer
         /\ \A u \in Task \ {t} :
              pc'[u] = pc[u] /\ copy'[u] = copy[u] /\ answer'[u] = answer[u]
  BY DEF TypeOK, Serve, Finish, Goto, Label

LEMMA ServeCarries ==
  ASSUME IInv, NEW t \in Task, NEW n \in Version, Serve(t, n), UNCHANGED <<lost, spent>>,
         lost[n] <= 2 * (Ttl + Patience) + spent[t]
  PROVE  Carried(t)'
<1>1. \/ pc'[t] = "idle"
      \/ pc'[t] = "lift" /\ copy'[t] = n
  BY ServeTypes DEF IInv
<1> QED
  BY <1>1 DEF Carried, FromRow

LEMMA FillLocalInv ==
  ASSUME IInv, NEW t \in Task, Put(t) \/ Keep(t) \/ Fill(t)
  PROVE  IInv'
<1> USE DEF Put, Keep, Fill, FillLocal, Fresh, disk
<1>1. copy[t] \in Version /\ at[t] \in Replica /\ spent[t] \in 0 .. Patience
  BY DEF IInv, TypeOK
<1>2. local' = [local EXCEPT ![at[t]] = [row |-> copy[t], left |-> Ttl]]
  OBVIOUS
<1>3. /\ pc' \in [Task -> Label] /\ copy' \in [Task -> Version]
      /\ answer' \in [Task -> Version \cup {None}]
      /\ \A u \in Task \ {t} : pc'[u] = pc[u] /\ copy'[u] = copy[u]
  <2>1. CASE Keep(t)
    BY <1>1, <2>1, ServeTypes DEF IInv
  <2>2. CASE Put(t) \/ Fill(t)
    BY <2>2 DEF IInv, TypeOK, Label, Entrance, Goto
  <2> QED
    BY <2>1, <2>2
<1>9. TypeOK'
  BY <1>1, <1>2, <1>3, Times DEF IInv, TypeOK, Entry
<1>4. lost[copy[t]] <= Ttl + Patience + spent[t] /\ lost[copy[t]] \in Nat
  <2>1. lost[copy[t]] \in Nat /\ spent[t] \in Nat
    BY Numbers DEF IInv
  <2>2. pc[t] \in FromRow \cup {"keep"}
    BY DEF FromRow
  <2> QED
    BY <2>1, <2>2, Times DEF IInv, Carried
<1>5. ASSUME NEW q \in Replica
      PROVE  LocalAge(q)'
  <2>1. CASE q = at[t]
    BY <1>1, <1>2, <1>4, <2>1, Times DEF IInv, TypeOK, LocalAge
  <2>2. CASE q # at[t]
    BY <1>2, <2>2 DEF IInv, TypeOK, LocalAge
  <2> QED
    BY <2>1, <2>2
<1>6. RedisAge'
  BY DEF IInv, RedisAge
<1>7. Carried(t)'
  <2>1. CASE Keep(t)
    <3>1. lost[copy[t]] <= 2 * (Ttl + Patience) + spent[t]
      BY <1>1, <1>4, Times
    <3> QED
      BY <1>1, <2>1, <3>1, ServeCarries
  <2>2. CASE Put(t) \/ Fill(t)
    BY <2>2 DEF IInv, TypeOK, Carried, FromRow, Goto
  <2> QED
    BY <2>1, <2>2
<1>8. \A u \in Task \ {t} :
        pc'[u] = pc[u] /\ copy'[u] = copy[u] /\ spent'[u] = spent[u]
  BY <1>3
<1> QED
  BY <1>5, <1>6, <1>7, <1>8, <1>9, QuietStep

LEMMA ShareInv ==
  ASSUME IInv, NEW t \in Task, Share(t)
  PROVE  IInv'
<1> USE DEF Share, Fresh, disk
<1>1. copy[t] \in Version /\ spent[t] \in 0 .. Patience
  BY DEF IInv, TypeOK
<1>2. redis' \in {redis, [row |-> copy[t], left |-> Ttl]}
  OBVIOUS
<1>3. /\ pc' \in [Task -> Label] /\ copy' \in [Task -> Version]
      /\ answer' \in [Task -> Version \cup {None}]
      /\ \A u \in Task \ {t} : pc'[u] = pc[u] /\ copy'[u] = copy[u]
  BY <1>1, ServeTypes DEF IInv
<1>9. TypeOK'
  BY <1>1, <1>2, <1>3, Times DEF IInv, TypeOK, Entry
<1>4. lost[copy[t]] <= spent[t] /\ lost[copy[t]] \in Nat
  BY Numbers DEF IInv, Carried, FromRow
<1>5. RedisAge'
  BY <1>1, <1>2, <1>4, Times DEF IInv, RedisAge
<1>6. \A q \in Replica : LocalAge(q)'
  BY DEF IInv, LocalAge
<1>7. Carried(t)'
  <2>1. lost[copy[t]] <= 2 * (Ttl + Patience) + spent[t]
    BY <1>1, <1>4, Times
  <2> QED
    BY <1>1, <2>1, ServeCarries
<1>8. \A u \in Task \ {t} :
        pc'[u] = pc[u] /\ copy'[u] = copy[u] /\ spent'[u] = spent[u]
  BY <1>3
<1> QED
  BY <1>5, <1>6, <1>7, <1>8, <1>9, QuietStep

(***************************************************************************)
(* The steps that look at a copy or drop one.                              *)
(***************************************************************************)
LEMMA LookLocalInv ==
  ASSUME IInv, NEW t \in Task, LookLocal(t)
  PROVE  IInv'
<1> USE DEF LookLocal, disk, history
<1>1. at[t] \in Replica /\ spent[t] \in Nat
  BY Numbers DEF IInv, TypeOK
<1>2. ASSUME local[at[t]] # None
      PROVE  /\ local[at[t]].row \in Version
             /\ lost[local[at[t]].row] <= 2 * (Ttl + Patience) + spent[t]
  <2>1. local[at[t]].row \in Version /\ local[at[t]].left \in Nat
    BY <1>1, <1>2, Times DEF IInv, TypeOK, Entry
  <2>2. lost[local[at[t]].row] \in Nat
    BY <2>1, Numbers DEF IInv
  <2> QED
    BY <1>1, <1>2, <2>1, <2>2, Times DEF IInv, LocalAge
<1>3. CASE Serve(t, local[at[t]].row) /\ local[at[t]] # None
  <2>1. /\ pc' \in [Task -> Label] /\ copy' \in [Task -> Version]
        /\ answer' \in [Task -> Version \cup {None}]
        /\ \A u \in Task \ {t} : pc'[u] = pc[u] /\ copy'[u] = copy[u]
    BY <1>2, <1>3, ServeTypes DEF IInv
  <2>2. TypeOK'
    BY <2>1 DEF IInv, TypeOK
  <2>3. Carried(t)'
    BY <1>2, <1>3, ServeCarries
  <2>4. RedisAge' /\ \A q \in Replica : LocalAge(q)'
    BY DEF IInv, RedisAge, LocalAge
  <2> QED
    BY <2>1, <2>2, <2>3, <2>4, QuietStep
<1>4. CASE Goto(t, "lookRedis") /\ UNCHANGED <<copy, answer>>
  <2>1. TypeOK'
    BY <1>4 DEF IInv, TypeOK, Goto, Label
  <2>2. Carried(t)'
    BY <1>4 DEF IInv, TypeOK, Goto, Carried, FromRow
  <2>3. RedisAge' /\ \A q \in Replica : LocalAge(q)'
    BY DEF IInv, RedisAge, LocalAge
  <2>4. \A u \in Task \ {t} :
          pc'[u] = pc[u] /\ copy'[u] = copy[u] /\ spent'[u] = spent[u]
    BY <1>4 DEF IInv, TypeOK, Goto
  <2> QED
    BY <2>1, <2>2, <2>3, <2>4, QuietStep
<1> QED
  BY <1>3, <1>4

LEMMA LookInv ==
  ASSUME IInv, NEW t \in Task,
         \/ Forget(t) \/ DropRedis(t) \/ Authenticate(t) \/ ReadRow(t)
         \/ LookRedis(t) \/ Drop(t)
  PROVE  IInv'
<1> USE DEF Forget, DropRedis, Authenticate, ReadRow, LookRedis, Drop, Goto,
            Finish, disk, history
<1>1. TypeOK'
  BY DEF IInv, TypeOK, Label, Entrance, Entry
<1>2. UNCHANGED <<disk, lost, spent>>
  OBVIOUS
<1>3. redis' \in {redis, None} /\ \A q \in Replica : local'[q] \in {local[q], None}
  BY DEF IInv, TypeOK
<1>4. RedisAge' /\ \A q \in Replica : LocalAge(q)'
  BY <1>2, <1>3 DEF IInv, RedisAge, LocalAge
<1>5. Carried(t)'
  <2>1. CASE (Authenticate(t) \/ ReadRow(t)) /\ ~deleted
    <3>1. lost[stored] = 0 /\ spent[t] \in Nat
      BY <2>1, Numbers DEF IInv, Ages
    <3> QED
      BY <2>1, <3>1 DEF IInv, TypeOK, Carried, FromRow
  <2>2. CASE LookRedis(t) /\ copy' # copy
    <3>1. redis \in Entry /\ redis.row \in Version /\ redis.left \in Nat
      BY <2>2, Times DEF IInv, TypeOK, Entry
    <3>2. lost[redis.row] \in Nat /\ spent[t] \in Nat
      BY <3>1, Numbers DEF IInv
    <3>3. lost[redis.row] <= Ttl + Patience + spent[t]
      BY <2>2, <3>1, <3>2, Times DEF IInv, RedisAge
    <3>4. copy'[t] = redis.row /\ pc'[t] = "keep"
      BY <2>2 DEF IInv, TypeOK
    <3> QED
      BY <2>2, <3>3, <3>4 DEF Carried, FromRow
  <2>3. CASE copy' = copy
    <3>1. lost[copy[t]] \in Nat /\ spent[t] \in Nat
      BY Numbers DEF IInv
    <3>2. \/ pc'[t] \in FromRow /\ pc[t] \in FromRow
          \/ pc'[t] = "keep" /\ pc[t] \in FromRow
          \/ pc'[t] \notin FromRow \cup {"keep", "lift"}
          \/ (Authenticate(t) \/ ReadRow(t)) /\ ~deleted
      BY DEF IInv, TypeOK, FromRow
    <3> QED
      BY <2>1, <2>3, <3>1, <3>2, Times DEF IInv, Carried
  <2> QED
    BY <2>1, <2>2, <2>3 DEF IInv, TypeOK
<1>6. \A u \in Task \ {t} :
        pc'[u] = pc[u] /\ copy'[u] = copy[u] /\ spent'[u] = spent[u]
  BY DEF IInv, TypeOK
<1> QED
  BY <1>1, <1>2, <1>4, <1>5, <1>6, QuietStep

LEMMA EvictInv ==
  ASSUME IInv, Evict
  PROVE  IInv'
<1> USE DEF Evict, disk, task, history
<1>1. TypeOK'
  BY DEF IInv, TypeOK
<1>2. redis' \in {redis, None} /\ \A q \in Replica : local'[q] \in {local[q], None}
  BY DEF IInv, TypeOK
<1>3. RedisAge' /\ \A q \in Replica : LocalAge(q)'
  BY <1>2 DEF IInv, RedisAge, LocalAge
<1> QED
  BY <1>1, <1>3 DEF IInv, Ages, Carried

(***************************************************************************)
(* Time passes: a copy gets one tick older and has one tick less to live.  *)
(***************************************************************************)
LEMMA OlderEntry ==
  ASSUME NEW e \in Entry \cup {None}
  PROVE  /\ Older(e) \in Entry \cup {None}
         /\ Older(e) # None =>
              e # None /\ Older(e).row = e.row /\ Older(e).left = e.left - 1
<1>1. CASE e = None \/ e.left = 0
  BY <1>1 DEF Older
<1>2. CASE e # None /\ e.left # 0
  <2>1. e \in [row : Version, left : 0 .. Ttl] /\ Older(e) = [e EXCEPT !.left = @ - 1]
    BY <1>2 DEF Older, Entry
  <2>2. e.left - 1 \in 0 .. Ttl
    BY <1>2, <2>1, Times
  <2> QED
    BY <1>2, <2>1, <2>2 DEF Entry
<1> QED
  BY <1>1, <1>2

LEMMA TickInv ==
  ASSUME IInv, Tick
  PROVE  IInv'
<1> USE DEF Tick, disk, task
<1>1. /\ lost \in [Version -> 0 .. Horizon] /\ lost' \in [Version -> 0 .. Horizon]
      /\ \A n \in Version : lost'[n] <= lost[n] + 1 /\ lost'[n] \in Nat
  BY Times DEF IInv, TypeOK
<1>2. TypeOK'
  BY <1>1, OlderEntry, Times DEF IInv, TypeOK
<1>3. Ages'
  <2>1. ASSUME NEW n \in Version, ~deleted, n >= stored
        PROVE  lost'[n] = 0
    <3>1. ~(n < stored)
      BY <2>1, Numbers, Times DEF IInv
    <3> QED
      BY <2>1, <3>1, Numbers DEF IInv, Ages
  <2> QED
    BY <2>1 DEF Ages
<1>4. RedisAge'
  <2>1. ASSUME redis' # None
        PROVE  lost'[redis'.row] + redis'.left <= Ttl + Patience
    <3>1. /\ redis \in Entry /\ redis' = Older(redis)
          /\ redis'.row = redis.row /\ redis'.left = redis.left - 1
      BY <2>1, OlderEntry DEF IInv, TypeOK
    <3>2. redis.row \in Version /\ redis.left \in Int
      BY <3>1, Times DEF Entry
    <3>3. lost[redis.row] + redis.left <= Ttl + Patience /\ lost[redis.row] \in Nat
      BY <1>1, <2>1, <3>1, <3>2, OlderEntry DEF IInv, RedisAge, TypeOK
    <3> QED
      BY <1>1, <3>1, <3>2, <3>3, Times
  <2> QED
    BY <2>1 DEF RedisAge
<1>5. ASSUME NEW p \in Replica
      PROVE  LocalAge(p)'
  <2>1. ASSUME local'[p] # None
        PROVE  lost'[local'[p].row] + local'[p].left <= 2 * (Ttl + Patience)
    <3>1. /\ local[p] \in Entry /\ local'[p] = Older(local[p])
          /\ local'[p].row = local[p].row /\ local'[p].left = local[p].left - 1
      BY <2>1, OlderEntry DEF IInv, TypeOK
    <3>2. local[p].row \in Version /\ local[p].left \in Int
      BY <3>1, Times DEF Entry
    <3>3. /\ lost[local[p].row] + local[p].left <= 2 * (Ttl + Patience)
          /\ lost[local[p].row] \in Nat
      BY <1>1, <2>1, <3>1, <3>2, OlderEntry DEF IInv, LocalAge, TypeOK
    <3> QED
      BY <1>1, <3>1, <3>2, <3>3, Times
  <2> QED
    BY <2>1 DEF LocalAge
<1>6. ASSUME NEW t \in Task
      PROVE  Carried(t)'
  <2>1. copy[t] \in Version /\ spent[t] \in Nat
    BY Times DEF IInv, TypeOK
  <2>2. pc[t] # "idle" => spent'[t] = spent[t] + 1
    OBVIOUS
  <2>3. lost'[copy[t]] <= lost[copy[t]] + 1 /\ lost[copy[t]] \in Nat
        /\ lost'[copy[t]] \in Nat
    BY <1>1, <2>1, Numbers DEF IInv
  <2>4. pc'[t] \in FromRow => lost'[copy'[t]] <= spent'[t]
    BY <2>1, <2>2, <2>3 DEF IInv, Carried, FromRow
  <2>5. pc'[t] = "keep" => lost'[copy'[t]] <= Ttl + Patience + spent'[t]
    BY <2>1, <2>2, <2>3, Times DEF IInv, Carried
  <2>6. pc'[t] = "lift" => lost'[copy'[t]] <= 2 * (Ttl + Patience) + spent'[t]
    BY <2>1, <2>2, <2>3, Times DEF IInv, Carried
  <2> QED
    BY <2>4, <2>5, <2>6 DEF Carried
<1> QED
  BY <1>2, <1>3, <1>4, <1>5, <1>6 DEF IInv

-----------------------------------------------------------------------------
LEMMA NextInv == IInv /\ [Next]_vars => IInv'
<1> SUFFICES ASSUME IInv, [Next]_vars PROVE IInv'
  OBVIOUS
<1>1. ASSUME NEW t \in Task, NEW p \in Replica,
             NEW first \in Entrance, Begin(t, p, first)
      PROVE  IInv'
  BY <1>1, BeginInv
<1>2. ASSUME NEW t \in Task, Step(t)
      PROVE  IInv'
  BY <1>2, WriteInv, DeleteInv, FillLocalInv, ShareInv, LookLocalInv, LookInv DEF Step
<1>3. CASE Evict
  BY <1>3, EvictInv
<1>4. CASE Tick
  BY <1>4, TickInv
<1>5. CASE UNCHANGED vars
  BY <1>5 DEF vars, IInv, TypeOK, Ages, RedisAge, LocalAge, Carried
<1> QED
  BY <1>1, <1>2, <1>3, <1>4, <1>5 DEF Next

LEMMA Inductive == Spec => []IInv
BY InitInv, NextInv, PTL DEF Spec

(***************************************************************************)
(* get_profile and the writers never cache or serve a profile that was     *)
(* overwritten longer ago than two lifetimes and two requests.             *)
(***************************************************************************)
THEOREM StalenessBounded == Spec => []BoundedStaleness
<1>1. Spec => []IInv
  BY Inductive
<1>2. IInv => BoundedStaleness
  <2> SUFFICES ASSUME IInv PROVE BoundedStaleness
    OBVIOUS
  <2>1. \A e \in Entry : e.row \in Version /\ e.left \in Nat
    BY Times DEF Entry
  <2>2. redis # None => redis \in Entry
    BY DEF IInv, TypeOK
  <2>3. \A p \in Replica : local[p] # None => local[p] \in Entry
    BY DEF IInv, TypeOK
  <2>4. \A n \in Version : lost[n] \in Nat
    BY Numbers DEF IInv
  <2>5. redis # None => lost[redis.row] <= Ttl + Patience
    <3> SUFFICES ASSUME redis # None PROVE lost[redis.row] <= Ttl + Patience
      OBVIOUS
    <3>1. lost[redis.row] \in Nat /\ redis.left \in Nat
      BY <2>1, <2>2, <2>4
    <3>2. lost[redis.row] + redis.left <= Ttl + Patience
      BY DEF IInv, RedisAge
    <3> QED
      BY <3>1, <3>2, Times
  <2>6. ASSUME NEW p \in Replica, local[p] # None
        PROVE  lost[local[p].row] <= 2 * (Ttl + Patience)
    <3>1. lost[local[p].row] \in Nat /\ local[p].left \in Nat
      BY <2>1, <2>3, <2>4, <2>6
    <3>2. lost[local[p].row] + local[p].left <= 2 * (Ttl + Patience)
      BY <2>6 DEF IInv, LocalAge
    <3> QED
      BY <3>1, <3>2, Times
  <2> QED
    BY <2>5, <2>6 DEF BoundedStaleness
<1> QED
  BY <1>1, <1>2, PTL

(***************************************************************************)
(* self_unban and authenticate lift a ban without asking whether it is the *)
(* one they saw; what they saw is so recent that a ban which has stood for *)
(* two lifetimes and three requests was seen.                              *)
(***************************************************************************)
THEOREM LiftsAreRecent == Spec => []LiftsRecentBansOnly
<1>1. IInv => LiftsRecentBansOnly
  <2> SUFFICES ASSUME IInv, NEW t \in Task
               PROVE  /\ pc[t] = "liftAtLogin" => lost[copy[t]] <= Patience
                      /\ pc[t] = "lift" => lost[copy[t]] <= 2 * Ttl + 3 * Patience
    BY DEF LiftsRecentBansOnly
  <2>1. lost[copy[t]] \in Nat /\ spent[t] \in Nat /\ spent[t] <= Patience
    BY Numbers DEF IInv
  <2> QED
    BY <2>1, Times DEF IInv, Carried, FromRow
<1> QED
  BY <1>1, Inductive, PTL

-----------------------------------------------------------------------------
(***************************************************************************)
(* What a request has of its own write.  Uncrossed, an update carries it   *)
(* to the end, and a reload finds its caches as it left them: empty.       *)
(***************************************************************************)
Carrying == {"put", "dropThenShare", "share", "lookLocal", "lookRedis", "fill"}

Undisturbed(t) ==
  /\ answer[t] # None => answer[t] >= wrote[t]
  /\ pc[t] \in Carrying => copy[t] >= wrote[t]
  /\ pc[t] \notin {"login", "keep", "lift", "liftAtLogin"}
  /\ pc[t] \in {"dropThenRead", "read", "lookLocal", "lookRedis"} =>
       local[at[t]] = None
  /\ pc[t] \in {"read", "lookLocal", "lookRedis"} => redis = None

Effect(t) ==
  /\ wrote[t] # None => wrote[t] <= stored
  /\ pc[t] # "idle" => answer[t] = None
  /\ wrote[t] # None /\ ~crossed[t] => Undisturbed(t)

Effects ==
  /\ wrote \in [Task -> Version \cup {None}]
  /\ crossed \in [Task -> BOOLEAN]
  /\ \A t \in Task : Effect(t)

LEMMA InitEffects == Init => Effects
BY DEF Init, Effects, Effect

(***************************************************************************)
(* What the others do: a copy that t may look at is filled only at the     *)
(* price of crossing t.                                                    *)
(***************************************************************************)
LEMMA OthersKeepEffect ==
  ASSUME Effects, NEW u \in Task,
         pc'[u] = pc[u], at'[u] = at[u], copy'[u] = copy[u],
         answer'[u] = answer[u], wrote'[u] = wrote[u],
         stored \in Nat, stored' \in Nat, stored' >= stored,
         crossed'[u] = FALSE => crossed[u] = FALSE,
         wrote[u] # None /\ crossed'[u] = FALSE =>
           local'[at[u]] \in {local[at[u]], None} /\ redis' \in {redis, None},
         crossed'[u] \in BOOLEAN
  PROVE  Effect(u)'
<1>1. wrote[u] # None => wrote[u] <= stored /\ wrote[u] \in Nat
  BY Times DEF Effects, Effect
<1>2. wrote'[u] # None => wrote'[u] <= stored'
  BY <1>1
<1>3. pc'[u] # "idle" => answer'[u] = None
  BY DEF Effects, Effect
<1>4. ASSUME wrote'[u] # None, ~crossed'[u]
      PROVE  Undisturbed(u)'
  <2>1. wrote[u] # None /\ crossed'[u] = FALSE /\ ~crossed[u]
    BY <1>4
  <2>2. Undisturbed(u)
    BY <2>1 DEF Effects, Effect
  <2>3. local[at[u]] = None => local'[at[u]] = None
    BY <2>1
  <2>4. redis = None => redis' = None
    BY <2>1
  <2> QED
    BY <2>2, <2>3, <2>4 DEF Undisturbed
<1> QED
  BY <1>2, <1>3, <1>4 DEF Effect

(***************************************************************************)
(* The steps of a request that leave the caches to what they were, or drop *)
(* an entry.                                                               *)
(***************************************************************************)
LEMMA QuietEffects ==
  ASSUME TypeOK, TypeOK', Effects, NEW t \in Task, Effect(t)',
         wrote' \in [Task -> Version \cup {None}],
         crossed' \in [Task -> BOOLEAN],
         stored' >= stored,
         redis' \in {redis, None},
         \A p \in Replica : local'[p] \in {local[p], None},
         \A u \in Task \ {t} :
           /\ pc'[u] = pc[u] /\ at'[u] = at[u] /\ copy'[u] = copy[u]
           /\ answer'[u] = answer[u] /\ wrote'[u] = wrote[u]
           /\ crossed'[u] = crossed[u]
  PROVE  Effects'
<1>1. stored \in Nat /\ stored' \in Nat
  BY Times DEF TypeOK
<1>2. ASSUME NEW u \in Task, u # t
      PROVE  Effect(u)'
  <2>1. local'[at[u]] \in {local[at[u]], None} /\ crossed'[u] \in BOOLEAN
    BY DEF TypeOK
  <2> QED
    BY <1>1, <1>2, <2>1, OthersKeepEffect
<1> QED
  BY <1>2 DEF Effects

LEMMA BeginEffects ==
  ASSUME TypeOK, TypeOK', Effects, NEW t \in Task, NEW p \in Replica,
         NEW first \in Entrance, Begin(t, p, first)
  PROVE  Effects'
<1> USE DEF Begin, Goto, disk
<1>1. Effect(t)'
  BY DEF TypeOK, Effects, Effect
<1>2. stored' >= stored
  BY Times DEF TypeOK
<1>3. /\ wrote' \in [Task -> Version \cup {None}]
      /\ crossed' \in [Task -> BOOLEAN]
  BY DEF Effects
<1>4. \A u \in Task \ {t} :
        /\ pc'[u] = pc[u] /\ at'[u] = at[u] /\ copy'[u] = copy[u]
        /\ answer'[u] = answer[u] /\ wrote'[u] = wrote[u]
        /\ crossed'[u] = crossed[u]
  BY DEF TypeOK, Effects
<1>5. redis' \in {redis, None} /\ \A q \in Replica : local'[q] \in {local[q], None}
  OBVIOUS
<1> QED
  BY <1>1, <1>2, <1>3, <1>4, <1>5, QuietEffects

LEMMA WriteEffects ==
  ASSUME TypeOK, TypeOK', Effects, NEW t \in Task, Write(t)
  PROVE  Effects'
<1> USE DEF Write, Goto, Finish
<1>1. stored \in Nat /\ stored' >= stored /\ answer[t] = None
  BY Times DEF TypeOK, Effects, Effect
<1>2. /\ wrote' \in [Task -> Version \cup {None}]
      /\ crossed' \in [Task -> BOOLEAN]
  BY <1>1 DEF TypeOK, Effects, Version
<1>3. Effect(t)'
  <2>1. CASE ~deleted
    <3>1. wrote'[t] = stored + 1 /\ copy'[t] = stored + 1 /\ stored' = stored + 1
      BY <2>1 DEF TypeOK, Effects
    <3>2. answer'[t] = None /\ pc'[t] \in {"put", "forget", "idle"}
      BY <1>1, <2>1 DEF TypeOK
    <3> QED
      BY <1>1, <3>1, <3>2 DEF Effect, Undisturbed
  <2>2. CASE deleted
    <3>1. answer'[t] = None /\ pc'[t] = "idle" /\ wrote' = wrote /\ stored' = stored
      BY <2>2 DEF TypeOK
    <3> QED
      BY <3>1 DEF Effects, Effect, Undisturbed, Carrying
  <2> QED
    BY <2>1, <2>2 DEF TypeOK
<1>4. \A u \in Task \ {t} :
        /\ pc'[u] = pc[u] /\ at'[u] = at[u] /\ copy'[u] = copy[u]
        /\ answer'[u] = answer[u] /\ wrote'[u] = wrote[u]
        /\ crossed'[u] = crossed[u]
  BY DEF TypeOK, Effects
<1>5. redis' \in {redis, None} /\ \A q \in Replica : local'[q] \in {local[q], None}
  OBVIOUS
<1> QED
  BY <1>1, <1>2, <1>3, <1>4, <1>5, QuietEffects

(***************************************************************************)
(* Dropping and looking.  ReadRow finds at least what t has written.       *)
(***************************************************************************)
LEMMA LookEffects ==
  ASSUME TypeOK, TypeOK', Effects, NEW t \in Task,
         \/ Delete(t) \/ Forget(t) \/ DropRedis(t) \/ Authenticate(t)
         \/ ReadRow(t) \/ LookRedis(t) \/ Drop(t)
  PROVE  Effects'
<1> USE DEF Delete, Forget, DropRedis, Authenticate, ReadRow, LookRedis, Drop,
            Goto, Finish, disk, history
<1>1. stored' = stored /\ stored \in Nat /\ wrote' = wrote /\ at' = at
  BY Times DEF TypeOK
<1>2. crossed' \in [Task -> BOOLEAN] /\ crossed'[t] \in {crossed[t], TRUE}
  BY DEF Effects
<1>3. redis' \in {redis, None} /\ \A q \in Replica : local'[q] \in {local[q], None}
  BY DEF TypeOK
<1>4. \A u \in Task \ {t} :
        /\ pc'[u] = pc[u] /\ at'[u] = at[u] /\ copy'[u] = copy[u]
        /\ answer'[u] = answer[u] /\ wrote'[u] = wrote[u]
        /\ crossed'[u] = crossed[u]
  BY DEF TypeOK, Effects
<1>5. pc[t] # "idle" /\ answer[t] = None /\ at[t] \in Replica
  BY DEF TypeOK, Effects, Effect
<1>6. pc'[t] # "idle" => answer'[t] = None
  BY <1>5 DEF TypeOK
<1>7. ASSUME wrote[t] # None, ~crossed'[t]
      PROVE  Undisturbed(t)'
  <2>1. Undisturbed(t) /\ wrote[t] \in Nat /\ wrote[t] <= stored
    BY <1>2, <1>7, Times DEF Effects, Effect
  <2>2. CASE Delete(t) \/ Drop(t)
    BY <1>5, <2>1, <2>2 DEF TypeOK, Undisturbed, Carrying
  <2>3. CASE Forget(t)
    <3>1. pc'[t] \in {"dropThenRead", "dropThenEnd"} /\ local'[at[t]] = None
      BY <1>5, <2>3 DEF TypeOK
    <3> QED
      BY <1>5, <2>3, <3>1 DEF Undisturbed, Carrying
  <2>4. CASE DropRedis(t)
    <3>1. redis' = None
      BY <1>7, <2>4 DEF Effects
    <3>2. \/ pc[t] = "dropThenShare" /\ pc'[t] = "share"
          \/ pc[t] = "dropThenRead" /\ pc'[t] = "read"
          \/ pc'[t] = "idle"
      BY <2>4 DEF TypeOK
    <3> QED
      BY <1>5, <2>1, <2>4, <3>1, <3>2 DEF Undisturbed, Carrying
  <2>5. CASE ReadRow(t)
    <3>1. \/ pc'[t] = "idle" /\ answer'[t] = None
          \/ pc'[t] = "lookLocal" /\ answer'[t] = None /\ copy'[t] = stored
      BY <1>5, <2>5 DEF TypeOK
    <3>2. pc[t] = "read" /\ local' = local /\ redis' = redis
      BY <2>5
    <3> QED
      BY <1>1, <2>1, <3>1, <3>2 DEF Undisturbed, Carrying
  <2>6. CASE Authenticate(t)
    BY <2>1, <2>6 DEF Undisturbed
  <2>7. CASE LookRedis(t)
    <3>1. redis = None /\ pc[t] = "lookRedis"
      BY <2>1, <2>7 DEF Undisturbed
    <3>2. pc'[t] = "fill" /\ answer' = answer /\ copy' = copy
      BY <2>7, <3>1 DEF TypeOK
    <3> QED
      BY <1>5, <2>1, <2>7, <3>1, <3>2 DEF Undisturbed, Carrying
  <2> QED
    BY <2>2, <2>3, <2>4, <2>5, <2>6, <2>7
<1>8. Effect(t)'
  BY <1>1, <1>6, <1>7 DEF Effects, Effect
<1>9. wrote' \in [Task -> Version \cup {None}] /\ stored' >= stored
  BY <1>1 DEF Effects
<1> QED
  BY <1>2, <1>3, <1>4, <1>8, <1>9, QuietEffects

LEMMA LookLocalEffects ==
  ASSUME TypeOK, TypeOK', Effects, NEW t \in Task, LookLocal(t)
  PROVE  Effects'
<1> USE DEF LookLocal, disk, history
<1>1. /\ stored' = stored /\ stored \in Nat /\ wrote' = wrote /\ at' = at
      /\ local' = local /\ redis' = redis /\ crossed' = crossed
  BY Times DEF TypeOK
<1>2. pc[t] = "lookLocal" /\ answer[t] = None
  BY DEF Effects, Effect
<1>3. local[at[t]] # None => local[at[t]].row \in Version
  BY DEF TypeOK, Entry
<1>4. /\ \A u \in Task \ {t} :
           pc'[u] = pc[u] /\ copy'[u] = copy[u] /\ answer'[u] = answer[u]
      /\ \/ local[at[t]] # None /\ pc'[t] = "idle"
         \/ local[at[t]] # None /\ wrote[t] = None /\ answer' = answer
         \/ pc'[t] = "lookRedis" /\ copy' = copy /\ answer' = answer
  <2>1. CASE local[at[t]] # None
    <3>1. Serve(t, local[at[t]].row)
      BY <2>1
    <3> QED
      BY <1>3, <2>1, <3>1, ServeTypes
  <2>2. CASE local[at[t]] = None
    BY <2>2 DEF TypeOK, Goto
  <2> QED
    BY <2>1, <2>2
<1>5. Effect(t)'
  <2>1. pc'[t] # "idle" => answer'[t] = None
    BY <1>2, <1>4
  <2>2. ASSUME wrote[t] # None, ~crossed[t]
        PROVE  Undisturbed(t)'
    <3>1. Undisturbed(t) /\ local[at[t]] = None
      BY <1>2, <2>2 DEF Effects, Effect, Undisturbed
    <3> QED
      BY <1>1, <1>2, <1>4, <3>1 DEF Undisturbed, Carrying
  <2> QED
    BY <1>1, <2>1, <2>2 DEF Effects, Effect
<1>6. \A u \in Task \ {t} :
        /\ pc'[u] = pc[u] /\ at'[u] = at[u] /\ copy'[u] = copy[u]
        /\ answer'[u] = answer[u] /\ wrote'[u] = wrote[u]
        /\ crossed'[u] = crossed[u]
  BY <1>1, <1>4
<1>7. /\ wrote' \in [Task -> Version \cup {None}]
      /\ crossed' \in [Task -> BOOLEAN] /\ stored' >= stored
  BY <1>1 DEF Effects
<1>8. redis' \in {redis, None} /\ \A q \in Replica : local'[q] \in {local[q], None}
  BY <1>1
<1> HIDE DEF LookLocal
<1> QED
  BY <1>5, <1>6, <1>7, <1>8, QuietEffects

LEMMA FillEffects ==
  ASSUME TypeOK, TypeOK', Effects, NEW t \in Task,
         Put(t) \/ Keep(t) \/ Fill(t) \/ Share(t)
  PROVE  Effects'
<1> USE DEF Put, Keep, Fill, Share, FillLocal, Cross, disk
<1>1. /\ stored' = stored /\ stored \in Nat /\ wrote' = wrote /\ at' = at
      /\ copy[t] \in Version
  BY Times DEF TypeOK
<1>2. crossed' \in [Task -> BOOLEAN] /\ crossed'[t] = crossed[t]
  BY DEF Effects
<1>3. pc[t] # "idle" /\ answer[t] = None
  BY DEF Effects, Effect
<1>4. /\ \A u \in Task \ {t} :
           pc'[u] = pc[u] /\ copy'[u] = copy[u] /\ answer'[u] = answer[u]
      /\ \/ pc'[t] = "idle" /\ copy' = copy /\ answer'[t] = copy[t]
         \/ wrote[t] = None /\ answer' = answer
         \/ pc'[t] \in {"dropThenShare", "share"} /\ copy' = copy /\ answer' = answer
  <2>1. CASE Keep(t) \/ Share(t)
    <3>1. Serve(t, copy[t])
      BY <2>1
    <3> QED
      BY <1>1, <3>1, ServeTypes
  <2>2. CASE Put(t) \/ Fill(t)
    BY <2>2 DEF TypeOK, Goto
  <2> QED
    BY <2>1, <2>2
<1>5. ASSUME wrote[t] # None, ~crossed[t]
      PROVE  Undisturbed(t)'
  <2>1. Undisturbed(t) /\ pc[t] \in Carrying
    BY <1>5 DEF Effects, Effect, Undisturbed, Carrying
  <2>2. /\ pc'[t] \in {"dropThenShare", "idle", "share"} /\ copy' = copy
        /\ answer'[t] \in {None, copy[t]}
    BY <1>3, <1>4, <1>5
  <2> QED
    BY <1>1, <2>1, <2>2 DEF Undisturbed
<1>6. Effect(t)'
  <2>1. pc'[t] # "idle" => answer'[t] = None
    BY <1>3, <1>4
  <2> QED
    BY <1>1, <1>2, <1>5, <2>1 DEF Effects, Effect
<1>7. ASSUME NEW u \in Task, u # t
      PROVE  Effect(u)'
  <2>1. /\ pc'[u] = pc[u] /\ at'[u] = at[u] /\ copy'[u] = copy[u]
        /\ answer'[u] = answer[u] /\ wrote'[u] = wrote[u]
    BY <1>1, <1>4, <1>7
  <2>2. crossed'[u] = FALSE => crossed[u] = FALSE
    BY DEF Effects
  <2>3. ASSUME wrote[u] # None, crossed'[u] = FALSE
        PROVE  local'[at[u]] \in {local[at[u]], None} /\ redis' \in {redis, None}
    <3>1. CASE Share(t)
      BY <1>7, <2>3, <3>1
    <3>2. CASE Put(t) \/ Keep(t) \/ Fill(t)
      <4>1. at[u] # at[t]
        BY <1>7, <2>3, <3>2
      <4> QED
        BY <3>2, <4>1 DEF TypeOK
    <3> QED
      BY <3>1, <3>2
  <2>4. crossed'[u] \in BOOLEAN /\ stored' >= stored /\ stored' \in Nat
    BY <1>1, <1>2
  <2> HIDE DEF Put, Keep, Fill, Share
  <2> QED
    BY <1>1, <2>1, <2>2, <2>3, <2>4, OthersKeepEffect
<1> QED
  BY <1>1, <1>2, <1>6, <1>7 DEF Effects

LEMMA CacheEffects ==
  ASSUME TypeOK, Effects, Evict \/ Tick
  PROVE  Effects'
<1> USE DEF Evict, Tick, disk, task, history
<1>2. redis = None => redis' = None
  BY DEF Older
<1>3. \A p \in Replica : local[p] = None => local'[p] = None
  BY DEF TypeOK, Older
<1>4. \A t \in Task : at[t] \in Replica
  BY DEF TypeOK
<1>5. /\ stored' = stored /\ pc' = pc /\ at' = at /\ copy' = copy
      /\ answer' = answer /\ wrote' = wrote /\ crossed' = crossed
  OBVIOUS
<1> QED
  BY <1>2, <1>3, <1>4, <1>5 DEF Effects, Effect, Undisturbed

LEMMA NextEffects == IInv /\ IInv' /\ Effects /\ [Next]_vars => Effects'
<1> SUFFICES ASSUME TypeOK, TypeOK', Effects, [Next]_vars PROVE Effects'
  BY DEF IInv
<1>1. ASSUME NEW t \in Task, NEW p \in Replica,
             NEW first \in Entrance, Begin(t, p, first)
      PROVE  Effects'
  BY <1>1, BeginEffects
<1>2. ASSUME NEW t \in Task, Step(t)
      PROVE  Effects'
  BY <1>2, WriteEffects, LookEffects, LookLocalEffects, FillEffects DEF Step
<1>3. CASE Evict \/ Tick
  BY <1>3, CacheEffects
<1>4. CASE UNCHANGED vars
  BY <1>4 DEF vars, Effects, Effect, Undisturbed
<1> QED
  BY <1>1, <1>2, <1>3, <1>4 DEF Next

(***************************************************************************)
(* A request that changes the profile and reloads it (a ban, a gift, a     *)
(* voucher) or caches the result (update_account) answers with its own     *)
(* change, unless another request filled a cache it looks at, or Redis     *)
(* skipped one of its calls.                                               *)
(***************************************************************************)
THEOREM OwnEffectAnswered == Spec => []UncrossedAnswerIsFresh
<1>1. Effects => UncrossedAnswerIsFresh
  BY DEF Effects, Effect, Undisturbed, UncrossedAnswerIsFresh
<1>2. Spec => []IInv
  BY Inductive
<1> QED
  BY <1>1, <1>2, InitEffects, NextEffects, PTL DEF Spec
=============================================================================
