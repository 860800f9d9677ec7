-------------------------------- MODULE Gate --------------------------------
(***************************************************************************)
(* The rate limit (src/middleware/rate_limit.rs) of one replica for one    *)
(* address.  The counter is an entry of a cache, which drops it a minute   *)
(* after it was made; the next request makes a new one.                    *)
(***************************************************************************)
EXTENDS Naturals, FiniteSets

CONSTANTS
  Request,   \* requests of the address that run at once
  Limit,     \* rate_limit_per_minute
  Window,    \* RATE_LIMIT_WINDOW: 60 seconds
  MaxHits,   \* bound: a counter that has as many is left alone
  MaxClock   \* bound: the last moment

ASSUME GateAssumption ==
  Limit \in Nat \ {0} /\ Window \in Nat \ {0} /\ MaxClock \in Nat /\ MaxHits \in Nat

Moment == 0 .. MaxClock

VARIABLES
  clock,
  counters,  \* those made so far: the moment they were made, and their count
  current,   \* the number of the one in the cache, or 0
  held,      \* held[q]: the counter request q is about to count on, or 0
  admitted   \* history: the requests let in: on which counter, as which of its
             \* hits, and when

gateVars == <<clock, counters, current, held, admitted>>

GateInit ==
  /\ clock = 0
  /\ counters = <<>> /\ current = 0
  /\ held = [q \in Request |-> 0]
  /\ admitted = {}

Last == Cardinality(DOMAIN counters)
MakeCounter(q) ==
  /\ counters' = [n \in 1 .. Last + 1 |->
                    IF n <= Last THEN counters[n] ELSE [made |-> clock, hits |-> 0]]
  /\ current' = Last + 1
  /\ held' = [held EXCEPT ![q] = Last + 1]
TakeCounter(q) ==
  /\ counters[current].hits < MaxHits
  /\ held' = [held EXCEPT ![q] = current]
  /\ UNCHANGED <<counters, current>>

(* Mistake: who finds no counter makes one, and so does who is beside it.  *)
GetCounterAlone(q) ==
  /\ held[q] = 0
  /\ IF current = 0 \/ counters[current].hits = 0 THEN MakeCounter(q) ELSE TakeCounter(q)
  /\ UNCHANGED <<clock, admitted>>

(* get_with: of requests that find no counter at once, one makes it.       *)
GetCounter(q) ==
  /\ held[q] = 0
  /\ IF current = 0 THEN MakeCounter(q) ELSE TakeCounter(q)
  /\ UNCHANGED <<clock, admitted>>

(* fetch_add, and the comparison with what it returned. *)
Count(q) ==
  LET n == held[q] IN
  /\ n # 0
  /\ counters' = [counters EXCEPT ![n].hits = @ + 1]
  /\ held' = [held EXCEPT ![q] = 0]
  /\ admitted' = IF counters[n].hits + 1 > Limit THEN admitted
                 ELSE admitted \cup {[on |-> n, hit |-> counters[n].hits + 1, at |-> clock]}
  /\ UNCHANGED <<clock, current>>

(* No request is between its two statements on a counter, which have no    *)
(* await in between.                                                       *)
PassTime ==
  /\ clock < MaxClock
  /\ \A q \in Request : held[q] = 0
  /\ clock' = clock + 1
  /\ current' = IF current # 0 /\ counters[current].made + Window <= clock + 1
                THEN 0 ELSE current
  /\ UNCHANGED <<counters, held, admitted>>

GateNext == PassTime \/ \E q \in Request : GetCounter(q) \/ Count(q)

GateSpec == GateInit /\ [][GateNext]_gateVars

-----------------------------------------------------------------------------
(***************************************************************************)
(* A counter lets in at most Limit, whatever meets on it, and lasts a      *)
(* minute from its first request on: so any minute, wherever it begins,    *)
(* sees two of them at most and lets in at most twice the limit.           *)
(***************************************************************************)
MinuteHolds ==
  \A i \in Moment : Cardinality({a \in admitted : a.at \in i .. i + Window - 1}) <= 2 * Limit
=============================================================================
