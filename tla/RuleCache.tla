------------------------------ MODULE RuleCache ------------------------------
(***************************************************************************)
(* The result cache of one Rule, shared by the threads that execute it:    *)
(* the lookup at the start of Rule::execute, the storeInCache at its end   *)
(* with its eviction, and invalidateCache.  The lookup and the store each  *)
(* hold cacheMutex_; the evaluation between them does not.                 *)
(***************************************************************************)
EXTENDS Integers, FiniteSets

CONSTANTS
  Threads,
  Types,         \* the C++ types of a parameter's value
  Texts,         \* what operator<< prints for it
  Duration,      \* cacheDuration
  MaxEntries,    \* kMaxCacheEntries
  None,          \* no cache entry
  MaxTime,       \* bound on the clock
  MaxGeneration  \* bound on calls of invalidateCache

ASSUME BoundsAssumption ==
  /\ Duration \in Nat \ {0} /\ MaxEntries \in Nat \ {0}
  /\ MaxTime \in Nat /\ MaxGeneration \in Nat

(* The parameters of a call: a value, with the type that holds it. *)
Params == [type : Types, text : Texts]

(* buildCacheKey prints the value and drops its type. *)
Key(p) == p.text
Keys == Texts

(* What a call computed, a success or a failure: for which parameters, and  *)
(* how many invalidations had happened when it was evaluated.  raced says   *)
(* that one happened between the evaluation and the store.                  *)
Results == [params : Params, seen : Nat, raced : BOOLEAN]

Entries == [result : Results, expiresAt : Nat, generation : Nat]

ASSUME NoneAssumption == None \notin Entries \cup Results \cup Params

VARIABLES
  now,              \* steady_clock
  cacheGeneration,  \* cacheGeneration_
  cache,            \* cache[k]: the entry of cache_ under key k, or None
  pc,               \* pc[t]: where thread t is in Rule::execute
  params,           \* params[t]: what it was called with
  result            \* result[t]: what it computed, or took from the cache

vars == <<now, cacheGeneration, cache, pc, params, result>>

TypeOK ==
  /\ now \in Nat
  /\ cacheGeneration \in Nat
  /\ cache \in [Keys -> Entries \cup {None}]
  /\ pc \in [Threads -> {"idle", "lookup", "evaluate", "store", "hit"}]
  /\ params \in [Threads -> Params \cup {None}]
  /\ result \in [Threads -> Results \cup {None}]

Init ==
  /\ now = 0
  /\ cacheGeneration = 0
  /\ cache = [k \in Keys |-> None]
  /\ pc = [t \in Threads |-> "idle"]
  /\ params = [t \in Threads |-> None]
  /\ result = [t \in Threads |-> None]

Stored == {k \in Keys : cache[k] # None}

Call(t, p) ==
  /\ pc[t] = "idle"
  /\ pc' = [pc EXCEPT ![t] = "lookup"]
  /\ params' = [params EXCEPT ![t] = p]
  /\ UNCHANGED <<now, cacheGeneration, cache, result>>

(* The entry is not expired and of this generation. *)
Valid(k) ==
  /\ cache[k] # None
  /\ now < cache[k].expiresAt
  /\ cache[k].generation = cacheGeneration

Hit(t) ==
  /\ pc[t] = "lookup"
  /\ Valid(Key(params[t]))
  /\ result' = [result EXCEPT ![t] = cache[Key(params[t])].result]
  /\ pc' = [pc EXCEPT ![t] = "hit"]
  /\ UNCHANGED <<now, cacheGeneration, cache, params>>

(* An entry that is found but not valid is erased. *)
Miss(t) ==
  /\ pc[t] = "lookup"
  /\ ~Valid(Key(params[t]))
  /\ cache' = [cache EXCEPT ![Key(params[t])] = None]
  /\ pc' = [pc EXCEPT ![t] = "evaluate"]
  /\ UNCHANGED <<now, cacheGeneration, params, result>>

(* The rule is evaluated; whether it passes or fails, its result goes on to *)
(* the store.                                                               *)
Evaluate(t) ==
  /\ pc[t] = "evaluate"
  /\ result' = [result EXCEPT ![t] =
       [params |-> params[t], seen |-> cacheGeneration, raced |-> FALSE]]
  /\ pc' = [pc EXCEPT ![t] = "store"]
  /\ UNCHANGED <<now, cacheGeneration, cache, params>>

(***************************************************************************)
(* storeInCache.                                                           *)
(***************************************************************************)
Live == {k \in Stored : cache[k].expiresAt > now}
Full(k) == Cardinality(Stored) >= MaxEntries /\ cache[k] = None

(* One entry that expires first; the map decides between equals. *)
FirstToExpire(k) == \A j \in Live : cache[k].expiresAt <= cache[j].expiresAt

(* A bug: only the expired entries go, even when there are none. *)
KeptAfterSweepOnly(k) == IF Full(k) THEN {Live} ELSE {Stored}

(* The entries that stay when k is stored: all, if there is room or k is   *)
(* there already; else those not expired; and if they are still too many,  *)
(* all but one that expires first.                                         *)
Kept(k) ==
  IF ~Full(k) THEN {Stored}
  ELSE IF Cardinality(Live) < MaxEntries THEN {Live}
  ELSE {Live \ {v} : v \in {j \in Live : FirstToExpire(j)}}

Store(t) ==
  /\ pc[t] = "store"
  /\ LET k == Key(params[t])
         entry == [result |-> result[t], expiresAt |-> now + Duration,
                   generation |-> cacheGeneration]
     IN \E keep \in Kept(k) :
          cache' = [j \in Keys |-> IF j = k THEN entry
                                   ELSE IF j \in keep THEN cache[j] ELSE None]
  /\ pc' = [pc EXCEPT ![t] = "idle"]
  /\ params' = [params EXCEPT ![t] = None]
  /\ result' = [result EXCEPT ![t] = None]
  /\ UNCHANGED <<now, cacheGeneration>>

(* A call that hit returns the result as it is. *)
ReturnHit(t) ==
  /\ pc[t] = "hit"
  /\ pc' = [pc EXCEPT ![t] = "idle"]
  /\ params' = [params EXCEPT ![t] = None]
  /\ result' = [result EXCEPT ![t] = None]
  /\ UNCHANGED <<now, cacheGeneration, cache>>

(* Results on their way from an evaluation to the store. *)
Raced ==
  [t \in Threads |-> IF pc[t] = "store" THEN [result[t] EXCEPT !.raced = TRUE] ELSE result[t]]

InvalidateCache ==
  /\ cacheGeneration < MaxGeneration
  /\ cacheGeneration' = cacheGeneration + 1
  /\ cache' = [k \in Keys |-> None]
  /\ result' = Raced
  /\ UNCHANGED <<now, pc, params>>

Tick ==
  /\ now < MaxTime
  /\ now' = now + 1
  /\ UNCHANGED <<cacheGeneration, cache, pc, params, result>>

Next ==
  \/ \E t \in Threads :
       \/ \E p \in Params : Call(t, p)
       \/ Hit(t) \/ Miss(t) \/ Evaluate(t) \/ Store(t) \/ ReturnHit(t)
  \/ InvalidateCache
  \/ Tick

Spec == Init /\ [][Next]_vars

(***************************************************************************)
(* Properties                                                              *)
(***************************************************************************)

(* "Bound the cache so workloads with highly variable parameters cannot    *)
(* grow it without limit" (rule.cpp:501): threads that miss together and   *)
(* store one after the other stay within kMaxCacheEntries.                 *)
CacheIsBounded == Cardinality(Stored) <= MaxEntries

(* storeInCache gives up a live entry only when it must: no entry that is  *)
(* kept expires sooner than one it has dropped.                            *)
EvictsFirstToExpire ==
  [][\A t \in Threads : Store(t) =>
       \A gone \in Live \ {Key(params[t])}, kept \in Stored \ {Key(params[t])} :
         cache'[gone] = None /\ cache'[kept] # None =>
           cache[gone].expiresAt <= cache[kept].expiresAt]_vars

(* "return the cached result until the TTL expires or the cache is         *)
(* invalidated" (rule.hpp:330): after invalidateCache() no entry holds a   *)
(* result of before, except one that was on its way to the store when      *)
(* invalidateCache() ran, which storeInCache stamps with the new           *)
(* generation.                                                             *)
InvalidationIsSeen ==
  \A k \in Stored :
    ~cache[k].result.raced => cache[k].result.seen = cacheGeneration

(* Threads that look up, evaluate, store and invalidate in any order keep    *)
(* the cache bounded and free of results from before an invalidation.        *)
CacheIsSound == TypeOK /\ CacheIsBounded /\ InvalidationIsSeen
=============================================================================
