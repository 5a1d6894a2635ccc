----------------------------- MODULE MemoryPools ----------------------------
(***************************************************************************)
(* MemoryManager with its MemoryPool of contexts and its VectorPool of     *)
(* result vectors.  Every method of a pool holds the pool's mutex, so each *)
(* is one step.  Callers own what they acquire: they may use it, give it   *)
(* back, let it be destroyed, or give back an object they made themselves. *)
(***************************************************************************)
EXTENDS Integers, Sequences

CONSTANTS
  maxSize,     \* maxSize_ of both pools
  preallocated, \* objects MemoryManager::preallocate asks for
  MaxObjects   \* bound: objects outside of a pool

ASSUME PoolsAssumption == maxSize \in Nat /\ preallocated \in Nat /\ MaxObjects \in Nat

Pools == {"context", "results"}

(* What callers leave in an object: results and variables, or the elements  *)
(* of a vector, are its data; a context has a last error beside them.       *)
Objects == SUBSET {"data", "error"}
Left(p) == IF p = "context" THEN Objects ELSE SUBSET {"data"}
NoData(object) == "data" \notin object

VARIABLES
  pool,            \* pool[p]: queue of free objects
  allocatedCount,  \* allocatedCount[p]
  outside,         \* outside[p]: the objects callers hold, as a sequence
  lost,            \* lost[p]: objects that came out and were destroyed
  foreign          \* foreign[p]: objects that came in from elsewhere

memVars == <<pool, allocatedCount, outside, lost, foreign>>

MemInit ==
  /\ pool = [p \in Pools |-> <<>>] /\ outside = [p \in Pools |-> <<>>]
  /\ allocatedCount = [p \in Pools |-> 0]
  /\ lost = [p \in Pools |-> 0] /\ foreign = [p \in Pools |-> 0]

(* Saturating: the counter is unsigned. *)
DecrementAllocated(n) == IF n > 0 THEN n - 1 ELSE 0

(* MemoryPool::acquire hands the object out as it lies in the queue. *)
AcquireObject(p) ==
  /\ Len(outside[p]) < MaxObjects
  /\ IF pool[p] # <<>>
       THEN /\ outside' = [outside EXCEPT ![p] = Append(@, Head(pool[p]))]
            /\ pool' = [pool EXCEPT ![p] = Tail(@)] /\ UNCHANGED allocatedCount
       ELSE /\ outside' = [outside EXCEPT ![p] = Append(@, {})]
            /\ allocatedCount' = [allocatedCount EXCEPT ![p] = @ + 1] /\ UNCHANGED pool
  /\ UNCHANGED <<lost, foreign>>

(* VectorPool::acquire clears the vector it hands out. *)
AcquireVector(p) ==
  /\ Len(outside[p]) < MaxObjects
  /\ outside' = [outside EXCEPT ![p] = Append(@, {})]
  /\ IF pool[p] # <<>>
       THEN pool' = [pool EXCEPT ![p] = Tail(@)] /\ UNCHANGED allocatedCount
       ELSE allocatedCount' = [allocatedCount EXCEPT ![p] = @ + 1] /\ UNCHANGED pool
  /\ UNCHANGED <<lost, foreign>>

(* A bug: an object a full pool destroys stays counted. *)
ReleaseUncounted(p, object) ==
  /\ pool' = [pool EXCEPT ![p] = IF Len(@) < maxSize THEN Append(@, object) ELSE @]
  /\ UNCHANGED allocatedCount

(* release: into the queue, or destroyed when that is full. *)
Release(p, object) ==
  IF Len(pool[p]) < maxSize
    THEN pool' = [pool EXCEPT ![p] = Append(@, object)] /\ UNCHANGED allocatedCount
    ELSE /\ allocatedCount' = [allocatedCount EXCEPT ![p] = DecrementAllocated(@)]
         /\ UNCHANGED pool

(* RuleContext::clear drops results and variables and keeps the last error. *)
ClearContext(object) == object \ {"data"}

(* MemoryManager: a context is cleared before it goes back, a vector by the *)
(* pool that takes it.                                                      *)
ReleaseContext(object) == Release("context", ClearContext(object))
ReleaseVector(object) == Release("results", {})

GiveBack(p, object) == IF p = "context" THEN ReleaseContext(object) ELSE ReleaseVector(object)

Drop1(s, i) == SubSeq(s, 1, i - 1) \o SubSeq(s, i + 1, Len(s))

ReleaseHeld(p) ==
  \E i \in DOMAIN outside[p] :
    /\ GiveBack(p, outside[p][i])
    /\ outside' = [outside EXCEPT ![p] = Drop1(@, i)]
    /\ UNCHANGED <<lost, foreign>>

ReleaseForeign(p) ==
  /\ foreign[p] < MaxObjects
  /\ \E object \in Left(p) : GiveBack(p, object)
  /\ foreign' = [foreign EXCEPT ![p] = @ + 1]
  /\ UNCHANGED <<outside, lost>>

(* The caller writes to an object, or lets it be destroyed. *)
UseHeld(p) ==
  /\ \E i \in DOMAIN outside[p], object \in Left(p) : outside' = [outside EXCEPT ![p][i] = object]
  /\ UNCHANGED <<pool, allocatedCount, lost, foreign>>
LoseHeld(p) ==
  /\ \E i \in DOMAIN outside[p] : outside' = [outside EXCEPT ![p] = Drop1(@, i)]
  /\ lost[p] < MaxObjects /\ lost' = [lost EXCEPT ![p] = @ + 1]
  /\ UNCHANGED <<pool, allocatedCount, foreign>>

Room(p) == IF maxSize - Len(pool[p]) < preallocated THEN maxSize - Len(pool[p]) ELSE preallocated
Preallocate(p) ==
  /\ pool' = [pool EXCEPT ![p] = @ \o [i \in 1 .. Room(p) |-> {}]]
  /\ allocatedCount' = [allocatedCount EXCEPT ![p] = @ + Room(p)]
  /\ UNCHANGED <<outside, lost, foreign>>

(* clear: one decrement for every object that goes. *)
ClearPool(p) ==
  /\ pool' = [pool EXCEPT ![p] = <<>>]
  /\ allocatedCount' = [allocatedCount EXCEPT ![p] =
       IF @ < Len(pool[p]) THEN 0 ELSE @ - Len(pool[p])]
  /\ UNCHANGED <<outside, lost, foreign>>

PoolNext(p) ==
  \/ p = "context" /\ AcquireObject(p)
  \/ p = "results" /\ AcquireVector(p)
  \/ ReleaseHeld(p) \/ ReleaseForeign(p) \/ UseHeld(p)
  \/ LoseHeld(p) \/ Preallocate(p) \/ ClearPool(p)

MemNext == \E p \in Pools : PoolNext(p)
MemSpec == MemInit /\ [][MemNext]_memVars

-----------------------------------------------------------------------------
MemTypeOK ==
  /\ pool \in [Pools -> Seq(Objects)]
  /\ outside \in [Pools -> Seq(Objects)]
  /\ allocatedCount \in [Pools -> Nat] /\ lost \in [Pools -> Nat] /\ foreign \in [Pools -> Nat]

(* No sequence of calls makes a pool keep more than maxSize objects. *)
PoolIsBounded == \A p \in Pools : Len(pool[p]) <= maxSize

(* What a pool hands out holds no result, variable or element of its last   *)
(* user, although only the manager, and not MemoryPool, clears a context.    *)
FreeObjectsHoldNoData == \A p \in Pools : \A i \in DOMAIN pool[p] : NoData(pool[p][i])

(* "Clear context state before returning to pool" (memory_pool.cpp:32): a    *)
(* context in the pool is as it was made.  clear() keeps the last error, so  *)
(* it is not.                                                                *)
FreeContextsAreEmpty == \A i \in DOMAIN pool["context"] : pool["context"][i] = {}

(* getStats: as long as callers give back what they took and nothing else,   *)
(* the count is the objects in the pool plus the objects in use.  Otherwise  *)
(* it is off by at most what was lost or came from elsewhere.                *)
AllocatedCountIsExact ==
  \A p \in Pools :
    LET live == Len(pool[p]) + Len(outside[p]) IN
      /\ lost[p] = 0 /\ foreign[p] = 0 => allocatedCount[p] = live
      /\ allocatedCount[p] <= live + lost[p]
      /\ allocatedCount[p] >= live - foreign[p]

(* Whatever callers take, lose and give back: the pools stay bounded, hand   *)
(* out objects without data, and count what is alive.                        *)
PoolsAreSound == MemTypeOK /\ PoolIsBounded /\ FreeObjectsHoldNoData /\ AllocatedCountIsExact
=============================================================================
