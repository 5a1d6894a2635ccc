--------------------------- MODULE ServicesProofs ---------------------------
(***************************************************************************)
(* What the services beside an execution promise, for any number of        *)
(* threads, keys and objects: the result cache, the memory pools, the rate *)
(* limiter, rule versions, the counters and adaptive execution.            *)
(***************************************************************************)
EXTENDS MCServices, FiniteSetTheorems, SequenceTheorems, WellFoundedInduction, TLAPS

(***************************************************************************)
(* The result cache                                                        *)
(***************************************************************************)

(* Between the lookup and the store a call has its parameters, and at the  *)
(* store it has its result.                                                *)
CallInv ==
  \A t \in Threads :
    /\ pc[t] \in {"lookup", "evaluate", "store"} => params[t] \in Params
    /\ pc[t] = "store" => result[t] \in Results

CacheTypeInv == TypeOK /\ CallInv

LEMMA CacheTypeInit == Init => CacheTypeInv
BY DEF Init, CacheTypeInv, TypeOK, CallInv

LEMMA CacheTypeStep == CacheTypeInv /\ [Next]_vars => CacheTypeInv'
<1> SUFFICES ASSUME CacheTypeInv, [Next]_vars PROVE CacheTypeInv'
  OBVIOUS
<1> USE DEF CacheTypeInv, TypeOK, CallInv
<1>1. ASSUME NEW t \in Threads, NEW p \in Params, Call(t, p) PROVE CacheTypeInv'
  BY <1>1 DEF Call
<1>2. ASSUME NEW t \in Threads, Hit(t) PROVE CacheTypeInv'
  <2>1. params[t] \in Params /\ Key(params[t]) \in Keys
    BY <1>2 DEF Hit, Key, Keys, Params
  <2>2. cache[Key(params[t])] \in Entries
    BY <1>2, <2>1 DEF Hit, Valid
  <2>3. cache[Key(params[t])].result \in Results
    BY <2>2 DEF Entries
  <2> QED BY <1>2, <2>3 DEF Hit
<1>3. ASSUME NEW t \in Threads, Miss(t) PROVE CacheTypeInv'
  BY <1>3 DEF Miss
<1>4. ASSUME NEW t \in Threads, Evaluate(t) PROVE CacheTypeInv'
  <2>1. [params |-> params[t], seen |-> cacheGeneration, raced |-> FALSE] \in Results
    BY <1>4 DEF Evaluate, Results
  <2> QED BY <1>4, <2>1 DEF Evaluate
<1>5. ASSUME NEW t \in Threads, Store(t) PROVE CacheTypeInv'
  <2> DEFINE entry == [result |-> result[t], expiresAt |-> now + Duration,
                       generation |-> cacheGeneration]
  <2>1. entry \in Entries
    BY <1>5, BoundsAssumption DEF Store, Entries
  <2>2. PICK keep \in Kept(Key(params[t])) :
          cache' = [j \in Keys |-> IF j = Key(params[t]) THEN entry
                                   ELSE IF j \in keep THEN cache[j] ELSE None]
    BY <1>5 DEF Store
  <2>3. cache' \in [Keys -> Entries \cup {None}]
    BY <2>1, <2>2
  <2> QED BY <1>5, <2>3 DEF Store
<1>6. ASSUME NEW t \in Threads, ReturnHit(t) PROVE CacheTypeInv'
  BY <1>6 DEF ReturnHit
<1>7. ASSUME InvalidateCache PROVE CacheTypeInv'
  <2>1. ASSUME NEW t \in Threads, pc[t] = "store" PROVE [result[t] EXCEPT !.raced = TRUE] \in Results
    BY <2>1 DEF Results
  <2>2. result' \in [Threads -> Results \cup {None}]
    BY <1>7, <2>1 DEF InvalidateCache, Raced
  <2>3. \A t \in Threads : pc[t] = "store" => result'[t] \in Results
    BY <1>7, <2>1 DEF InvalidateCache, Raced
  <2> QED BY <1>7, <2>2, <2>3 DEF InvalidateCache
<1>8. CASE Tick
  BY <1>8 DEF Tick
<1>9. CASE UNCHANGED vars
  BY <1>9 DEF vars
<1> QED BY <1>1, <1>2, <1>3, <1>4, <1>5, <1>6, <1>7, <1>8, <1>9 DEF Next

(* The cache of a rule, and what its callers hold, keep their types. *)
THEOREM CacheTypeCorrect == Spec => []TypeOK
<1>1. CacheTypeInv => TypeOK
  BY DEF CacheTypeInv
<1> QED BY <1>1, CacheTypeInit, CacheTypeStep, PTL DEF Spec

(* A result that is stored, or about to be, is of the current generation   *)
(* unless an invalidation came in between.                                 *)
SeenInv ==
  /\ InvalidationIsSeen
  /\ \A t \in Threads : pc[t] = "store" /\ ~result[t].raced => result[t].seen = cacheGeneration

LEMMA SeenStep == CacheTypeInv /\ SeenInv /\ [Next]_vars => SeenInv'
<1> SUFFICES ASSUME CacheTypeInv, SeenInv, [Next]_vars PROVE SeenInv'
  OBVIOUS
<1> USE DEF CacheTypeInv, TypeOK, CallInv, SeenInv, InvalidationIsSeen, Stored
<1>1. ASSUME NEW t \in Threads, NEW p \in Params, Call(t, p) PROVE SeenInv'
  BY <1>1 DEF Call
<1>2. ASSUME NEW t \in Threads, Hit(t) PROVE SeenInv'
  BY <1>2 DEF Hit
<1>3. ASSUME NEW t \in Threads, Miss(t) PROVE SeenInv'
  BY <1>3 DEF Miss
<1>4. ASSUME NEW t \in Threads, Evaluate(t) PROVE SeenInv'
  BY <1>4 DEF Evaluate
<1>5. ASSUME NEW t \in Threads, Store(t) PROVE SeenInv'
  <2> DEFINE entry == [result |-> result[t], expiresAt |-> now + Duration,
                       generation |-> cacheGeneration]
  <2>1. PICK keep \in Kept(Key(params[t])) :
          cache' = [j \in Keys |-> IF j = Key(params[t]) THEN entry
                                   ELSE IF j \in keep THEN cache[j] ELSE None]
    BY <1>5 DEF Store
  <2>2. ~result[t].raced => result[t].seen = cacheGeneration
    BY <1>5 DEF Store
  <2>3. ASSUME NEW j \in Keys, cache'[j] # None, ~cache'[j].result.raced
        PROVE cache'[j].result.seen = cacheGeneration
    BY <2>1, <2>2, <2>3
  <2> QED BY <1>5, <2>3 DEF Store
<1>6. ASSUME NEW t \in Threads, ReturnHit(t) PROVE SeenInv'
  BY <1>6 DEF ReturnHit
<1>7. ASSUME InvalidateCache PROVE SeenInv'
  <2>1. ASSUME NEW t \in Threads, pc[t] = "store" PROVE result'[t].raced
    BY <1>7, <2>1 DEF InvalidateCache, Raced, Results
  <2> QED BY <1>7, <2>1 DEF InvalidateCache
<1>8. CASE Tick
  BY <1>8 DEF Tick
<1>9. CASE UNCHANGED vars
  BY <1>9 DEF vars
<1> QED BY <1>1, <1>2, <1>3, <1>4, <1>5, <1>6, <1>7, <1>8, <1>9 DEF Next

(* After invalidateCache() an entry of before is served only if it was     *)
(* between its evaluation and storeInCache, however the threads interleave. *)
THEOREM InvalidationSeen == Spec => []InvalidationIsSeen
<1>1. Init => SeenInv
  BY DEF Init, SeenInv, InvalidationIsSeen, Stored
<1>2. SeenInv => InvalidationIsSeen
  BY DEF SeenInv
<1> QED BY <1>1, <1>2, SeenStep, CacheTypeInit, CacheTypeStep, PTL DEF Spec

(* The keys with an entry are finitely many and within the limit. *)
BoundInv == IsFiniteSet(Stored) /\ Cardinality(Stored) <= MaxEntries

LEMMA SmallerStored ==
  ASSUME BoundInv, Stored' \subseteq Stored PROVE BoundInv'
<1>1. IsFiniteSet(Stored') /\ Cardinality(Stored') <= Cardinality(Stored)
  BY FS_Subset DEF BoundInv
<1>2. Cardinality(Stored) \in Nat /\ Cardinality(Stored') \in Nat
  BY <1>1, FS_CardinalityType DEF BoundInv
<1> QED BY <1>1, <1>2, BoundsAssumption DEF BoundInv

LEMMA BoundStep == CacheTypeInv /\ BoundInv /\ [Next]_vars => BoundInv'
<1> SUFFICES ASSUME CacheTypeInv, BoundInv, [Next]_vars PROVE BoundInv'
  OBVIOUS
<1> USE DEF CacheTypeInv, TypeOK, CallInv
<1>1. ASSUME NEW t \in Threads, Store(t) PROVE BoundInv'
  <2> DEFINE k == Key(params[t])
             entry == [result |-> result[t], expiresAt |-> now + Duration,
                       generation |-> cacheGeneration]
  <2>1. PICK keep \in Kept(k) :
          cache' = [j \in Keys |-> IF j = k THEN entry
                                   ELSE IF j \in keep THEN cache[j] ELSE None]
    BY <1>1 DEF Store
  <2>2. Live \subseteq Stored /\ IsFiniteSet(Stored)
    BY DEF Live, BoundInv
  <2>3. IsFiniteSet(Live) /\ Cardinality(Live) <= Cardinality(Stored)
    BY <2>2, FS_Subset
  <2>4. Cardinality(Stored) \in Nat /\ Cardinality(Live) \in Nat
    BY <2>2, <2>3, FS_CardinalityType
  <2>5. Stored' \subseteq keep \cup {k}
    BY <2>1 DEF Stored
  <2>6. CASE ~Full(k) /\ cache[k] # None
    <3>1. k \in Keys
      BY <1>1 DEF Store, Key, Keys, Params
    <3>2. Stored' \subseteq Stored
      BY <2>1, <2>6, <3>1 DEF Kept, Stored
    <3> QED BY <3>2, SmallerStored
  <2>7. CASE cache[k] = None
    <3>1. IsFiniteSet(keep) /\ Cardinality(keep) \in Nat /\ Cardinality(keep) < MaxEntries
      <4>1. CASE ~Full(k)
        BY <4>1, <2>1, <2>2, <2>4, <2>7, BoundsAssumption DEF Kept, Full
      <4>2. CASE Full(k) /\ Cardinality(Live) < MaxEntries
        BY <4>2, <2>1, <2>3, <2>4 DEF Kept
      <4>3. CASE Full(k) /\ ~(Cardinality(Live) < MaxEntries)
        <5>1. PICK v \in Live : keep = Live \ {v}
          BY <4>3, <2>1 DEF Kept
        <5>2. IsFiniteSet(keep) /\ Cardinality(keep) = Cardinality(Live) - 1
          BY <5>1, <2>3, FS_RemoveElement
        <5> QED BY <5>2, <2>3, <2>4, <4>3, FS_CardinalityType, BoundsAssumption DEF BoundInv
      <4> QED BY <4>1, <4>2, <4>3
    <3>2. IsFiniteSet(keep \cup {k}) /\ Cardinality(keep \cup {k}) <= Cardinality(keep) + 1
      <4>1. IsFiniteSet(keep \cup {k})
        BY <3>1, FS_AddElement
      <4>2. Cardinality(keep \cup {k})
              = IF k \in keep THEN Cardinality(keep) ELSE Cardinality(keep) + 1
        BY <3>1, FS_AddElement
      <4>3. \/ Cardinality(keep \cup {k}) = Cardinality(keep)
            \/ Cardinality(keep \cup {k}) = Cardinality(keep) + 1
        BY <4>2
      <4> HIDE DEF k
      <4> QED BY <3>1, <4>1, <4>3
    <3>3. /\ IsFiniteSet(Stored') /\ Cardinality(Stored') <= Cardinality(keep \cup {k})
      BY <2>5, <3>2, FS_Subset
    <3>4. Cardinality(Stored') \in Nat /\ Cardinality(keep \cup {k}) \in Nat
      BY <3>2, <3>3, FS_CardinalityType
    <3> QED BY <3>1, <3>2, <3>3, <3>4, BoundsAssumption DEF BoundInv
  <2>8. Full(k) => cache[k] = None
    BY DEF Full
  <2> QED BY <2>6, <2>7, <2>8
<1>2. ASSUME NEW t \in Threads, Miss(t) PROVE BoundInv'
  <2>1. Stored' \subseteq Stored
    BY <1>2 DEF Miss, Stored
  <2> QED BY <2>1, SmallerStored
<1>3. CASE InvalidateCache
  <2>1. Stored' \subseteq Stored
    BY <1>3 DEF InvalidateCache, Stored
  <2> QED BY <2>1, SmallerStored
<1>4. CASE UNCHANGED cache
  BY <1>4 DEF BoundInv, Stored
<1>5. CASE UNCHANGED vars
  BY <1>4, <1>5 DEF vars
<1> QED BY <1>1, <1>2, <1>3, <1>4, <1>5 DEF Next, Call, Hit, Evaluate, ReturnHit, Tick

(* storeInCache keeps the cache within kMaxCacheEntries, whoever missed    *)
(* together.                                                               *)
THEOREM CacheBounded == Spec => []CacheIsBounded
<1>1. Init => BoundInv
  <2> SUFFICES ASSUME Init PROVE BoundInv
    OBVIOUS
  <2>1. Stored = {}
    BY DEF Init, Stored
  <2> QED BY <2>1, FS_EmptySet, BoundsAssumption DEF BoundInv
<1>2. BoundInv => CacheIsBounded
  BY DEF BoundInv, CacheIsBounded
<1> QED BY <1>1, <1>2, BoundStep, CacheTypeInit, CacheTypeStep, PTL DEF Spec

(* storeInCache never drops a live entry that would have outlived one that *)
(* it keeps.                                                               *)
THEOREM EvictionOrder == Spec => EvictsFirstToExpire
<1> DEFINE Evicts ==
      \A t \in Threads : Store(t) =>
        \A gone \in Live \ {Key(params[t])}, kept \in Stored \ {Key(params[t])} :
          cache'[gone] = None /\ cache'[kept] # None =>
            cache[gone].expiresAt <= cache[kept].expiresAt
<1>1. CacheTypeInv => Evicts
  <2> SUFFICES ASSUME CacheTypeInv, NEW t \in Threads, Store(t),
                      NEW gone \in Live \ {Key(params[t])},
                      NEW kept \in Stored \ {Key(params[t])},
                      cache'[gone] = None, cache'[kept] # None
               PROVE cache[gone].expiresAt <= cache[kept].expiresAt
    OBVIOUS
  <2> DEFINE k == Key(params[t])
             entry == [result |-> result[t], expiresAt |-> now + Duration,
                       generation |-> cacheGeneration]
  <2>1. PICK keep \in Kept(k) :
          cache' = [j \in Keys |-> IF j = k THEN entry
                                   ELSE IF j \in keep THEN cache[j] ELSE None]
    BY DEF Store
  <2>2. gone \in Keys /\ kept \in Keys /\ cache[gone] # None /\ gone # k /\ kept # k
    BY DEF Live, Stored
  <2>3. gone \notin keep /\ kept \in keep
    BY <2>1, <2>2
  <2>4. gone \in Stored /\ gone \in Live
    BY DEF Live
  <2>5. PICK v \in Live : FirstToExpire(v) /\ keep = Live \ {v}
    BY <2>1, <2>3, <2>4 DEF Kept
  <2>6. gone = v /\ kept \in Live
    BY <2>3, <2>4, <2>5
  <2> QED BY <2>5, <2>6 DEF FirstToExpire
<1>2. CacheTypeInv /\ [Next]_vars => [Evicts]_vars
  BY <1>1
<1> QED BY <1>2, CacheTypeInit, CacheTypeStep, PTL DEF Spec, EvictsFirstToExpire

(* Threads that look up, evaluate, store and invalidate in any order keep  *)
(* the cache of a rule bounded and free of what an invalidation outdated.  *)
THEOREM CacheSound == Spec => []CacheIsSound
BY CacheTypeCorrect, CacheBounded, InvalidationSeen, PTL DEF CacheIsSound

(***************************************************************************)
(* The memory pools                                                        *)
(***************************************************************************)

(* An object that leaves the caller's hands shortens what it holds by one. *)
LEMMA DropOne ==
  ASSUME NEW s \in Seq(Objects), NEW i \in DOMAIN s
  PROVE Drop1(s, i) \in Seq(Objects) /\ Len(Drop1(s, i)) = Len(s) - 1
<1> DEFINE a == SubSeq(s, 1, i - 1)
           b == SubSeq(s, i + 1, Len(s))
<1>1. i \in 1 .. Len(s) /\ Len(s) \in Nat
  OBVIOUS
<1>2. a \in Seq(Objects) /\ Len(a) = i - 1
  BY <1>1, SubSeqProperties
<1>3. b \in Seq(Objects) /\ Len(b) = Len(s) - i
  BY <1>1, SubSeqProperties
<1>4. Drop1(s, i) = a \o b
  BY DEF Drop1
<1> HIDE DEF a, b
<1>5. a \o b \in Seq(Objects) /\ Len(a \o b) = Len(a) + Len(b)
  BY <1>2, <1>3, ConcatProperties
<1> QED BY <1>1, <1>2, <1>3, <1>4, <1>5

LEMMA NewObject == {} \in Objects
BY DEF Objects

LEMMA NewObjects ==
  ASSUME NEW n \in Nat
  PROVE /\ [i \in 1 .. n |-> {}] \in Seq(Objects)
        /\ Len([i \in 1 .. n |-> {}]) = n
BY NewObject

(* The counter of a pool with q objects queued and h held, g lost and m    *)
(* from elsewhere.                                                         *)
Accounted(q, h, c, g, m) ==
  /\ g = 0 /\ m = 0 => c = q + h
  /\ c <= q + h + g
  /\ c >= (q + h) - m

(* What holds of one pool: its queue, the objects outside, its counter,    *)
(* and how many objects were lost or came from elsewhere.                  *)
PoolSound(queue, held, count, gone, came) ==
  /\ queue \in Seq(Objects) /\ held \in Seq(Objects)
  /\ count \in Nat /\ gone \in Nat /\ came \in Nat
  /\ Len(queue) <= maxSize
  /\ \A i \in DOMAIN queue : NoData(queue[i])
  /\ Accounted(Len(queue), Len(held), count, gone, came)

LEMMA EachPool ==
  ASSUME PoolsAreSound, NEW p \in Pools
  PROVE PoolSound(pool[p], outside[p], allocatedCount[p], lost[p], foreign[p])
BY DEF PoolsAreSound, PoolSound, Accounted, MemTypeOK, PoolIsBounded,
       FreeObjectsHoldNoData, AllocatedCountIsExact, Objects

(* A step that leaves one pool sound and does not touch the other.         *)
Only(p) ==
  /\ pool' = [pool EXCEPT ![p] = pool'[p]]
  /\ outside' = [outside EXCEPT ![p] = outside'[p]]
  /\ allocatedCount' = [allocatedCount EXCEPT ![p] = allocatedCount'[p]]
  /\ lost' = [lost EXCEPT ![p] = lost'[p]]
  /\ foreign' = [foreign EXCEPT ![p] = foreign'[p]]

LEMMA OnePool ==
  ASSUME PoolsAreSound, NEW p \in Pools, Only(p),
         PoolSound(pool'[p], outside'[p], allocatedCount'[p], lost'[p], foreign'[p])
  PROVE PoolsAreSound'
<1> USE DEF Objects
<1>1. MemTypeOK'
  BY DEF PoolsAreSound, MemTypeOK, PoolSound, Only
<1>2. ASSUME NEW q \in Pools
      PROVE PoolSound(pool'[q], outside'[q], allocatedCount'[q], lost'[q], foreign'[q])
  <2>1. CASE q = p
    BY <2>1
  <2>2. CASE q # p
    <3>1. /\ pool'[q] = pool[q] /\ outside'[q] = outside[q] /\ lost'[q] = lost[q]
          /\ allocatedCount'[q] = allocatedCount[q] /\ foreign'[q] = foreign[q]
      BY <2>2 DEF PoolsAreSound, MemTypeOK, Only
    <3> QED BY <3>1, EachPool
  <2> QED BY <2>1, <2>2
<1>3. PoolIsBounded' /\ FreeObjectsHoldNoData'
  BY <1>2 DEF PoolSound, PoolIsBounded, FreeObjectsHoldNoData
<1>4. AllocatedCountIsExact'
  <2> SUFFICES ASSUME NEW q \in Pools
               PROVE LET live == Len(pool'[q]) + Len(outside'[q]) IN
                       /\ lost'[q] = 0 /\ foreign'[q] = 0 => allocatedCount'[q] = live
                       /\ allocatedCount'[q] <= live + lost'[q]
                       /\ allocatedCount'[q] >= live - foreign'[q]
    BY DEF AllocatedCountIsExact
  <2>1. Accounted(Len(pool'[q]), Len(outside'[q]), allocatedCount'[q], lost'[q], foreign'[q])
    BY <1>2 DEF PoolSound
  <2> QED BY <2>1 DEF Accounted
<1> QED BY <1>1, <1>3, <1>4 DEF PoolsAreSound

(* MemoryManager gives only objects without data to release; a full pool   *)
(* destroys the object and counts it down.                                 *)
LEMMA ReleaseStep ==
  ASSUME PoolsAreSound, NEW p \in Pools, NEW object \in Objects, GiveBack(p, object)
  PROVE \E x \in Objects :
        /\ NoData(x)
        /\ pool' = [pool EXCEPT ![p] = pool'[p]]
        /\ allocatedCount' = [allocatedCount EXCEPT ![p] = allocatedCount'[p]]
        /\ \/ /\ Len(pool[p]) < maxSize /\ pool'[p] = Append(pool[p], x)
              /\ allocatedCount'[p] = allocatedCount[p]
           \/ /\ pool'[p] = pool[p]
              /\ allocatedCount'[p] = DecrementAllocated(allocatedCount[p])
<1> DEFINE x == IF p = "context" THEN ClearContext(object) ELSE {}
<1>1. x \in Objects /\ NoData(x)
  BY DEF ClearContext, Objects, NoData
<1>2. Release(p, x)
  BY DEF GiveBack, ReleaseContext, ReleaseVector, Pools
<1> HIDE DEF x
<1>3. CASE Len(pool[p]) < maxSize
  BY <1>1, <1>2, <1>3 DEF Release, PoolsAreSound, MemTypeOK
<1>4. CASE ~(Len(pool[p]) < maxSize)
  BY <1>1, <1>2, <1>4 DEF Release, PoolsAreSound, MemTypeOK
<1> QED BY <1>3, <1>4

LEMMA AppendFree ==
  ASSUME NEW s \in Seq(Objects), \A i \in DOMAIN s : NoData(s[i]),
         NEW x \in Objects, NoData(x)
  PROVE /\ Append(s, x) \in Seq(Objects) /\ Len(Append(s, x)) = Len(s) + 1
        /\ \A i \in DOMAIN Append(s, x) : NoData(Append(s, x)[i])
OBVIOUS

LEMMA TailFree ==
  ASSUME NEW s \in Seq(Objects), s # <<>>, \A i \in DOMAIN s : NoData(s[i])
  PROVE /\ Head(s) \in Objects
        /\ Tail(s) \in Seq(Objects) /\ Len(Tail(s)) = Len(s) - 1
        /\ \A i \in DOMAIN Tail(s) : NoData(Tail(s)[i])
OBVIOUS

LEMMA AppendHeld ==
  ASSUME NEW s \in Seq(Objects), NEW x \in Objects
  PROVE Append(s, x) \in Seq(Objects) /\ Len(Append(s, x)) = Len(s) + 1
OBVIOUS

(* An acquire takes the head of the queue or makes a new object.           *)
LEMMA AcquireStep ==
  ASSUME PoolsAreSound, NEW p \in Pools, NEW x \in Objects,
         outside' = [outside EXCEPT ![p] = Append(outside[p], x)],
         IF pool[p] # <<>>
           THEN pool' = [pool EXCEPT ![p] = Tail(pool[p])] /\ allocatedCount' = allocatedCount
           ELSE /\ allocatedCount' = [allocatedCount EXCEPT ![p] = allocatedCount[p] + 1]
                /\ pool' = pool,
         UNCHANGED <<lost, foreign>>
  PROVE PoolsAreSound'
<1> DEFINE queue == pool[p]
           held == outside[p]
           count == allocatedCount[p]
           gone == lost[p]
           came == foreign[p]
           got == Append(held, x)
           rest == Tail(queue)
<1>1. PoolSound(queue, held, count, gone, came)
  BY EachPool
<1>2. got \in Seq(Objects) /\ Len(got) = Len(held) + 1
  BY <1>1, AppendHeld DEF PoolSound
<1>3. /\ Only(p) /\ outside'[p] = got /\ lost'[p] = gone /\ foreign'[p] = came
      /\ queue # <<>> => pool'[p] = rest /\ allocatedCount'[p] = count
      /\ queue = <<>> => pool'[p] = queue /\ allocatedCount'[p] = count + 1
  BY DEF Only, PoolsAreSound, MemTypeOK
<1>4. CASE queue # <<>>
  <2>1. /\ rest \in Seq(Objects) /\ Len(rest) = Len(queue) - 1
        /\ \A i \in DOMAIN rest : NoData(rest[i])
    BY <1>1, <1>4, TailFree DEF PoolSound
  <2>2. PoolSound(rest, got, count, gone, came)
    <3> HIDE DEF queue, held, count, gone, came, got, rest
    <3>1. Len(queue) \in Nat /\ Len(held) \in Nat
      BY <1>1 DEF PoolSound
    <3>2. Accounted(Len(rest), Len(got), count, gone, came)
      <4>1. /\ count \in Nat /\ gone \in Nat /\ came \in Nat
            /\ Accounted(Len(queue), Len(held), count, gone, came)
        BY <1>1 DEF PoolSound
      <4>2. Len(rest) = Len(queue) - 1 /\ Len(got) = Len(held) + 1
        BY <1>2, <2>1
      <4> QED BY <3>1, <4>1, <4>2, SMTT(20) DEF Accounted
    <3>3. Len(rest) <= maxSize
      BY <1>1, <2>1, <3>1, PoolsAssumption DEF PoolSound
    <3> QED BY <1>1, <1>2, <2>1, <3>2, <3>3 DEF PoolSound
  <2> QED BY <1>3, <1>4, <2>2, OnePool
<1>5. CASE queue = <<>>
  <2>1. PoolSound(queue, got, count + 1, gone, came)
    <3> HIDE DEF queue, held, count, gone, came, got
    <3>1. Len(queue) \in Nat /\ Len(held) \in Nat
      BY <1>1 DEF PoolSound
    <3>2. Accounted(Len(queue), Len(got), count + 1, gone, came)
      <4>1. /\ count \in Nat /\ gone \in Nat /\ came \in Nat
            /\ Accounted(Len(queue), Len(held), count, gone, came)
        BY <1>1 DEF PoolSound
      <4> QED BY <4>1, <1>2, <3>1, SMTT(20) DEF Accounted
    <3> QED BY <1>1, <1>2, <3>2 DEF PoolSound
  <2> QED BY <1>3, <1>5, <2>1, OnePool
<1> QED BY <1>4, <1>5

LEMMA PoolsStep == PoolsAreSound /\ [MemNext]_memVars => PoolsAreSound'
<1> SUFFICES ASSUME PoolsAreSound, [MemNext]_memVars PROVE PoolsAreSound'
  OBVIOUS
<1>1. CASE AcquireObject("context")
  <2>1. "context" \in Pools
    BY DEF Pools
  <2>2. pool["context"] # <<>> => Head(pool["context"]) \in Objects
    BY <2>1 DEF PoolsAreSound, MemTypeOK, Objects
  <2>3. CASE pool["context"] # <<>>
    BY <1>1, <2>1, <2>2, <2>3, AcquireStep DEF AcquireObject
  <2>4. CASE pool["context"] = <<>>
    BY <1>1, <2>1, <2>4, NewObject, AcquireStep DEF AcquireObject
  <2> QED BY <2>3, <2>4
<1>2. CASE AcquireVector("results")
  <2>1. "results" \in Pools
    BY DEF Pools
  <2> QED BY <1>2, <2>1, NewObject, AcquireStep DEF AcquireVector
<1>3. ASSUME NEW p \in Pools, ReleaseHeld(p) PROVE PoolsAreSound'
  <2> DEFINE queue == pool[p]
             held == outside[p]
             count == allocatedCount[p]
             gone == lost[p]
             came == foreign[p]
  <2>1. PICK i \in DOMAIN held :
          /\ GiveBack(p, held[i])
          /\ outside' = [outside EXCEPT ![p] = Drop1(held, i)]
          /\ UNCHANGED <<lost, foreign>>
    BY <1>3 DEF ReleaseHeld
  <2> DEFINE fewer == Drop1(held, i)
  <2>2. PoolSound(queue, held, count, gone, came)
    BY EachPool
  <2>3. fewer \in Seq(Objects) /\ Len(fewer) = Len(held) - 1
    BY <2>2, DropOne DEF PoolSound
  <2>7. Len(queue) \in Nat /\ Len(held) \in Nat /\ Len(held) >= 1
    <3>1. held \in Seq(Objects) /\ queue \in Seq(Objects)
      BY <2>2 DEF PoolSound
    <3> QED BY <3>1
  <2>8. held[i] \in Objects
    BY <2>1, <2>2 DEF PoolSound
  <2>9. PICK x \in Objects :
          /\ NoData(x)
          /\ pool' = [pool EXCEPT ![p] = pool'[p]]
          /\ allocatedCount' = [allocatedCount EXCEPT ![p] = allocatedCount'[p]]
          /\ \/ Len(queue) < maxSize /\ pool'[p] = Append(queue, x) /\ allocatedCount'[p] = count
             \/ pool'[p] = queue /\ allocatedCount'[p] = DecrementAllocated(count)
    BY <2>1, <2>8, ReleaseStep
  <2> DEFINE grown == Append(queue, x)
  <2>4. /\ Only(p) /\ outside'[p] = fewer /\ lost'[p] = gone /\ foreign'[p] = came
        /\ \/ Len(queue) < maxSize /\ pool'[p] = grown /\ allocatedCount'[p] = count
           \/ pool'[p] = queue /\ allocatedCount'[p] = DecrementAllocated(count)
    BY <2>1, <2>9 DEF Only, PoolsAreSound, MemTypeOK
  <2>5. CASE Len(queue) < maxSize /\ pool'[p] = grown /\ allocatedCount'[p] = count
    <3>1. /\ grown \in Seq(Objects) /\ Len(grown) = Len(queue) + 1
          /\ \A j \in DOMAIN grown : NoData(grown[j])
      BY <2>2, <2>9, AppendFree DEF PoolSound
    <3>2. PoolSound(grown, fewer, count, gone, came)
      <4> HIDE DEF queue, held, count, gone, came, grown, fewer
      <4>1. Accounted(Len(grown), Len(fewer), count, gone, came)
        <5>1. /\ count \in Nat /\ gone \in Nat /\ came \in Nat
              /\ Accounted(Len(queue), Len(held), count, gone, came)
          BY <2>2 DEF PoolSound
        <5> QED BY <5>1, <2>3, <2>7, <3>1, SMTT(20) DEF Accounted
      <4>2. Len(grown) <= maxSize
        BY <2>7, <2>5, <3>1, PoolsAssumption
      <4> QED BY <2>2, <2>3, <3>1, <4>1, <4>2 DEF PoolSound
    <3> QED BY <2>4, <2>5, <3>2, OnePool
  <2>6. CASE pool'[p] = queue /\ allocatedCount'[p] = DecrementAllocated(count)
    <3>1. PoolSound(queue, fewer, DecrementAllocated(count), gone, came)
      <4> HIDE DEF queue, held, count, gone, came, fewer
      <4>1. Accounted(Len(queue), Len(fewer), DecrementAllocated(count), gone, came)
        BY <2>2, <2>3, <2>7 DEF PoolSound, Accounted, DecrementAllocated
      <4>2. DecrementAllocated(count) \in Nat
        BY <2>2 DEF PoolSound, DecrementAllocated
      <4> QED BY <2>2, <2>3, <4>1, <4>2 DEF PoolSound
    <3> QED BY <2>4, <2>6, <3>1, OnePool
  <2> QED BY <2>4, <2>5, <2>6
<1>4. ASSUME NEW p \in Pools, ReleaseForeign(p) PROVE PoolsAreSound'
  <2> DEFINE queue == pool[p]
             held == outside[p]
             count == allocatedCount[p]
             gone == lost[p]
             came == foreign[p]
  <2>1. PICK object \in Left(p) : GiveBack(p, object)
    BY <1>4 DEF ReleaseForeign
  <2>6. /\ foreign' = [foreign EXCEPT ![p] = came + 1]
        /\ UNCHANGED <<outside, lost>>
    BY <1>4 DEF ReleaseForeign
  <2>2. PoolSound(queue, held, count, gone, came)
    BY EachPool
  <2>7. object \in Objects
    BY <2>1 DEF Left, Objects
  <2>8. PICK x \in Objects :
          /\ NoData(x)
          /\ pool' = [pool EXCEPT ![p] = pool'[p]]
          /\ allocatedCount' = [allocatedCount EXCEPT ![p] = allocatedCount'[p]]
          /\ \/ Len(queue) < maxSize /\ pool'[p] = Append(queue, x) /\ allocatedCount'[p] = count
             \/ pool'[p] = queue /\ allocatedCount'[p] = DecrementAllocated(count)
    BY <2>1, <2>7, ReleaseStep
  <2> DEFINE grown == Append(queue, x)
  <2>3. /\ Only(p) /\ outside'[p] = held /\ lost'[p] = gone /\ foreign'[p] = came + 1
        /\ \/ Len(queue) < maxSize /\ pool'[p] = grown /\ allocatedCount'[p] = count
           \/ pool'[p] = queue /\ allocatedCount'[p] = DecrementAllocated(count)
    BY <2>6, <2>8 DEF Only, PoolsAreSound, MemTypeOK
  <2>4. CASE Len(queue) < maxSize /\ pool'[p] = grown /\ allocatedCount'[p] = count
    <3>1. /\ grown \in Seq(Objects) /\ Len(grown) = Len(queue) + 1
          /\ \A j \in DOMAIN grown : NoData(grown[j])
      BY <2>2, <2>8, AppendFree DEF PoolSound
    <3>2. PoolSound(grown, held, count, gone, came + 1)
      <4> HIDE DEF queue, held, count, gone, came, grown
      <4>1. Len(queue) \in Nat /\ Len(held) \in Nat /\ came + 1 \in Nat
        BY <2>2 DEF PoolSound
      <4>2. Accounted(Len(grown), Len(held), count, gone, came + 1)
        BY <2>2, <3>1, <4>1 DEF PoolSound, Accounted
      <4>3. Len(grown) <= maxSize
        BY <2>4, <3>1, <4>1, PoolsAssumption
      <4> QED BY <2>2, <3>1, <4>1, <4>2, <4>3 DEF PoolSound
    <3> QED BY <2>3, <2>4, <3>2, OnePool
  <2>5. CASE pool'[p] = queue /\ allocatedCount'[p] = DecrementAllocated(count)
    <3>1. PoolSound(queue, held, DecrementAllocated(count), gone, came + 1)
      <4> HIDE DEF queue, held, count, gone, came
      <4>1. Len(queue) \in Nat /\ Len(held) \in Nat /\ came + 1 \in Nat
        BY <2>2 DEF PoolSound
      <4>2. Accounted(Len(queue), Len(held), DecrementAllocated(count), gone, came + 1)
        BY <2>2, <4>1 DEF PoolSound, Accounted, DecrementAllocated
      <4>3. DecrementAllocated(count) \in Nat
        BY <2>2 DEF PoolSound, DecrementAllocated
      <4> QED BY <2>2, <4>1, <4>2, <4>3 DEF PoolSound
    <3> QED BY <2>3, <2>5, <3>1, OnePool
  <2> QED BY <2>3, <2>4, <2>5
<1>5. ASSUME NEW p \in Pools, UseHeld(p) PROVE PoolsAreSound'
  <2> DEFINE held == outside[p]
  <2>1. PICK i \in DOMAIN held, object \in Left(p) : outside' = [outside EXCEPT ![p][i] = object]
    BY <1>5 DEF UseHeld
  <2> DEFINE written == [held EXCEPT ![i] = object]
  <2>2. PoolSound(pool[p], held, allocatedCount[p], lost[p], foreign[p])
    BY EachPool
  <2>3. written \in Seq(Objects) /\ Len(written) = Len(held)
    <3>1. object \in Objects
      BY DEF Left, Objects
    <3> QED BY <2>2, <3>1 DEF PoolSound
  <2>4. outside' = [outside EXCEPT ![p] = written]
    BY <2>1
  <2> HIDE DEF written
  <2>5. PoolSound(pool[p], written, allocatedCount[p], lost[p], foreign[p])
    BY <2>2, <2>3 DEF PoolSound
  <2>6. /\ Only(p) /\ pool'[p] = pool[p] /\ outside'[p] = written
        /\ allocatedCount'[p] = allocatedCount[p] /\ lost'[p] = lost[p] /\ foreign'[p] = foreign[p]
    BY <1>5, <2>4 DEF UseHeld, Only, PoolsAreSound, MemTypeOK
  <2> QED BY <2>5, <2>6, OnePool
<1>6. ASSUME NEW p \in Pools, LoseHeld(p) PROVE PoolsAreSound'
  <2> DEFINE queue == pool[p]
             held == outside[p]
             count == allocatedCount[p]
             gone == lost[p]
             came == foreign[p]
  <2>1. PICK i \in DOMAIN held : outside' = [outside EXCEPT ![p] = Drop1(held, i)]
    BY <1>6 DEF LoseHeld
  <2> DEFINE fewer == Drop1(held, i)
  <2>2. PoolSound(queue, held, count, gone, came)
    BY EachPool
  <2>3. fewer \in Seq(Objects) /\ Len(fewer) = Len(held) - 1
    BY <2>2, DropOne DEF PoolSound
  <2>4. PoolSound(queue, fewer, count, gone + 1, came)
    <3> HIDE DEF queue, held, count, gone, came, fewer
    <3>1. Len(queue) \in Nat /\ Len(held) \in Nat /\ gone + 1 \in Nat
      BY <2>2 DEF PoolSound
    <3>2. Accounted(Len(queue), Len(fewer), count, gone + 1, came)
      BY <2>2, <2>3, <3>1 DEF PoolSound, Accounted
    <3> QED BY <2>2, <2>3, <3>1, <3>2 DEF PoolSound
  <2>5. /\ Only(p) /\ pool'[p] = queue /\ outside'[p] = fewer
        /\ allocatedCount'[p] = count /\ lost'[p] = gone + 1 /\ foreign'[p] = came
    BY <1>6, <2>1 DEF LoseHeld, Only, PoolsAreSound, MemTypeOK
  <2> QED BY <2>4, <2>5, OnePool
<1>7. ASSUME NEW p \in Pools, Preallocate(p) PROVE PoolsAreSound'
  <2> DEFINE queue == pool[p]
             held == outside[p]
             count == allocatedCount[p]
             gone == lost[p]
             came == foreign[p]
             n == Room(p)
             new == [i \in 1 .. n |-> {}]
             filled == queue \o new
  <2>1. PoolSound(queue, held, count, gone, came)
    BY EachPool
  <2>2. Len(queue) \in Nat /\ Len(queue) <= maxSize
    BY <2>1 DEF PoolSound
  <2>3. n \in Nat /\ n <= maxSize - Len(queue)
    <3> DEFINE used == Len(queue)
    <3>1. n = IF maxSize - used < preallocated THEN maxSize - used ELSE preallocated
      BY DEF Room
    <3>2. used \in Nat /\ used <= maxSize
      BY <2>2
    <3>3. n \in Nat /\ n <= maxSize - used
      <4> HIDE DEF n, used
      <4> QED BY <3>1, <3>2, PoolsAssumption
    <3> QED BY <3>3
  <2>4. /\ Only(p) /\ pool'[p] = filled /\ outside'[p] = held
        /\ allocatedCount'[p] = count + n /\ lost'[p] = gone /\ foreign'[p] = came
    BY <1>7 DEF Preallocate, Only, PoolsAreSound, MemTypeOK
  <2> HIDE DEF n
  <2>5. new \in Seq(Objects) /\ Len(new) = n
    BY <2>3, NewObjects
  <2>6. \A i \in 1 .. n : NoData(new[i])
    BY DEF NoData
  <2>7. queue \in Seq(Objects) /\ \A i \in 1 .. Len(queue) : NoData(queue[i])
    BY <2>1 DEF PoolSound
  <2> HIDE DEF new, queue
  <2>8. /\ filled \in Seq(Objects) /\ Len(filled) = Len(queue) + n
        /\ \A i \in 1 .. Len(queue) + n :
             filled[i] = IF i <= Len(queue) THEN queue[i] ELSE new[i - Len(queue)]
    BY <2>5, <2>7, ConcatProperties
  <2> HIDE DEF filled
  <2>9. \A i \in DOMAIN filled : NoData(filled[i])
    <3> SUFFICES ASSUME NEW i \in DOMAIN filled PROVE NoData(filled[i])
      OBVIOUS
    <3>1. i \in 1 .. Len(queue) + n
      BY <2>8
    <3>2. CASE i <= Len(queue)
      BY <2>2, <2>7, <2>8, <3>1, <3>2
    <3>3. CASE ~(i <= Len(queue))
      <4>1. i - Len(queue) \in 1 .. n
        BY <2>2, <2>3, <3>1, <3>3
      <4> QED BY <2>6, <2>8, <3>1, <3>3, <4>1
    <3> QED BY <3>2, <3>3
  <2>10. PoolSound(filled, held, count + n, gone, came)
    <3> HIDE DEF held, count, gone, came
    <3>1. Len(held) \in Nat /\ count + n \in Nat
      BY <2>1, <2>3 DEF PoolSound
    <3>2. Accounted(Len(filled), Len(held), count + n, gone, came)
      <4>1. /\ count \in Nat /\ gone \in Nat /\ came \in Nat
            /\ Accounted(Len(queue), Len(held), count, gone, came)
        BY <2>1 DEF PoolSound
      <4> QED BY <4>1, <2>2, <2>3, <2>8, <3>1, SMTT(20) DEF Accounted
    <3>3. Len(filled) <= maxSize
      BY <2>2, <2>3, <2>8, PoolsAssumption
    <3> QED BY <2>1, <2>8, <2>9, <3>1, <3>2, <3>3 DEF PoolSound
  <2> QED BY <2>4, <2>10, OnePool
<1>8. ASSUME NEW p \in Pools, ClearPool(p) PROVE PoolsAreSound'
  <2> DEFINE queue == pool[p]
             held == outside[p]
             count == allocatedCount[p]
             gone == lost[p]
             came == foreign[p]
             left == IF count < Len(queue) THEN 0 ELSE count - Len(queue)
             none == <<>>
  <2>1. PoolSound(queue, held, count, gone, came)
    BY EachPool
  <2>2. none \in Seq(Objects) /\ Len(none) = 0 /\ DOMAIN none = {}
    OBVIOUS
  <2>3. PoolSound(none, held, left, gone, came)
    <3> HIDE DEF queue, held, count, gone, came, none
    <3>1. Len(queue) \in Nat /\ Len(held) \in Nat
      BY <2>1 DEF PoolSound
    <3>2. Accounted(Len(none), Len(held), left, gone, came)
      BY <2>1, <2>2, <3>1 DEF PoolSound, Accounted
    <3>3. left \in Nat
      BY <2>1, <3>1 DEF PoolSound
    <3> QED BY <2>1, <2>2, <3>2, <3>3, PoolsAssumption DEF PoolSound
  <2>4. /\ Only(p) /\ pool'[p] = none /\ outside'[p] = held
        /\ allocatedCount'[p] = left /\ lost'[p] = gone /\ foreign'[p] = came
    BY <1>8 DEF ClearPool, Only, PoolsAreSound, MemTypeOK
  <2> HIDE DEF left, none
  <2> QED BY <2>3, <2>4, OnePool
<1>9. CASE UNCHANGED memVars
  BY <1>9 DEF memVars, PoolsAreSound, MemTypeOK, PoolIsBounded, FreeObjectsHoldNoData, AllocatedCountIsExact
<1> QED BY <1>1, <1>2, <1>3, <1>4, <1>5, <1>6, <1>7, <1>8, <1>9 DEF MemNext, PoolNext

(* The pools of MemoryManager never exceed maxSize_, hand out no data that *)
(* an earlier user left behind, and getStats counts exactly the objects    *)
(* alive as long as callers give back what they took and nothing else.     *)
THEOREM PoolsSound == MemSpec => []PoolsAreSound
<1>1. MemInit => PoolsAreSound
  BY PoolsAssumption
  DEF MemInit, PoolsAreSound, MemTypeOK, PoolIsBounded, FreeObjectsHoldNoData, AllocatedCountIsExact
<1> QED BY <1>1, PoolsStep, PTL DEF MemSpec

(***************************************************************************)
(* The rate limiter                                                        *)
(***************************************************************************)

Ascending(past) == \A i, j \in DOMAIN past : i <= j => past[i] <= past[j]

(* The window is the end of what was let through, and what comes before it *)
(* is too old to count.                                                    *)
EndsIn(window, past, length) ==
  \E m \in 0 .. Len(past) :
    /\ Len(window) = Len(past) - m
    /\ \A i \in 1 .. Len(window) : window[i] = past[m + i]
    /\ \A i \in 1 .. m : past[i] < clock - length

WindowsInv ==
  \A k \in LimiterKeys :
    /\ Ascending(log[k]) /\ \A i \in DOMAIN log[k] : log[k][i] <= clock
    /\ EndsIn(secondWindow[k], log[k], Second) /\ EndsIn(minuteWindow[k], log[k], Minute)

LimiterInv == LimiterTypeOK /\ WindowsInv

(* A set of positions that has every position before one of its own. *)
LEMMA FirstPositions ==
  ASSUME NEW n \in Nat, NEW S \in SUBSET (1 .. n), \A i \in S : \A j \in 1 .. i : j \in S
  PROVE  Cardinality(S) \in 0 .. n /\ S = 1 .. Cardinality(S)
<1> DEFINE out == (1 .. n + 1) \ S
<1>1. out # {} /\ out \subseteq Nat
  BY n + 1 \in out
<1>2. PICK p \in out : \A q \in out : ~(q < p)
  <2> HIDE DEF out
  <2>1. PICK p \in out : \A q \in out : ~(<<q, p>> \in OpToRel(<, Nat))
    BY <1>1, NatLessThanWellFounded, WFMin
  <2>2. \A q \in out : ~(q < p)
    BY <1>1, <2>1 DEF OpToRel
  <2> QED BY <2>2
<1>3. p \in 1 .. n + 1 /\ p \notin S
  BY <1>2
<1>4. S = 1 .. p - 1
  <2>1. ASSUME NEW i \in S PROVE i \in 1 .. p - 1
    BY <1>3, <2>1
  <2>2. ASSUME NEW i \in 1 .. p - 1 PROVE i \in S
    BY <1>2, <1>3, <2>2
  <2> QED BY <2>1, <2>2
<1>5. Cardinality(1 .. p - 1) = p - 1
  BY <1>3, FS_Interval
<1> QED
  BY <1>3, <1>4, <1>5

(* What cleanupOldEntries leaves is again the end of what was let through, *)
(* and as many stamps as are young enough.                                 *)
LEMMA FreshEnds ==
  ASSUME NEW past \in Seq(Nat), NEW window \in Seq(Nat), NEW length \in Nat, clock \in Nat,
         Ascending(past), EndsIn(window, past, length)
  PROVE  /\ Fresh(window, length) \in Seq(Nat) /\ EndsIn(Fresh(window, length), past, length)
         /\ Len(Fresh(window, length)) = Cardinality({i \in DOMAIN past : past[i] >= clock - length})
<1> DEFINE old == Popped(window, length)
           n == Cardinality(old)
           rest == Fresh(window, length)
<1>1. PICK m \in 0 .. Len(past) :
        /\ Len(window) = Len(past) - m
        /\ \A i \in 1 .. Len(window) : window[i] = past[m + i]
        /\ \A i \in 1 .. m : past[i] < clock - length
  BY DEF EndsIn
<1>2. old \in SUBSET (1 .. Len(window)) /\ \A i \in old : \A j \in 1 .. i : j \in old
  BY DEF Popped
<1>3. n \in 0 .. Len(window) /\ old = 1 .. n
  <2> HIDE DEF old
  <2> QED BY <1>2, FirstPositions
<1> HIDE DEF n
<1>4. \A i \in 1 .. n : window[i] < clock - length
  <2> SUFFICES ASSUME NEW i \in 1 .. n PROVE window[i] < clock - length
    OBVIOUS
  <2>1. i \in Popped(window, length) /\ i \in 1 .. i
    BY <1>3
  <2> QED BY <2>1 DEF Popped
<1>5. n < Len(window) => window[n + 1] >= clock - length
  <2> SUFFICES ASSUME n < Len(window), window[n + 1] < clock - length PROVE FALSE
    BY <1>3
  <2>1. \A j \in 1 .. n + 1 : window[j] < clock - length
    BY <1>3, <1>4
  <2>2. n + 1 \in old
    <3>1. n + 1 \in DOMAIN window
      BY <1>3
    <3> QED BY <2>1, <3>1 DEF Popped
  <2> QED BY <1>3, <2>2
<1> HIDE DEF old, rest
<1>6. /\ rest \in Seq(Nat) /\ Len(rest) = Len(window) - n
      /\ \A i \in 1 .. Len(rest) : rest[i] = window[n + i]
  <2>1. rest = SubSeq(window, n + 1, Len(window))
    BY DEF rest, Fresh, n, old
  <2>2. n + 1 \in 1 .. Len(window) + 1 /\ Len(window) \in n .. Len(window)
    BY <1>3
  <2>3. n + 1 \in Int /\ Len(window) \in Int /\ \A i \in n + 1 .. Len(window) : window[i] \in Nat
    BY <2>2
  <2>4. /\ rest \in Seq(Nat) /\ Len(rest) = (IF n + 1 <= Len(window) THEN Len(window) - (n + 1) + 1 ELSE 0)
        /\ \A i \in 1 .. Len(window) - (n + 1) + 1 : rest[i] = window[n + 1 + i - 1]
    BY <2>1, <2>3, SubSeqProperties
  <2>5. Len(rest) = Len(window) - n
    BY <1>3, <2>4
  <2>6. ASSUME NEW i \in 1 .. Len(rest) PROVE rest[i] = window[n + i]
    <3>1. i \in 1 .. Len(window) - (n + 1) + 1 /\ n + 1 + i - 1 = n + i
      BY <1>3, <2>5
    <3> QED BY <2>4, <3>1
  <2> QED BY <2>4, <2>5, <2>6
<1>7. /\ m + n \in 0 .. Len(past) /\ Len(rest) = Len(past) - (m + n)
      /\ \A i \in 1 .. Len(rest) : rest[i] = past[(m + n) + i]
  <2>1. m + n \in 0 .. Len(past) /\ Len(rest) = Len(past) - (m + n)
    BY <1>1, <1>3, <1>6
  <2>2. ASSUME NEW i \in 1 .. Len(rest) PROVE rest[i] = past[(m + n) + i]
    <3>1. n + i \in 1 .. Len(window) /\ m + (n + i) = (m + n) + i
      BY <1>1, <1>3, <1>6
    <3>2. window[n + i] = past[m + (n + i)]
      BY <1>1, <3>1
    <3> QED BY <1>6, <3>1, <3>2
  <2> QED BY <2>1, <2>2
<1>8. \A i \in 1 .. m + n : past[i] < clock - length
  <2> SUFFICES ASSUME NEW i \in 1 .. m + n, ~(i \in 1 .. m) PROVE past[i] < clock - length
    BY <1>1
  <2>1. i - m \in 1 .. n /\ i = m + (i - m)
    BY <1>1, <1>3
  <2>2. i - m \in 1 .. Len(window)
    BY <1>1, <1>3, <2>1
  <2>3. window[i - m] = past[i] /\ window[i - m] < clock - length
    BY <1>1, <1>4, <2>1, <2>2
  <2> QED BY <2>3
<1>9. EndsIn(rest, past, length)
  BY <1>7, <1>8 DEF EndsIn
<1>10. \A i \in m + n + 1 .. Len(past) : past[i] >= clock - length
  <2> SUFFICES ASSUME NEW i \in m + n + 1 .. Len(past) PROVE past[i] >= clock - length
    OBVIOUS
  <2>1. n < Len(window) /\ n + 1 \in 1 .. Len(window) /\ past[m + (n + 1)] = window[n + 1]
    BY <1>1, <1>3
  <2>2. m + (n + 1) \in DOMAIN past /\ i \in DOMAIN past /\ m + (n + 1) <= i
    BY <1>1, <1>3
  <2>3. past[m + (n + 1)] <= past[i] /\ past[i] \in Nat /\ past[m + (n + 1)] \in Nat
    BY <2>2 DEF Ascending
  <2> QED BY <1>5, <2>1, <2>3
<1>11. {i \in DOMAIN past : past[i] >= clock - length} = m + n + 1 .. Len(past)
  <2>1. ASSUME NEW i \in DOMAIN past, past[i] >= clock - length PROVE i \in m + n + 1 .. Len(past)
    <3>1. i \in 1 .. Len(past) /\ past[i] \in Nat
      OBVIOUS
    <3> QED BY <1>1, <1>3, <1>8, <2>1, <3>1
  <2>2. ASSUME NEW i \in m + n + 1 .. Len(past) PROVE i \in DOMAIN past
    BY <1>1, <1>3
  <2> QED BY <1>10, <2>1, <2>2
<1>12. Cardinality(m + n + 1 .. Len(past)) = Len(past) - (m + n)
  <2>1. m + n + 1 \in Int /\ Len(past) \in Int /\ m + n <= Len(past)
    BY <1>1, <1>3
  <2>2. Cardinality(m + n + 1 .. Len(past)) =
          IF m + n + 1 > Len(past) THEN 0 ELSE Len(past) - (m + n + 1) + 1
    BY <2>1, FS_Interval
  <2> QED BY <1>1, <1>3, <2>1, <2>2
<1> QED
  BY <1>6, <1>7, <1>9, <1>11, <1>12 DEF rest

(* Time makes old what was old. *)
LEMMA EndsInLater ==
  ASSUME NEW past \in Seq(Nat), NEW window \in Seq(Nat), NEW length \in Nat, clock \in Nat,
         clock' \in Nat, clock <= clock', EndsIn(window, past, length)
  PROVE  \E m \in 0 .. Len(past) :
           /\ Len(window) = Len(past) - m
           /\ \A i \in 1 .. Len(window) : window[i] = past[m + i]
           /\ \A i \in 1 .. m : past[i] < clock' - length
<1>1. PICK m \in 0 .. Len(past) :
        /\ Len(window) = Len(past) - m
        /\ \A i \in 1 .. Len(window) : window[i] = past[m + i]
        /\ \A i \in 1 .. m : past[i] < clock - length
  BY DEF EndsIn
<1>2. ASSUME NEW i \in 1 .. m PROVE past[i] < clock' - length
  <2>1. i \in 1 .. Len(past)
    BY <1>1
  <2>2. past[i] \in Nat /\ past[i] < clock - length
    BY <1>1, <2>1
  <2> QED BY <2>2
<1> QED BY <1>1, <1>2

LEMMA AppendEnds ==
  ASSUME NEW past \in Seq(Nat), NEW window \in Seq(Nat), NEW length \in Nat, clock \in Nat,
         EndsIn(window, past, length)
  PROVE  EndsIn(Append(window, clock), Append(past, clock), length)
<1> DEFINE w == Append(window, clock)
           p == Append(past, clock)
<1>1. PICK m \in 0 .. Len(past) :
        /\ Len(window) = Len(past) - m
        /\ \A i \in 1 .. Len(window) : window[i] = past[m + i]
        /\ \A i \in 1 .. m : past[i] < clock - length
  BY DEF EndsIn
<1>2. /\ Len(w) = Len(window) + 1 /\ w[Len(window) + 1] = clock
      /\ \A i \in 1 .. Len(window) : w[i] = window[i]
      /\ Len(p) = Len(past) + 1 /\ p[Len(past) + 1] = clock
      /\ \A i \in 1 .. Len(past) : p[i] = past[i]
  OBVIOUS
<1> HIDE DEF w, p
<1>3. m \in 0 .. Len(p) /\ Len(w) = Len(p) - m
  BY <1>1, <1>2
<1>4. ASSUME NEW i \in 1 .. Len(w) PROVE w[i] = p[m + i]
  <2>1. CASE i \in 1 .. Len(window)
    <3>1. m + i \in 1 .. Len(past)
      BY <1>1, <2>1
    <3> QED BY <1>1, <1>2, <2>1, <3>1
  <2>2. CASE i = Len(window) + 1
    <3>1. m + i = Len(past) + 1
      BY <1>1, <2>2
    <3> QED BY <1>2, <2>2, <3>1
  <2> QED BY <1>2, <2>1, <2>2
<1>5. ASSUME NEW i \in 1 .. m PROVE p[i] < clock - length
  <2>1. i \in 1 .. Len(past)
    BY <1>1
  <2> QED BY <1>1, <1>2, <2>1
<1>6. EndsIn(w, p, length)
  BY <1>3, <1>4, <1>5 DEF EndsIn
<1> QED BY <1>6 DEF w, p

LEMMA AppendAscends ==
  ASSUME NEW past \in Seq(Nat), clock \in Nat, Ascending(past), \A i \in DOMAIN past : past[i] <= clock
  PROVE  /\ Append(past, clock) \in Seq(Nat) /\ Ascending(Append(past, clock))
         /\ \A i \in DOMAIN Append(past, clock) : Append(past, clock)[i] <= clock
         /\ Append(past, clock) # past
<1> DEFINE p == Append(past, clock)
<1>1. /\ p \in Seq(Nat) /\ Len(p) = Len(past) + 1 /\ p[Len(past) + 1] = clock
      /\ \A i \in 1 .. Len(past) : p[i] = past[i]
      /\ DOMAIN p = 1 .. Len(past) + 1 /\ DOMAIN past = 1 .. Len(past) /\ Len(past) \in Nat
  OBVIOUS
<1> HIDE DEF p
<1>2. \A i \in DOMAIN p : p[i] <= clock
  <2> TAKE i \in DOMAIN p
  <2>1. i \in 1 .. Len(past) \/ i = Len(past) + 1
    BY <1>1
  <2> QED BY <1>1, <2>1
<1>3. Ascending(p)
  <2> SUFFICES ASSUME NEW i \in DOMAIN p, NEW j \in DOMAIN p, i <= j PROVE p[i] <= p[j]
    BY DEF Ascending
  <2>1. CASE j = Len(past) + 1
    BY <1>1, <1>2, <2>1
  <2>2. CASE j \in 1 .. Len(past)
    <3>1. i \in 1 .. Len(past)
      BY <1>1, <2>2
    <3> QED BY <1>1, <2>2, <3>1 DEF Ascending
  <2> QED BY <1>1, <2>1, <2>2
<1>4. p # past
  BY <1>1
<1> QED BY <1>1, <1>2, <1>3, <1>4 DEF p

(* One of the two windows, after isAllowed has let an execution through or *)
(* not.                                                                    *)
LEMMA WindowKept ==
  ASSUME NEW past \in Seq(Nat), NEW window \in Seq(Nat), NEW length \in Nat, clock \in Nat,
         Ascending(past), EndsIn(window, past, length)
  PROVE  /\ Fresh(window, length) \in Seq(Nat) /\ EndsIn(Fresh(window, length), past, length)
         /\ Append(Fresh(window, length), clock) \in Seq(Nat)
         /\ EndsIn(Append(Fresh(window, length), clock), Append(past, clock), length)
<1> DEFINE f == Fresh(window, length)
<1>1. f \in Seq(Nat) /\ EndsIn(f, past, length)
  BY FreshEnds
<1> HIDE DEF f
<1>2. Append(f, clock) \in Seq(Nat) /\ EndsIn(Append(f, clock), Append(past, clock), length)
  BY <1>1, AppendEnds
<1> QED BY <1>1, <1>2 DEF f

LEMMA LimiterInvInit == LimiterInit => LimiterInv
<1> SUFFICES ASSUME LimiterInit PROVE LimiterInv
  OBVIOUS
<1>1. LimiterTypeOK
  BY LimiterAssumption DEF LimiterInit, LimiterTypeOK, LimiterKeys
<1>2. Ascending(<<>>) /\ \A i \in DOMAIN <<>> : <<>>[i] <= clock
  BY DEF Ascending
<1>3. \A length \in Nat : EndsIn(<<>>, <<>>, length)
  BY DEF EndsIn
<1>4. WindowsInv
  BY <1>2, <1>3, LimiterAssumption DEF LimiterInit, WindowsInv
<1> QED BY <1>1, <1>4 DEF LimiterInv

LEMMA LimiterInvStep == LimiterInv /\ [LimiterNext]_limiterVars => LimiterInv'
<1> SUFFICES ASSUME LimiterInv, [LimiterNext]_limiterVars PROVE LimiterInv'
  OBVIOUS
<1>a. /\ clock \in 0 .. MaxClock /\ clock \in Nat /\ limits \in [LimiterKeys -> Limits \cup {NoLimit}]
      /\ secondWindow \in [LimiterKeys -> Seq(Nat)] /\ minuteWindow \in [LimiterKeys -> Seq(Nat)]
      /\ at \in [Callers -> 0 .. Len(LimitKeys)] /\ attempts \in 0 .. MaxAttempts
      /\ log \in [LimiterKeys -> Seq(Nat)]
      /\ Second \in Nat /\ Minute \in Nat
  BY LimiterAssumption DEF LimiterInv, LimiterTypeOK
<1>b. \A k \in LimiterKeys :
        /\ Ascending(log[k]) /\ \A i \in DOMAIN log[k] : log[k][i] <= clock
        /\ EndsIn(secondWindow[k], log[k], Second) /\ EndsIn(minuteWindow[k], log[k], Minute)
  BY DEF LimiterInv, WindowsInv
<1>c. ASSUME clock' = clock, log' = log, secondWindow' = secondWindow, minuteWindow' = minuteWindow
      PROVE  WindowsInv'
  BY <1>b, <1>c DEF WindowsInv, EndsIn
<1>e. ASSUME clock' = clock,
             \A q \in LimiterKeys :
               /\ Ascending(log'[q]) /\ \A i \in DOMAIN log'[q] : log'[q][i] <= clock
               /\ EndsIn(secondWindow'[q], log'[q], Second) /\ EndsIn(minuteWindow'[q], log'[q], Minute)
      PROVE  WindowsInv'
  <2>1. ASSUME NEW q \in LimiterKeys PROVE EndsIn(secondWindow[q], log[q], Second)'
    <3>1. EndsIn(secondWindow'[q], log'[q], Second)
      BY <1>e
    <3> QED BY <1>e, <3>1 DEF EndsIn
  <2>2. ASSUME NEW q \in LimiterKeys PROVE EndsIn(minuteWindow[q], log[q], Minute)'
    <3>1. EndsIn(minuteWindow'[q], log'[q], Minute)
      BY <1>e
    <3> QED BY <1>e, <3>1 DEF EndsIn
  <2>3. ASSUME NEW q \in LimiterKeys PROVE (Ascending(log[q]) /\ \A i \in DOMAIN log[q] : log[q][i] <= clock)'
    BY <1>e DEF Ascending
  <2> QED BY <2>1, <2>2, <2>3 DEF WindowsInv
<1>d. LimiterKeys = 1 .. Len(LimitKeys) /\ Len(LimitKeys) \in Nat /\ 1 \in LimiterKeys
  BY LimiterAssumption DEF LimiterKeys
<1>1. ASSUME NEW c \in Callers, CheckRate(c) PROVE LimiterInv'
  <2>1. WindowsInv'
    BY <1>1, <1>c DEF CheckRate
  <2>2. LimiterTypeOK'
    BY <1>1, <1>a, <1>d, LimiterAssumption DEF CheckRate, LimiterTypeOK
  <2> QED BY <2>1, <2>2 DEF LimiterInv
<1>2. ASSUME NEW c \in Callers, IsAllowed(c) PROVE LimiterInv'
  <2> DEFINE k == at[c]
             ok == IsEnabled(limits[k]) => Admits(k)
             through == ok /\ IsEnabled(limits[k])
  <2>1. k \in LimiterKeys
    BY <1>2, <1>a, <1>d DEF IsAllowed
  <2>2. /\ secondWindow' = Recorded(secondWindow, k, Second, ok)
        /\ minuteWindow' = Recorded(minuteWindow, k, Minute, ok)
        /\ log' = [log EXCEPT ![k] = IF through THEN Append(@, clock) ELSE @]
        /\ at' = [at EXCEPT ![c] = IF ok /\ k < Len(LimitKeys) THEN k + 1 ELSE 0]
        /\ clock' = clock /\ limits' = limits /\ attempts' = attempts
    BY <1>2 DEF IsAllowed
  <2>3. limits[k] = NoLimit => ~through
    BY DEF IsEnabled
  <2> HIDE DEF ok, k
  <2>4. /\ secondWindow' = IF limits[k] = NoLimit THEN secondWindow
           ELSE [secondWindow EXCEPT ![k] = IF through THEN Append(Fresh(secondWindow[k], Second), clock)
                                            ELSE Fresh(secondWindow[k], Second)]
    BY <2>2 DEF Recorded
  <2>5. /\ minuteWindow' = IF limits[k] = NoLimit THEN minuteWindow
           ELSE [minuteWindow EXCEPT ![k] = IF through THEN Append(Fresh(minuteWindow[k], Minute), clock)
                                            ELSE Fresh(minuteWindow[k], Minute)]
    BY <2>2 DEF Recorded
  <2>6. log' = [log EXCEPT ![k] = IF through THEN Append(log[k], clock) ELSE log[k]]
    BY <2>2
  <2> HIDE DEF through
  <2>7. /\ log[k] \in Seq(Nat) /\ secondWindow[k] \in Seq(Nat) /\ minuteWindow[k] \in Seq(Nat)
        /\ Ascending(log[k]) /\ EndsIn(secondWindow[k], log[k], Second)
        /\ EndsIn(minuteWindow[k], log[k], Minute) /\ \A i \in DOMAIN log[k] : log[k][i] <= clock
    BY <2>1, <1>a, <1>b
  <2>8. /\ Fresh(secondWindow[k], Second) \in Seq(Nat)
        /\ EndsIn(Fresh(secondWindow[k], Second), log[k], Second)
        /\ Append(Fresh(secondWindow[k], Second), clock) \in Seq(Nat)
        /\ EndsIn(Append(Fresh(secondWindow[k], Second), clock), Append(log[k], clock), Second)
    BY <2>7, <1>a, WindowKept
  <2>9. /\ Fresh(minuteWindow[k], Minute) \in Seq(Nat)
        /\ EndsIn(Fresh(minuteWindow[k], Minute), log[k], Minute)
        /\ Append(Fresh(minuteWindow[k], Minute), clock) \in Seq(Nat)
        /\ EndsIn(Append(Fresh(minuteWindow[k], Minute), clock), Append(log[k], clock), Minute)
    BY <2>7, <1>a, WindowKept
  <2>10. /\ Append(log[k], clock) \in Seq(Nat) /\ Ascending(Append(log[k], clock))
         /\ \A i \in DOMAIN Append(log[k], clock) : Append(log[k], clock)[i] <= clock
    BY <2>7, <1>a, AppendAscends
  <2>11. at' \in [Callers -> 0 .. Len(LimitKeys)]
    BY <2>1, <2>2, <1>a, <1>d
  <2>12. /\ secondWindow' \in [LimiterKeys -> Seq(Nat)] /\ minuteWindow' \in [LimiterKeys -> Seq(Nat)]
         /\ log' \in [LimiterKeys -> Seq(Nat)]
    BY <2>1, <2>4, <2>5, <2>6, <2>7, <2>8, <2>9, <2>10, <1>a
  <2>13. LimiterTypeOK'
    BY <2>2, <2>11, <2>12, <1>a DEF LimiterTypeOK
  <2>14. /\ Ascending(log'[k]) /\ \A i \in DOMAIN log'[k] : log'[k][i] <= clock
         /\ EndsIn(secondWindow'[k], log'[k], Second) /\ EndsIn(minuteWindow'[k], log'[k], Minute)
    <3>1. CASE through
      <4>1. /\ log'[k] = Append(log[k], clock)
            /\ secondWindow'[k] = Append(Fresh(secondWindow[k], Second), clock)
            /\ minuteWindow'[k] = Append(Fresh(minuteWindow[k], Minute), clock)
        BY <3>1, <2>1, <2>3, <2>4, <2>5, <2>6, <1>a
      <4> QED BY <4>1, <2>8, <2>9, <2>10
    <3>2. CASE ~through
      <4>1. /\ log'[k] = log[k]
            /\ secondWindow'[k] = secondWindow[k] \/ secondWindow'[k] = Fresh(secondWindow[k], Second)
            /\ minuteWindow'[k] = minuteWindow[k] \/ minuteWindow'[k] = Fresh(minuteWindow[k], Minute)
        BY <3>2, <2>1, <2>4, <2>5, <2>6, <1>a
      <4> QED BY <4>1, <2>7, <2>8, <2>9
    <3> QED BY <3>1, <3>2
  <2>15. \A q \in LimiterKeys \ {k} :
           log'[q] = log[q] /\ secondWindow'[q] = secondWindow[q] /\ minuteWindow'[q] = minuteWindow[q]
    BY <2>4, <2>5, <2>6, <1>a
  <2>16. \A q \in LimiterKeys :
           /\ Ascending(log'[q]) /\ \A i \in DOMAIN log'[q] : log'[q][i] <= clock
           /\ EndsIn(secondWindow'[q], log'[q], Second) /\ EndsIn(minuteWindow'[q], log'[q], Minute)
    <3> TAKE q \in LimiterKeys
    <3>1. CASE q = k
      BY <3>1, <2>14
    <3>2. CASE q # k
      BY <3>2, <2>15, <1>b
    <3> QED BY <3>1, <3>2
  <2>17. WindowsInv'
    BY <2>2, <2>16, <1>e
  <2> QED BY <2>13, <2>17 DEF LimiterInv
<1>3. ASSUME NEW k \in LimiterKeys, NEW l \in Limits, Configure(k, l) PROVE LimiterInv'
  <2>1. WindowsInv'
    BY <1>3, <1>c DEF Configure
  <2>2. LimiterTypeOK'
    BY <1>3, <1>a DEF Configure, LimiterTypeOK
  <2> QED BY <2>1, <2>2 DEF LimiterInv
<1>4. ASSUME NEW keys \in SUBSET LimiterKeys, DropStates(keys) PROVE LimiterInv'
  <2>1. LimiterTypeOK'
    BY <1>4, <1>a DEF DropStates, LimiterTypeOK
  <2>2. Ascending(<<>>) /\ \A i \in DOMAIN <<>> : <<>>[i] <= clock
    BY DEF Ascending
  <2>3. EndsIn(<<>>, <<>>, Second) /\ EndsIn(<<>>, <<>>, Minute)
    BY <1>a DEF EndsIn
  <2>4. \A q \in LimiterKeys :
          \/ log'[q] = log[q] /\ secondWindow'[q] = secondWindow[q] /\ minuteWindow'[q] = minuteWindow[q]
          \/ log'[q] = <<>> /\ secondWindow'[q] = <<>> /\ minuteWindow'[q] = <<>>
    BY <1>4 DEF DropStates
  <2>5. \A q \in LimiterKeys :
           /\ Ascending(log'[q]) /\ \A i \in DOMAIN log'[q] : log'[q][i] <= clock
           /\ EndsIn(secondWindow'[q], log'[q], Second) /\ EndsIn(minuteWindow'[q], log'[q], Minute)
    <3> TAKE q \in LimiterKeys
    <3>1. CASE log'[q] = log[q] /\ secondWindow'[q] = secondWindow[q] /\ minuteWindow'[q] = minuteWindow[q]
      BY <3>1, <1>b
    <3>2. CASE log'[q] = <<>> /\ secondWindow'[q] = <<>> /\ minuteWindow'[q] = <<>>
      BY <3>2, <2>2, <2>3
    <3> QED BY <2>4, <3>1, <3>2
  <2>6. WindowsInv'
    BY <1>4, <2>5, <1>e DEF DropStates
  <2> QED BY <2>1, <2>6 DEF LimiterInv
<1>5. ASSUME NEW k \in LimiterKeys, CurrentExecutions(k) PROVE LimiterInv'
  <2>1. /\ secondWindow' = [secondWindow EXCEPT ![k] = Fresh(secondWindow[k], Second)]
        /\ minuteWindow' = [minuteWindow EXCEPT ![k] = Fresh(minuteWindow[k], Minute)]
        /\ clock' = clock /\ limits' = limits /\ at' = at /\ log' = log /\ attempts' = attempts
    BY <1>5 DEF CurrentExecutions
  <2>2. /\ Fresh(secondWindow[k], Second) \in Seq(Nat)
        /\ EndsIn(Fresh(secondWindow[k], Second), log[k], Second)
        /\ Fresh(minuteWindow[k], Minute) \in Seq(Nat)
        /\ EndsIn(Fresh(minuteWindow[k], Minute), log[k], Minute)
    BY <1>a, <1>b, FreshEnds
  <2>3. LimiterTypeOK'
    BY <2>1, <2>2, <1>a DEF LimiterTypeOK
  <2>4. \A q \in LimiterKeys :
           EndsIn(secondWindow'[q], log[q], Second) /\ EndsIn(minuteWindow'[q], log[q], Minute)
    <3> TAKE q \in LimiterKeys
    <3>1. CASE q = k
      BY <3>1, <2>1, <2>2, <1>a
    <3>2. CASE q # k
      <4>1. secondWindow'[q] = secondWindow[q] /\ minuteWindow'[q] = minuteWindow[q]
        BY <3>2, <2>1, <1>a
      <4> QED BY <4>1, <1>b
    <3> QED BY <3>1, <3>2
  <2>5. WindowsInv'
    BY <2>1, <2>4, <1>b, <1>e
  <2> QED BY <2>3, <2>5 DEF LimiterInv
<1>6. ASSUME LimiterTick PROVE LimiterInv'
  <2>1. /\ clock' \in 0 .. MaxClock /\ clock' \in Nat /\ clock <= clock' /\ log' = log
        /\ secondWindow' = secondWindow /\ minuteWindow' = minuteWindow
    BY <1>6, <1>a, LimiterAssumption DEF LimiterTick
  <2>2. LimiterTypeOK'
    BY <1>6, <2>1, <1>a DEF LimiterTick, LimiterTypeOK
  <2>3. ASSUME NEW k \in LimiterKeys
        PROVE  /\ Ascending(log[k]) /\ \A i \in DOMAIN log[k] : log[k][i] <= clock'
               /\ \E m \in 0 .. Len(log[k]) :
                    /\ Len(secondWindow[k]) = Len(log[k]) - m
                    /\ \A i \in 1 .. Len(secondWindow[k]) : secondWindow[k][i] = log[k][m + i]
                    /\ \A i \in 1 .. m : log[k][i] < clock' - Second
               /\ \E m \in 0 .. Len(log[k]) :
                    /\ Len(minuteWindow[k]) = Len(log[k]) - m
                    /\ \A i \in 1 .. Len(minuteWindow[k]) : minuteWindow[k][i] = log[k][m + i]
                    /\ \A i \in 1 .. m : log[k][i] < clock' - Minute
    <3>1. log[k] \in Seq(Nat) /\ secondWindow[k] \in Seq(Nat) /\ minuteWindow[k] \in Seq(Nat)
      BY <1>a
    <3>2. \A i \in DOMAIN log[k] : log[k][i] \in Nat /\ log[k][i] <= clock
      BY <3>1, <1>b
    <3>3. \A i \in DOMAIN log[k] : log[k][i] <= clock'
      BY <3>2, <2>1, <1>a
    <3>4. \E m \in 0 .. Len(log[k]) :
                    /\ Len(secondWindow[k]) = Len(log[k]) - m
                    /\ \A i \in 1 .. Len(secondWindow[k]) : secondWindow[k][i] = log[k][m + i]
                    /\ \A i \in 1 .. m : log[k][i] < clock' - Second
      BY <3>1, <2>1, <1>a, <1>b, EndsInLater
    <3>5. \E m \in 0 .. Len(log[k]) :
                    /\ Len(minuteWindow[k]) = Len(log[k]) - m
                    /\ \A i \in 1 .. Len(minuteWindow[k]) : minuteWindow[k][i] = log[k][m + i]
                    /\ \A i \in 1 .. m : log[k][i] < clock' - Minute
      BY <3>1, <2>1, <1>a, <1>b, EndsInLater
    <3> QED BY <3>3, <3>4, <3>5, <1>b
  <2>4. WindowsInv'
    BY <2>1, <2>3 DEF WindowsInv, EndsIn
  <2> QED BY <2>2, <2>4 DEF LimiterInv
<1>7. CASE UNCHANGED limiterVars
  <2>1. WindowsInv'
    BY <1>7, <1>c DEF limiterVars
  <2> QED BY <1>7, <1>a, <2>1 DEF LimiterInv, limiterVars, LimiterTypeOK
<1> QED
  <2>1. ASSUME NEW k \in LimiterKeys, RemoveLimit(k) PROVE LimiterInv'
    BY <1>4, <2>1 DEF RemoveLimit
  <2>2. ASSUME ResetLimits PROVE LimiterInv'
    BY <1>4, <2>2 DEF ResetLimits
  <2> QED BY <1>1, <1>2, <1>3, <1>5, <1>6, <1>7, <2>1, <2>2 DEF LimiterNext

LEMMA LimiterAdmits ==
  LimiterInv /\ [LimiterNext]_limiterVars =>
    \A c \in Callers :
       at[c] > 0 /\ at'[c] # at[c] /\ IsEnabled(limits[at[c]]) =>
         (log'[at[c]] # log[at[c]] <=> UnderTheLimit(at[c]))
<1> SUFFICES ASSUME LimiterInv, [LimiterNext]_limiterVars, NEW c \in Callers,
                    at[c] > 0, at'[c] # at[c], IsEnabled(limits[at[c]])
             PROVE  log'[at[c]] # log[at[c]] <=> UnderTheLimit(at[c])
  OBVIOUS
<1> DEFINE k == at[c]
<1>a. /\ clock \in Nat /\ at \in [Callers -> 0 .. Len(LimitKeys)]
      /\ secondWindow \in [LimiterKeys -> Seq(Nat)] /\ minuteWindow \in [LimiterKeys -> Seq(Nat)]
      /\ log \in [LimiterKeys -> Seq(Nat)] /\ Second \in Nat /\ Minute \in Nat
  BY LimiterAssumption DEF LimiterInv, LimiterTypeOK
<1>b. k \in LimiterKeys
  BY <1>a, LimiterAssumption DEF LimiterKeys
<1>1. IsAllowed(c)
  <2>1. ASSUME NEW d \in Callers, CheckRate(d) PROVE FALSE
    BY <2>1, <1>a DEF CheckRate
  <2>2. ASSUME NEW d \in Callers, IsAllowed(d) PROVE IsAllowed(c)
    <3>1. \E x : at' = [at EXCEPT ![d] = x]
      BY <2>2 DEF IsAllowed
    <3>2. c = d
      BY <3>1, <1>a
    <3> QED BY <2>2, <3>2
  <2>3. ASSUME at' = at PROVE FALSE
    BY <2>3
  <2> QED BY <2>1, <2>2, <2>3 DEF LimiterNext, limiterVars, Configure, RemoveLimit, ResetLimits,
             DropStates, CurrentExecutions, LimiterTick
<1>2. /\ log[k] \in Seq(Nat) /\ secondWindow[k] \in Seq(Nat) /\ minuteWindow[k] \in Seq(Nat)
      /\ Ascending(log[k]) /\ EndsIn(secondWindow[k], log[k], Second)
      /\ EndsIn(minuteWindow[k], log[k], Minute) /\ \A i \in DOMAIN log[k] : log[k][i] <= clock
  BY <1>a, <1>b DEF LimiterInv, WindowsInv
<1>3. log'[k] = IF Admits(k) THEN Append(log[k], clock) ELSE log[k]
  BY <1>1, <1>a, <1>b DEF IsAllowed
<1> HIDE DEF k
<1>4. Append(log[k], clock) # log[k]
  BY <1>2, <1>a, AppendAscends
<1>5. Len(Fresh(secondWindow[k], Second)) = InLast(k, Second)
  BY <1>2, <1>a, FreshEnds DEF InLast
<1>6. Len(Fresh(minuteWindow[k], Minute)) = InLast(k, Minute)
  BY <1>2, <1>a, FreshEnds DEF InLast
<1>7. Admits(k) <=> UnderTheLimit(k)
  BY <1>5, <1>6 DEF Admits, UnderTheLimit
<1>8. log'[k] # log[k] <=> UnderTheLimit(k)
  BY <1>3, <1>4, <1>7
<1> QED BY <1>8 DEF k

(* For any callers, keys, limits and lengths of the windows: an execution is *)
(* let through exactly when those let through in the last second and in the  *)
(* last minute are fewer than the limits.                                    *)
THEOREM AdmitsExactly == LimiterSpec => AdmitsUpToTheLimit
<1>1. LimiterInit => LimiterInv
  BY LimiterInvInit
<1>2. LimiterInv /\ [LimiterNext]_limiterVars => LimiterInv'
  BY LimiterInvStep
<1>3. LimiterInv /\ [LimiterNext]_limiterVars =>
        [\A c \in Callers :
          at[c] > 0 /\ at'[c] # at[c] /\ IsEnabled(limits[at[c]]) =>
            (log'[at[c]] # log[at[c]] <=> UnderTheLimit(at[c]))]_limiterVars
  BY LimiterAdmits
<1> QED
  BY <1>1, <1>2, <1>3, PTL DEF LimiterSpec, AdmitsUpToTheLimit

(***************************************************************************)
(* The counters                                                            *)
(***************************************************************************)

(* What recordExecution has yet to add, and what reset has yet to clear. *)
Outcomes == {"successful", "failed"}
Pending ==
  {<<>>, <<"cached">>} \cup {<<o>> : o \in Outcomes} \cup {<<o, "cached">> : o \in Outcomes}
    \cup {<<"executed", o>> : o \in Outcomes} \cup {<<"executed", o, "cached">> : o \in Outcomes}
Clearing ==
  {<<>>, <<"cached">>, <<"failed", "cached">>, <<"successful", "failed", "cached">>,
   <<"executed", "successful", "failed", "cached">>}

(* The recordings that have yet to add to the total, to an outcome, and,   *)
(* past the total, to the cache hits.                                      *)
AtTotal(rec) == {t \in Recorders : rec[t] # <<>> /\ Head(rec[t]) = "executed"}
AtOutcome(rec) == {t \in Recorders : rec[t] # <<>> /\ Head(rec[t]) \in Outcomes}
CacheDue(rec) ==
  {t \in Recorders : rec[t] \in {<<"cached">>} \cup {<<o, "cached">> : o \in Outcomes}}

(* While no reset has met a recording, the counters differ by what is in   *)
(* progress, and during a reset they are cleared one after the other.      *)
Balance ==
  /\ resetting # <<>> => \A t \in Recorders : recording[t] = <<>>
  /\ resetting = <<>> =>
       /\ counters["executed"] = counters["successful"] + counters["failed"] + Cardinality(AtOutcome(recording))
       /\ counters["cached"] + Cardinality(CacheDue(recording)) <= counters["executed"]
  /\ (resetting # <<>> /\ Head(resetting) # "executed") =>
       /\ counters["executed"] = 0
       /\ Head(resetting) \in {"failed", "cached"} => counters["successful"] = 0
       /\ Head(resetting) = "cached" => counters["failed"] = 0

CountersInv ==
  /\ CountersTypeOK /\ records \in 0 .. MaxRecords
  /\ recording \in [Recorders -> Pending] /\ resetting \in Clearing
  /\ IsFiniteSet(AtTotal(recording)) /\ IsFiniteSet(AtOutcome(recording))
  /\ IsFiniteSet(CacheDue(recording))
  /\ counters["executed"] + Cardinality(AtTotal(recording)) <= records
  /\ ~torn => Balance
  /\ ~overlapped => ~Busy /\ (reading # -1 => reading = counters["executed"])
  /\ reading # 0 /\ QuietRateIsARatio

LEMMA PendingSteps ==
  ASSUME NEW r \in Pending, r # <<>>
  PROVE  \/ r = <<"cached">> /\ Head(r) = "cached" /\ Tail(r) = <<>>
         \/ \E o \in Outcomes :
              \/ r = <<o>> /\ Head(r) = o /\ Tail(r) = <<>>
              \/ r = <<o, "cached">> /\ Head(r) = o /\ Tail(r) = <<"cached">>
              \/ r = <<"executed", o>> /\ Head(r) = "executed" /\ Tail(r) = <<o>>
              \/ r = <<"executed", o, "cached">> /\ Head(r) = "executed" /\ Tail(r) = <<o, "cached">>
<1>1. CASE r = <<"cached">>
  BY <1>1
<1>2. ASSUME NEW o \in Outcomes, r = <<o>> PROVE Head(r) = o /\ Tail(r) = <<>>
  BY <1>2
<1>3. ASSUME NEW o \in Outcomes, r = <<o, "cached">> PROVE Head(r) = o /\ Tail(r) = <<"cached">>
  BY <1>3
<1>4. ASSUME NEW o \in Outcomes, r = <<"executed", o>> PROVE Head(r) = "executed" /\ Tail(r) = <<o>>
  BY <1>4
<1>5. ASSUME NEW o \in Outcomes, r = <<"executed", o, "cached">>
      PROVE  Head(r) = "executed" /\ Tail(r) = <<o, "cached">>
  BY <1>5
<1>6. r = <<"cached">> \/ \E o \in Outcomes : \/ r = <<o>> \/ r = <<o, "cached">> \/ r = <<"executed", o>>
                                            \/ r = <<"executed", o, "cached">>
  BY Zenon DEF Pending
<1> QED BY <1>1, <1>2, <1>3, <1>4, <1>5, <1>6

LEMMA IncrementsPending ==
  ASSUME NEW success \in BOOLEAN, NEW cached \in BOOLEAN
  PROVE  \E o \in Outcomes : \/ Increments(success, cached) = <<"executed", o>>
                             \/ Increments(success, cached) = <<"executed", o, "cached">>
<1> DEFINE o == IF success THEN "successful" ELSE "failed"
<1>1. o \in Outcomes
  BY DEF Outcomes
<1> QED BY <1>1 DEF Increments

LEMMA ClearingSteps ==
  ASSUME NEW r \in Clearing, r # <<>>
  PROVE  /\ Head(r) \in CounterNames /\ Tail(r) \in Clearing
         /\ Head(r) = "executed" => Tail(r) # <<>> /\ Head(Tail(r)) = "successful"
         /\ Head(r) = "successful" => Tail(r) # <<>> /\ Head(Tail(r)) = "failed"
         /\ Head(r) = "failed" => Tail(r) # <<>> /\ Head(Tail(r)) = "cached"
         /\ Head(r) = "cached" => Tail(r) = <<>>
<1>1. CASE r = <<"cached">>
  BY <1>1 DEF Clearing, CounterNames
<1>2. CASE r = <<"failed", "cached">>
  <2>1. Head(r) = "failed" /\ Tail(r) = <<"cached">>
    BY <1>2
  <2> QED BY <2>1 DEF Clearing, CounterNames
<1>3. CASE r = <<"successful", "failed", "cached">>
  <2>1. Head(r) = "successful" /\ Tail(r) = <<"failed", "cached">>
    BY <1>3
  <2> QED BY <2>1 DEF Clearing, CounterNames
<1>4. CASE r = <<"executed", "successful", "failed", "cached">>
  <2>1. Head(r) = "executed" /\ Tail(r) = <<"successful", "failed", "cached">>
    BY <1>4
  <2> QED BY <2>1 DEF Clearing, CounterNames
<1> QED BY <1>1, <1>2, <1>3, <1>4 DEF Clearing

(* One more and one less in the sets of recordings. *)
LEMMA OneMore ==
  ASSUME NEW S, IsFiniteSet(S), NEW t, t \notin S
  PROVE  IsFiniteSet(S \cup {t}) /\ Cardinality(S \cup {t}) = Cardinality(S) + 1 /\ Cardinality(S) \in Nat
BY FS_AddElement, FS_CardinalityType

LEMMA OneLess ==
  ASSUME NEW S, IsFiniteSet(S), NEW t \in S
  PROVE  IsFiniteSet(S \ {t}) /\ Cardinality(S \ {t}) = Cardinality(S) - 1 /\ Cardinality(S) \in Nat
         /\ Cardinality(S \ {t}) \in Nat
BY FS_RemoveElement, FS_CardinalityType

LEMMA CountersInvInit == CountersInit => CountersInv
<1> SUFFICES ASSUME CountersInit PROVE CountersInv
  OBVIOUS
<1>a. /\ counters \in [CounterNames -> Nat] /\ \A n \in CounterNames : counters[n] = 0
      /\ "executed" \in CounterNames /\ "successful" \in CounterNames /\ "failed" \in CounterNames
      /\ "cached" \in CounterNames /\ records = 0 /\ resetting = <<>>
  BY DEF CountersInit, CounterNames
<1>b. records \in 0 .. MaxRecords /\ ~overlapped /\ reading = -1
  BY CountersAssumption DEF CountersInit
<1>1. <<>> \in Pending /\ <<>> \in Clearing /\ <<>> \in Seq(CounterNames)
  BY DEF Pending, Clearing
<1>2. AtTotal(recording) = {} /\ AtOutcome(recording) = {} /\ CacheDue(recording) = {}
  BY DEF CountersInit, AtTotal, AtOutcome, CacheDue, Outcomes
<1>3. IsFiniteSet({}) /\ Cardinality({}) = 0
  BY FS_EmptySet
<1>4. CountersTypeOK
  <2>1. recording \in [Recorders -> Seq(CounterNames)] /\ resetting \in Seq(CounterNames)
    BY <1>1 DEF CountersInit
  <2>2. reading \in -1 .. MaxRecords /\ rate \in Nat \X (Nat \ {0})
    BY CountersAssumption DEF CountersInit
  <2>3. torn \in BOOLEAN /\ overlapped \in BOOLEAN
    BY DEF CountersInit
  <2> QED BY <1>a, <2>1, <2>2, <2>3 DEF CountersTypeOK
<1>5. Balance
  BY <1>a, <1>2, <1>3 DEF Balance
<1>6. ~Busy /\ QuietRateIsARatio
  BY DEF CountersInit, Busy, QuietRateIsARatio
<1>7. counters["executed"] + Cardinality(AtTotal(recording)) <= records
  BY <1>a, <1>2, <1>3
<1>8. recording \in [Recorders -> Pending]
  BY <1>1 DEF CountersInit
<1> QED BY <1>a, <1>b, <1>1, <1>2, <1>3, <1>4, <1>5, <1>6, <1>7, <1>8 DEF CountersInv

(* Where a recording that begins, and one that goes on, changes the sets. *)
LEMMA SetsAtStart ==
  ASSUME NEW rec \in [Recorders -> Pending], NEW t \in Recorders, rec[t] = <<>>,
         NEW r, \E o \in Outcomes : r = <<"executed", o>> \/ r = <<"executed", o, "cached">>
  PROVE  LET new == [rec EXCEPT ![t] = r] IN
           /\ r \in Pending /\ new \in [Recorders -> Pending]
           /\ t \notin AtTotal(rec) /\ AtTotal(new) = AtTotal(rec) \cup {t}
           /\ AtOutcome(new) = AtOutcome(rec) /\ CacheDue(new) = CacheDue(rec)
<1> DEFINE new == [rec EXCEPT ![t] = r]
<1>1. r \in Pending
  <2>1. PICK o \in Outcomes : r = <<"executed", o>> \/ r = <<"executed", o, "cached">>
    OBVIOUS
  <2>2. /\ <<"executed", o>> \in {<<"executed", p>> : p \in Outcomes}
        /\ <<"executed", o, "cached">> \in {<<"executed", p, "cached">> : p \in Outcomes}
    OBVIOUS
  <2> QED BY <2>1, <2>2 DEF Pending
<1>2. r # <<>> /\ Head(r) = "executed" /\ r # <<"cached">> /\ \A o \in Outcomes : r # <<o, "cached">>
  BY DEF Outcomes
<1>3. new[t] = r /\ \A u \in Recorders \ {t} : new[u] = rec[u]
  OBVIOUS
<1>4. new \in [Recorders -> Pending]
  BY <1>1
<1> HIDE DEF new
<1>5. t \notin AtTotal(rec) /\ t \notin AtOutcome(rec) /\ t \notin CacheDue(rec)
  BY DEF AtTotal, AtOutcome, CacheDue
<1>6. t \in AtTotal(new) /\ t \notin AtOutcome(new) /\ t \notin CacheDue(new)
  BY <1>2, <1>3 DEF AtTotal, AtOutcome, CacheDue, Outcomes
<1>7. ASSUME NEW u \in Recorders \ {t}
      PROVE  /\ u \in AtTotal(new) <=> u \in AtTotal(rec)
             /\ u \in AtOutcome(new) <=> u \in AtOutcome(rec)
             /\ u \in CacheDue(new) <=> u \in CacheDue(rec)
  <2>1. new[u] = rec[u]
    BY <1>3
  <2> QED BY <2>1 DEF AtTotal, AtOutcome, CacheDue
<1>8. /\ AtTotal(new) \subseteq Recorders /\ AtTotal(rec) \subseteq Recorders
      /\ AtOutcome(new) \subseteq Recorders /\ AtOutcome(rec) \subseteq Recorders
      /\ CacheDue(new) \subseteq Recorders /\ CacheDue(rec) \subseteq Recorders
  BY DEF AtTotal, AtOutcome, CacheDue
<1>9. AtTotal(new) = AtTotal(rec) \cup {t}
  BY <1>5, <1>6, <1>7, <1>8
<1>10. AtOutcome(new) = AtOutcome(rec)
  <2>1. \A u : u \in AtOutcome(new) <=> u \in AtOutcome(rec)
    BY <1>5, <1>6, <1>7, <1>8
  <2> QED BY <2>1
<1>11. CacheDue(new) = CacheDue(rec)
  <2>1. \A u : u \in CacheDue(new) <=> u \in CacheDue(rec)
    BY <1>5, <1>6, <1>7, <1>8
  <2> QED BY <2>1
<1> QED BY <1>1, <1>4, <1>5, <1>9, <1>10, <1>11 DEF new

LEMMA SetsInProgress ==
  ASSUME NEW rec \in [Recorders -> Pending], NEW t \in Recorders, rec[t] # <<>>
  PROVE  LET new == [rec EXCEPT ![t] = Tail(rec[t])]
             h == Head(rec[t]) IN
           /\ new \in [Recorders -> Pending] /\ h \in CounterNames
           /\ h = "executed" => t \in AtTotal(rec) /\ AtTotal(new) = AtTotal(rec) \ {t}
           /\ h # "executed" => AtTotal(new) = AtTotal(rec)
           /\ h = "executed" => t \notin AtOutcome(rec) /\ AtOutcome(new) = AtOutcome(rec) \cup {t}
           /\ h = "cached" => AtOutcome(new) = AtOutcome(rec)
           /\ h \in Outcomes => t \in AtOutcome(rec) /\ AtOutcome(new) = AtOutcome(rec) \ {t}
           /\ h = "executed" => \/ CacheDue(new) = CacheDue(rec)
                                \/ t \notin CacheDue(rec) /\ CacheDue(new) = CacheDue(rec) \cup {t}
           /\ h = "cached" => t \in CacheDue(rec) /\ CacheDue(new) = CacheDue(rec) \ {t}
           /\ h \in Outcomes => CacheDue(new) = CacheDue(rec)
<1> DEFINE r == rec[t]
           tail == Tail(r)
           h == Head(r)
           new == [rec EXCEPT ![t] = tail]
<1>1. r \in Pending /\ r # <<>>
  OBVIOUS
<1>2. \/ r = <<"cached">> /\ h = "cached" /\ tail = <<>>
      \/ \E o \in Outcomes :
           \/ r = <<o>> /\ h = o /\ tail = <<>>
           \/ r = <<o, "cached">> /\ h = o /\ tail = <<"cached">>
           \/ r = <<"executed", o>> /\ h = "executed" /\ tail = <<o>>
           \/ r = <<"executed", o, "cached">> /\ h = "executed" /\ tail = <<o, "cached">>
  <2> HIDE DEF r
  <2> QED BY <1>1, PendingSteps
<1> HIDE DEF r, tail, h
<1>3. tail \in Pending
  BY <1>2 DEF Pending
<1>4. new \in [Recorders -> Pending] /\ new[t] = tail /\ \A u \in Recorders \ {t} : new[u] = rec[u]
  BY <1>3
<1> HIDE DEF new
<1>5. h \in CounterNames
  BY <1>2 DEF Outcomes, CounterNames
<1> DEFINE Moves ==
      /\ t \in AtTotal(rec) <=> h = "executed"
      /\ t \notin AtTotal(new)
      /\ t \in AtOutcome(rec) <=> h \in Outcomes
      /\ t \in AtOutcome(new) <=> h = "executed"
      /\ h = "executed" => t \notin CacheDue(rec)
      /\ h = "cached" => t \in CacheDue(rec) /\ t \notin CacheDue(new)
      /\ h \in Outcomes => (t \in CacheDue(rec) <=> t \in CacheDue(new))
<1>6. Moves
  <2>1. r = rec[t] /\ h = Head(rec[t]) /\ new[t] = tail /\ rec[t] # <<>>
    BY <1>1, <1>4 DEF r, h
  <2>2. CASE r = <<"cached">> /\ h = "cached" /\ tail = <<>>
    <3>1. r # <<>> /\ "cached" \notin Outcomes /\ <<>> # <<"cached">> /\ \A p \in Outcomes : <<>> # <<p, "cached">>
      BY <2>2 DEF Outcomes
    <3> QED BY <2>1, <2>2, <3>1 DEF AtTotal, AtOutcome, CacheDue
  <2>3. ASSUME NEW o \in Outcomes, r = <<o>> /\ h = o /\ tail = <<>> PROVE Moves
    <3>1. /\ r # <<"cached">> /\ \A p \in Outcomes : r # <<p, "cached">>
          /\ tail # <<"cached">> /\ \A p \in Outcomes : tail # <<p, "cached">>
          /\ h # "executed" /\ h # "cached"
      BY <2>3 DEF Outcomes
    <3> QED BY <2>1, <2>3, <3>1 DEF AtTotal, AtOutcome, CacheDue
  <2>4. ASSUME NEW o \in Outcomes, r = <<o, "cached">> /\ h = o /\ tail = <<"cached">> PROVE Moves
    <3>1. /\ r \in {<<p, "cached">> : p \in Outcomes} /\ Head(tail) = "cached" /\ tail # <<>>
          /\ h # "executed" /\ h # "cached" /\ "cached" \notin Outcomes
      BY <2>4 DEF Outcomes
    <3> QED BY <2>1, <2>4, <3>1 DEF AtTotal, AtOutcome, CacheDue
  <2>5. ASSUME NEW o \in Outcomes, r = <<"executed", o>> /\ h = "executed" /\ tail = <<o>> PROVE Moves
    <3>1. /\ r # <<"cached">> /\ \A p \in Outcomes : r # <<p, "cached">>
          /\ tail # <<>> /\ Head(tail) = o
      BY <2>5 DEF Outcomes
    <3> QED BY <2>1, <2>5, <3>1 DEF AtTotal, AtOutcome, CacheDue, Outcomes
  <2>6. ASSUME NEW o \in Outcomes, r = <<"executed", o, "cached">> /\ h = "executed" /\ tail = <<o, "cached">>
        PROVE Moves
    <3>1. /\ r # <<"cached">> /\ \A p \in Outcomes : r # <<p, "cached">>
          /\ tail # <<>> /\ Head(tail) = o
      BY <2>6 DEF Outcomes
    <3> QED BY <2>1, <2>6, <3>1 DEF AtTotal, AtOutcome, CacheDue, Outcomes
  <2> QED BY <1>2, <2>2, <2>3, <2>4, <2>5, <2>6
<1>7. ASSUME NEW u \in Recorders \ {t}
      PROVE  /\ u \in AtTotal(new) <=> u \in AtTotal(rec)
             /\ u \in AtOutcome(new) <=> u \in AtOutcome(rec)
             /\ u \in CacheDue(new) <=> u \in CacheDue(rec)
  <2>1. new[u] = rec[u]
    BY <1>4
  <2> QED BY <2>1 DEF AtTotal, AtOutcome, CacheDue
<1>8. /\ AtTotal(new) \subseteq Recorders /\ AtTotal(rec) \subseteq Recorders
      /\ AtOutcome(new) \subseteq Recorders /\ AtOutcome(rec) \subseteq Recorders
      /\ CacheDue(new) \subseteq Recorders /\ CacheDue(rec) \subseteq Recorders
  BY DEF AtTotal, AtOutcome, CacheDue
<1>9. h = "executed" => t \in AtTotal(rec) /\ AtTotal(new) = AtTotal(rec) \ {t}
  BY <1>6, <1>7, <1>8
<1>10. h # "executed" => AtTotal(new) = AtTotal(rec)
  <2> SUFFICES ASSUME h # "executed" PROVE \A u : u \in AtTotal(new) <=> u \in AtTotal(rec)
    OBVIOUS
  <2> QED BY <1>6, <1>7, <1>8
<1>11. h = "executed" => t \notin AtOutcome(rec) /\ AtOutcome(new) = AtOutcome(rec) \cup {t}
  BY <1>6, <1>7, <1>8 DEF Outcomes
<1>12. h = "cached" => AtOutcome(new) = AtOutcome(rec)
  <2> SUFFICES ASSUME h = "cached" PROVE \A u : u \in AtOutcome(new) <=> u \in AtOutcome(rec)
    OBVIOUS
  <2> QED BY <1>6, <1>7, <1>8 DEF Outcomes
<1>13. h \in Outcomes => t \in AtOutcome(rec) /\ AtOutcome(new) = AtOutcome(rec) \ {t}
  BY <1>6, <1>7, <1>8 DEF Outcomes
<1>14. h = "executed" => \/ CacheDue(new) = CacheDue(rec)
                         \/ t \notin CacheDue(rec) /\ CacheDue(new) = CacheDue(rec) \cup {t}
  <2> SUFFICES ASSUME h = "executed"
               PROVE  \/ CacheDue(new) = CacheDue(rec)
                      \/ t \notin CacheDue(rec) /\ CacheDue(new) = CacheDue(rec) \cup {t}
    OBVIOUS
  <2>1. CASE t \in CacheDue(new)
    BY <2>1, <1>6, <1>7, <1>8
  <2>2. CASE t \notin CacheDue(new)
    <3>1. \A u : u \in CacheDue(new) <=> u \in CacheDue(rec)
      BY <2>2, <1>6, <1>7, <1>8
    <3> QED BY <3>1
  <2> QED BY <2>1, <2>2
<1>15. h = "cached" => t \in CacheDue(rec) /\ CacheDue(new) = CacheDue(rec) \ {t}
  BY <1>6, <1>7, <1>8
<1>16. h \in Outcomes => CacheDue(new) = CacheDue(rec)
  <2> SUFFICES ASSUME h \in Outcomes PROVE \A u : u \in CacheDue(new) <=> u \in CacheDue(rec)
    OBVIOUS
  <2> QED BY <1>6, <1>7, <1>8
<1> QED BY <1>4, <1>5, <1>9, <1>10, <1>11, <1>12, <1>13, <1>14, <1>15, <1>16 DEF new, h, tail, r

LEMMA CountersInvStep == CountersInv /\ [CountersNext]_counterVars => CountersInv'
<1> SUFFICES ASSUME CountersInv, [CountersNext]_counterVars PROVE CountersInv'
  OBVIOUS
<1> DEFINE T == Cardinality(AtTotal(recording))
           O == Cardinality(AtOutcome(recording))
           D == Cardinality(CacheDue(recording))
<1>a. /\ counters \in [CounterNames -> Nat] /\ recording \in [Recorders -> Seq(CounterNames)]
      /\ resetting \in Seq(CounterNames) /\ torn \in BOOLEAN /\ overlapped \in BOOLEAN
      /\ reading \in -1 .. MaxRecords /\ rate \in Nat \X (Nat \ {0}) /\ records \in 0 .. MaxRecords
      /\ MaxRecords \in Nat /\ reading # 0 /\ QuietRateIsARatio
      /\ recording \in [Recorders -> Pending] /\ resetting \in Clearing
  BY CountersAssumption DEF CountersInv, CountersTypeOK
<1>b. /\ IsFiniteSet(AtTotal(recording)) /\ IsFiniteSet(AtOutcome(recording))
      /\ IsFiniteSet(CacheDue(recording)) /\ T \in Nat /\ O \in Nat /\ D \in Nat
  BY FS_CardinalityType DEF CountersInv
<1>c. /\ counters["executed"] + T <= records
      /\ ~torn => Balance
      /\ ~overlapped => ~Busy /\ (reading # -1 => reading = counters["executed"])
  BY DEF CountersInv
<1>d. /\ counters["executed"] \in Nat /\ counters["successful"] \in Nat
      /\ counters["failed"] \in Nat /\ counters["cached"] \in Nat
      /\ "executed" \in CounterNames /\ "successful" \in CounterNames
      /\ "failed" \in CounterNames /\ "cached" \in CounterNames
  BY <1>a DEF CounterNames
<1>e. Pending \subseteq Seq(CounterNames) /\ Clearing \subseteq Seq(CounterNames)
  <2>1. \A o \in Outcomes : /\ <<o>> \in Seq(CounterNames) /\ <<o, "cached">> \in Seq(CounterNames)
                            /\ <<"executed", o>> \in Seq(CounterNames)
                            /\ <<"executed", o, "cached">> \in Seq(CounterNames)
    BY DEF Outcomes, CounterNames
  <2>2. <<>> \in Seq(CounterNames) /\ <<"cached">> \in Seq(CounterNames)
    BY DEF CounterNames
  <2>3. Pending \subseteq Seq(CounterNames)
    BY <2>1, <2>2 DEF Pending
  <2>4. Clearing \subseteq Seq(CounterNames)
    BY DEF Clearing, CounterNames
  <2> QED BY <2>3, <2>4
<1>f. resetting = <<>> /\ ~torn =>
        /\ counters["executed"] = counters["successful"] + counters["failed"] + O
        /\ counters["cached"] + D <= counters["executed"]
  BY <1>c DEF Balance
<1>g. ~torn /\ resetting # <<>> => \A t \in Recorders : recording[t] = <<>>
  BY <1>c DEF Balance
<1>1. ASSUME NEW t \in Recorders, RecordExecution(t) PROVE CountersInv'
  <2>1. PICK success \in BOOLEAN, cached \in BOOLEAN :
          recording' = [recording EXCEPT ![t] = Increments(success, cached)]
    BY <1>1 DEF RecordExecution
  <2> DEFINE r == Increments(success, cached)
  <2>2. \E o \in Outcomes : r = <<"executed", o>> \/ r = <<"executed", o, "cached">>
    BY IncrementsPending
  <2> HIDE DEF r
  <2>3. /\ recording' = [recording EXCEPT ![t] = r] /\ recording[t] = <<>>
        /\ records' = records + 1 /\ records < MaxRecords /\ torn' = (torn \/ resetting # <<>>)
        /\ overlapped' = TRUE /\ counters' = counters /\ resetting' = resetting
        /\ reading' = reading /\ rate' = rate
    BY <1>1, <2>1 DEF RecordExecution, r
  <2>4. /\ recording' \in [Recorders -> Pending]
        /\ t \notin AtTotal(recording) /\ AtTotal(recording)' = AtTotal(recording) \cup {t}
        /\ AtOutcome(recording)' = AtOutcome(recording) /\ CacheDue(recording)' = CacheDue(recording)
    <3>1. LET new == [recording EXCEPT ![t] = r] IN
           /\ r \in Pending /\ new \in [Recorders -> Pending]
           /\ t \notin AtTotal(recording) /\ AtTotal(new) = AtTotal(recording) \cup {t}
           /\ AtOutcome(new) = AtOutcome(recording) /\ CacheDue(new) = CacheDue(recording)
      BY <1>a, <2>2, <2>3, SetsAtStart
    <3>2. /\ AtTotal(recording)' = AtTotal(recording') /\ AtOutcome(recording)' = AtOutcome(recording')
          /\ CacheDue(recording)' = CacheDue(recording')
      BY DEF AtTotal, AtOutcome, CacheDue
    <3> QED BY <2>3, <3>1, <3>2
  <2>5. /\ IsFiniteSet(AtTotal(recording)') /\ Cardinality(AtTotal(recording)') = T + 1
    BY <1>b, <2>4, OneMore
  <2>6. CountersTypeOK' /\ records' \in 0 .. MaxRecords
    BY <1>a, <1>e, <2>3, <2>4 DEF CountersTypeOK
  <2>7. ~torn' => Balance'
    <3> SUFFICES ASSUME ~torn' PROVE Balance'
      OBVIOUS
    <3>1. ~torn /\ resetting = <<>> /\ resetting' = <<>>
      BY <1>a, <2>3
    <3>2. /\ (counters["executed"] = counters["successful"] + counters["failed"] + Cardinality(AtOutcome(recording)))'
          /\ (counters["cached"] + Cardinality(CacheDue(recording)) <= counters["executed"])'
      BY <1>f, <2>3, <2>4, <3>1
    <3> QED BY <3>1, <3>2 DEF Balance
  <2>8. (counters["executed"] + Cardinality(AtTotal(recording)) <= records)'
    BY <1>a, <1>b, <1>c, <1>d, <2>3, <2>5
  <2>9. QuietRateIsARatio'
    BY <2>3 DEF QuietRateIsARatio
  <2> QED BY <1>a, <1>b, <2>3, <2>4, <2>5, <2>6, <2>7, <2>8, <2>9 DEF CountersInv
<1>2. ASSUME NEW t \in Recorders, FetchAdd(t) PROVE CountersInv'
  <2> DEFINE h == Head(recording[t])
             AT == AtTotal(recording)
             AO == AtOutcome(recording)
             CD == CacheDue(recording)
  <2>1. /\ recording[t] # <<>> /\ recording' = [recording EXCEPT ![t] = Tail(recording[t])]
        /\ counters' = [counters EXCEPT ![h] = counters[h] + 1]
        /\ resetting' = resetting /\ torn' = torn /\ reading' = reading /\ rate' = rate
        /\ overlapped' = overlapped /\ records' = records
    BY <1>2 DEF FetchAdd
  <2>2. /\ recording' \in [Recorders -> Pending] /\ h \in CounterNames
        /\ h = "executed" => t \in AT /\ AT' = AT \ {t}
        /\ h # "executed" => AT' = AT
        /\ h = "executed" => t \notin AO /\ AO' = AO \cup {t}
        /\ h = "cached" => AO' = AO
        /\ h \in Outcomes => t \in AO /\ AO' = AO \ {t}
        /\ h = "executed" => CD' = CD \/ (t \notin CD /\ CD' = CD \cup {t})
        /\ h = "cached" => t \in CD /\ CD' = CD \ {t}
        /\ h \in Outcomes => CD' = CD
    <3>1. LET new == [recording EXCEPT ![t] = Tail(recording[t])] IN
           /\ new \in [Recorders -> Pending] /\ h \in CounterNames
           /\ h = "executed" => t \in AtTotal(recording) /\ AtTotal(new) = AtTotal(recording) \ {t}
           /\ h # "executed" => AtTotal(new) = AtTotal(recording)
           /\ h = "executed" => t \notin AtOutcome(recording) /\ AtOutcome(new) = AtOutcome(recording) \cup {t}
           /\ h = "cached" => AtOutcome(new) = AtOutcome(recording)
           /\ h \in Outcomes => t \in AtOutcome(recording) /\ AtOutcome(new) = AtOutcome(recording) \ {t}
           /\ h = "executed" => \/ CacheDue(new) = CacheDue(recording)
                                \/ t \notin CacheDue(recording) /\ CacheDue(new) = CacheDue(recording) \cup {t}
           /\ h = "cached" => t \in CacheDue(recording) /\ CacheDue(new) = CacheDue(recording) \ {t}
           /\ h \in Outcomes => CacheDue(new) = CacheDue(recording)
      BY <1>a, <2>1, SetsInProgress
    <3>2. /\ AT' = AtTotal(recording') /\ AO' = AtOutcome(recording') /\ CD' = CacheDue(recording')
      BY DEF AtTotal, AtOutcome, CacheDue
    <3> QED BY <2>1, <3>1, <3>2
  <2>3. IsFiniteSet(AT) /\ IsFiniteSet(AO) /\ IsFiniteSet(CD)
    BY <1>b
  <2>5. /\ h = "executed" => IsFiniteSet(AT') /\ Cardinality(AT') = T - 1
        /\ h # "executed" => IsFiniteSet(AT') /\ Cardinality(AT') = T
    BY <1>b, <2>2, <2>3, OneLess
  <2>6. /\ h = "executed" => IsFiniteSet(AO') /\ Cardinality(AO') = O + 1
        /\ h = "cached" => IsFiniteSet(AO') /\ Cardinality(AO') = O
        /\ h \in Outcomes => IsFiniteSet(AO') /\ Cardinality(AO') = O - 1
    BY <1>b, <2>2, <2>3, OneLess, OneMore
  <2>7. /\ h = "executed" => IsFiniteSet(CD') /\ Cardinality(CD') \in {D, D + 1}
        /\ h = "cached" => IsFiniteSet(CD') /\ Cardinality(CD') = D - 1
        /\ h \in Outcomes => IsFiniteSet(CD') /\ Cardinality(CD') = D
    BY <1>b, <2>2, <2>3, OneLess, OneMore
  <2>8. h = "executed" \/ h = "successful" \/ h = "failed" \/ h = "cached"
    BY <2>2 DEF CounterNames
  <2> HIDE DEF AT, AO, CD, h, T, O, D
  <2>9. IsFiniteSet(AT') /\ IsFiniteSet(AO') /\ IsFiniteSet(CD')
    BY <2>5, <2>6, <2>7, <2>8 DEF Outcomes
  <2>10. /\ counters' \in [CounterNames -> Nat] /\ counters'[h] = counters[h] + 1
         /\ \A n \in CounterNames \ {h} : counters'[n] = counters[n]
    BY <1>a, <2>1, <2>2
  <2>11. CountersTypeOK' /\ records' \in 0 .. MaxRecords
    BY <1>a, <1>e, <2>1, <2>2, <2>10 DEF CountersTypeOK
  <2>12. counters'["executed"] + Cardinality(AT') <= records'
    <3>1. CASE h = "executed"
      <4>1. counters'["executed"] = counters["executed"] + 1 /\ Cardinality(AT') = T - 1
        BY <2>5, <2>10, <3>1
      <4> QED BY <1>a, <1>b, <1>c, <1>d, <2>1, <4>1
    <3>2. CASE h # "executed"
      <4>1. counters'["executed"] = counters["executed"] /\ Cardinality(AT') = T
        BY <1>d, <2>5, <2>10, <3>2
      <4> QED BY <1>c, <2>1, <4>1
    <3> QED BY <3>1, <3>2
  <2>13. ~torn' => Balance'
    <3> SUFFICES ASSUME ~torn' PROVE Balance'
      OBVIOUS
    <3>1. ~torn /\ resetting = <<>> /\ resetting' = <<>>
      BY <1>g, <2>1
    <3>2. counters'["executed"] = counters'["successful"] + counters'["failed"] + Cardinality(AO')
      <4>0. counters["executed"] = counters["successful"] + counters["failed"] + O
        BY <1>f, <3>1
      <4> DEFINE s == counters["successful"]
                 f == counters["failed"]
      <4>5. s \in Nat /\ f \in Nat /\ O \in Nat
        BY <1>b, <1>d
      <4>6. (s + 1) + f + (O - 1) = s + f + O /\ s + (f + 1) + (O - 1) = s + f + O
        <5> HIDE DEF s, f
        <5> QED BY <4>5
      <4>1. CASE h = "executed"
        <5>1. /\ counters'["executed"] = counters["executed"] + 1 /\ counters'["failed"] = counters["failed"]
              /\ counters'["successful"] = counters["successful"] /\ Cardinality(AO') = O + 1
          BY <1>d, <2>6, <2>10, <4>1
        <5> QED BY <1>b, <1>d, <4>0, <5>1
      <4>2. CASE h = "cached"
        <5>1. /\ counters'["executed"] = counters["executed"] /\ counters'["failed"] = counters["failed"]
              /\ counters'["successful"] = counters["successful"] /\ Cardinality(AO') = O
          BY <1>d, <2>6, <2>10, <4>2
        <5> QED BY <1>b, <1>d, <4>0, <5>1
      <4>3. CASE h = "successful"
        <5>1. /\ counters'["executed"] = counters["executed"] /\ counters'["failed"] = counters["failed"]
              /\ counters'["successful"] = counters["successful"] + 1 /\ Cardinality(AO') = O - 1
          BY <1>d, <2>6, <2>10, <4>3 DEF Outcomes
        <5> QED BY <4>0, <4>6, <5>1
      <4>4. CASE h = "failed"
        <5>1. /\ counters'["executed"] = counters["executed"] /\ counters'["failed"] = counters["failed"] + 1
              /\ counters'["successful"] = counters["successful"] /\ Cardinality(AO') = O - 1
          BY <1>d, <2>6, <2>10, <4>4 DEF Outcomes
        <5> QED BY <4>0, <4>6, <5>1
      <4> QED BY <2>8, <4>1, <4>2, <4>3, <4>4
    <3>3. counters'["cached"] + Cardinality(CD') <= counters'["executed"]
      <4>0. counters["cached"] + D <= counters["executed"]
        BY <1>f, <3>1
      <4>1. CASE h = "executed"
        <5>1. /\ counters'["executed"] = counters["executed"] + 1 /\ counters'["cached"] = counters["cached"]
              /\ Cardinality(CD') \in {D, D + 1}
          BY <1>d, <2>7, <2>10, <4>1
        <5> QED BY <1>b, <1>d, <4>0, <5>1
      <4>2. CASE h = "cached"
        <5>1. /\ counters'["executed"] = counters["executed"] /\ counters'["cached"] = counters["cached"] + 1
              /\ Cardinality(CD') = D - 1
          BY <1>d, <2>7, <2>10, <4>2
        <5> QED BY <1>b, <1>d, <4>0, <5>1
      <4>3. CASE h = "successful" \/ h = "failed"
        <5>1. /\ counters'["executed"] = counters["executed"] /\ counters'["cached"] = counters["cached"]
              /\ Cardinality(CD') = D
          BY <1>d, <2>7, <2>10, <4>3 DEF Outcomes
        <5> QED BY <4>0, <5>1
      <4> QED BY <2>8, <4>1, <4>2, <4>3
    <3> QED BY <3>1, <3>2, <3>3 DEF Balance, AO, CD
  <2>14. overlapped /\ overlapped' /\ QuietRateIsARatio'
    BY <1>c, <2>1 DEF Busy, QuietRateIsARatio
  <2> QED BY <1>a, <2>1, <2>2, <2>9, <2>11, <2>12, <2>13, <2>14 DEF CountersInv, AT, AO, CD
<1>3. ASSUME ResetCounters PROVE CountersInv'
  <2>1. /\ resetting = <<>> /\ resetting' = <<"executed", "successful", "failed", "cached">>
        /\ torn' = (torn \/ \E t \in Recorders : recording[t] # <<>>) /\ overlapped' = TRUE
        /\ counters' = counters /\ recording' = recording /\ reading' = reading /\ rate' = rate
        /\ records' = records
    BY <1>3 DEF ResetCounters
  <2>2. resetting' \in Clearing /\ resetting' # <<>> /\ Head(resetting') = "executed"
    BY <2>1 DEF Clearing
  <2>3. torn' \in BOOLEAN /\ CountersTypeOK' /\ records' \in 0 .. MaxRecords
    BY <1>a, <1>e, <2>1, <2>2 DEF CountersTypeOK
  <2>4. ~torn' => \A t \in Recorders : recording'[t] = <<>>
    BY <2>1
  <2>5. ~torn' => Balance'
    BY <2>2, <2>4 DEF Balance
  <2>6. QuietRateIsARatio'
    BY <2>1 DEF QuietRateIsARatio
  <2>7. AtTotal(recording)' = AtTotal(recording) /\ AtOutcome(recording)' = AtOutcome(recording)
        /\ CacheDue(recording)' = CacheDue(recording)
    BY <2>1 DEF AtTotal, AtOutcome, CacheDue
  <2> QED BY <1>a, <1>b, <1>c, <2>1, <2>2, <2>3, <2>5, <2>6, <2>7 DEF CountersInv
<1>4. ASSUME StoreZero PROVE CountersInv'
  <2> DEFINE h == Head(resetting)
  <2>1. /\ resetting # <<>> /\ counters' = [counters EXCEPT ![h] = 0] /\ resetting' = Tail(resetting)
        /\ recording' = recording /\ torn' = torn /\ reading' = reading /\ rate' = rate
        /\ overlapped' = overlapped /\ records' = records
    BY <1>4 DEF StoreZero
  <2>2. /\ h \in CounterNames /\ resetting' \in Clearing
        /\ h = "executed" => resetting' # <<>> /\ Head(resetting') = "successful"
        /\ h = "successful" => resetting' # <<>> /\ Head(resetting') = "failed"
        /\ h = "failed" => resetting' # <<>> /\ Head(resetting') = "cached"
        /\ h = "cached" => resetting' = <<>>
    BY <1>a, <2>1, ClearingSteps
  <2>3. /\ counters' \in [CounterNames -> Nat] /\ counters'[h] = 0
        /\ \A n \in CounterNames \ {h} : counters'[n] = counters[n]
    BY <1>a, <2>1, <2>2
  <2>4. CountersTypeOK' /\ records' \in 0 .. MaxRecords
    BY <1>a, <1>e, <2>1, <2>2, <2>3 DEF CountersTypeOK
  <2>5. AtTotal(recording)' = AtTotal(recording) /\ AtOutcome(recording)' = AtOutcome(recording)
        /\ CacheDue(recording)' = CacheDue(recording)
    BY <2>1 DEF AtTotal, AtOutcome, CacheDue
  <2>6. counters'["executed"] <= counters["executed"] /\ counters'["executed"] \in Nat
    BY <1>d, <2>2, <2>3
  <2>7. (counters["executed"] + Cardinality(AtTotal(recording)) <= records)'
    BY <1>a, <1>b, <1>c, <1>d, <2>1, <2>5, <2>6
  <2>8. ~torn' => Balance'
    <3> SUFFICES ASSUME ~torn' PROVE Balance'
      OBVIOUS
    <3>1. ~torn /\ Balance /\ \A t \in Recorders : recording[t] = <<>>
      BY <1>c, <1>g, <2>1
    <3>2. AtOutcome(recording) = {} /\ CacheDue(recording) = {}
      BY <3>1 DEF AtOutcome, CacheDue
    <3>3. O = 0 /\ D = 0
      BY <3>2, FS_EmptySet
    <3>4. h = "executed" \/ h = "successful" \/ h = "failed" \/ h = "cached"
      BY <2>2 DEF CounterNames
    <3> HIDE DEF h
    <3>5. /\ h # "executed" => counters["executed"] = 0
          /\ h \in {"failed", "cached"} => counters["successful"] = 0
          /\ h = "cached" => counters["failed"] = 0
      BY <2>1, <3>1 DEF Balance, h
    <3>6. /\ counters'["executed"] = 0
          /\ h \in {"successful", "failed", "cached"} => counters'["successful"] = 0
          /\ h \in {"failed", "cached"} => counters'["failed"] = 0
          /\ h = "cached" => counters'["cached"] = 0
      BY <1>d, <2>3, <3>4, <3>5
    <3>7. resetting' = <<>> => h = "cached"
      BY <2>2, <3>4
    <3>8. resetting' # <<>> => h # "cached"
      BY <2>2, <3>4
    <3>9. (resetting = <<>> =>
             /\ counters["executed"] = counters["successful"] + counters["failed"] + Cardinality(AtOutcome(recording))
             /\ counters["cached"] + Cardinality(CacheDue(recording)) <= counters["executed"])'
      BY <2>5, <3>3, <3>6, <3>7
    <3>10. ((resetting # <<>> /\ Head(resetting) # "executed") =>
             /\ counters["executed"] = 0
             /\ Head(resetting) \in {"failed", "cached"} => counters["successful"] = 0
             /\ Head(resetting) = "cached" => counters["failed"] = 0)'
      BY <2>2, <3>4, <3>6, <3>8
    <3>11. (\A t \in Recorders : recording[t] = <<>>)'
      BY <2>1, <3>1
    <3> QED BY <3>9, <3>10, <3>11 DEF Balance
  <2>9. overlapped /\ overlapped' /\ QuietRateIsARatio'
    BY <1>c, <2>1 DEF Busy, QuietRateIsARatio
  <2> QED BY <1>a, <1>b, <2>1, <2>2, <2>4, <2>5, <2>7, <2>8, <2>9 DEF CountersInv
<1>h. ASSUME counters' = counters, recording' = recording, resetting' = resetting, torn' = torn,
             records' = records
      PROVE  /\ recording' \in [Recorders -> Pending] /\ resetting' \in Clearing /\ records' \in 0 .. MaxRecords
             /\ IsFiniteSet(AtTotal(recording)') /\ IsFiniteSet(AtOutcome(recording)')
             /\ IsFiniteSet(CacheDue(recording)')
             /\ (counters["executed"] + Cardinality(AtTotal(recording)) <= records)'
             /\ ~torn' => Balance'
             /\ Busy' <=> Busy
  <2>1. AtTotal(recording)' = AtTotal(recording) /\ AtOutcome(recording)' = AtOutcome(recording)
        /\ CacheDue(recording)' = CacheDue(recording)
    BY <1>h DEF AtTotal, AtOutcome, CacheDue
  <2>2. ~torn' => Balance'
    BY <1>c, <1>h, <2>1 DEF Balance
  <2>3. Busy' <=> Busy
    BY <1>h DEF Busy
  <2> QED BY <1>a, <1>b, <1>c, <1>h, <2>1, <2>2, <2>3
<1>5. ASSUME LoadExecuted PROVE CountersInv'
  <2>1. /\ counters' = counters /\ recording' = recording /\ resetting' = resetting
        /\ torn' = torn /\ records' = records /\ reading = -1 /\ (overlapped' <=> Busy)
        /\ overlapped' \in BOOLEAN
    BY <1>5 DEF LoadExecuted, Busy
  <2>2. \/ rate' = <<0, 1>> /\ reading' = -1
        \/ reading' = counters["executed"] /\ rate' = rate /\ counters["executed"] # 0
    BY <1>5, <2>1 DEF LoadExecuted
  <2>3. counters["executed"] \in 0 .. MaxRecords
    BY <1>a, <1>b, <1>c, <1>d
  <2>4. reading' \in -1 .. MaxRecords /\ reading' # 0 /\ rate' \in Nat \X (Nat \ {0})
    BY <1>a, <2>2, <2>3
  <2>5. CountersTypeOK'
    BY <1>a, <2>1, <2>4 DEF CountersTypeOK
  <2>6. QuietRateIsARatio'
    BY <2>2, <2>3 DEF QuietRateIsARatio
  <2>7. (~overlapped => ~Busy /\ (reading # -1 => reading = counters["executed"]))'
    BY <1>h, <2>1, <2>2
  <2> QED BY <1>h, <2>1, <2>4, <2>5, <2>6, <2>7 DEF CountersInv
<1>6. ASSUME NEW n \in {"successful", "cached"}, LoadPart(n) PROVE CountersInv'
  <2>1. /\ counters' = counters /\ recording' = recording /\ resetting' = resetting
        /\ torn' = torn /\ records' = records /\ overlapped' = overlapped
        /\ reading # -1 /\ rate' = <<counters[n], reading>> /\ reading' = -1
    BY <1>6 DEF LoadPart
  <2>2. counters[n] \in Nat /\ reading \in Nat \ {0}
    BY <1>a, <1>d, <2>1
  <2>3. CountersTypeOK'
    <3>1. rate' \in Nat \X (Nat \ {0}) /\ reading' \in -1 .. MaxRecords
      BY <1>a, <2>1, <2>2
    <3> QED BY <1>a, <2>1, <3>1 DEF CountersTypeOK
  <2>4. ASSUME ~overlapped, ~torn PROVE counters[n] <= reading
    <3>1. ~Busy /\ reading = counters["executed"] /\ resetting = <<>>
      BY <1>c, <2>1, <2>4 DEF Busy
    <3>2. counters["successful"] <= counters["executed"] /\ counters["cached"] <= counters["executed"]
      BY <1>b, <1>d, <1>f, <2>4, <3>1
    <3> QED BY <3>1, <3>2
  <2>5. QuietRateIsARatio'
    <3>1. rate'[1] = counters[n] /\ rate'[2] = reading
      BY <2>1
    <3> QED BY <2>1, <2>4, <3>1 DEF QuietRateIsARatio
  <2>6. (~overlapped => ~Busy /\ (reading # -1 => reading = counters["executed"]))'
    BY <1>c, <1>h, <2>1
  <2>7. reading' # 0
    BY <2>1
  <2> QED BY <1>h, <2>1, <2>3, <2>5, <2>6, <2>7 DEF CountersInv
<1>7. CASE UNCHANGED counterVars
  <2>1. /\ counters' = counters /\ recording' = recording /\ resetting' = resetting
        /\ torn' = torn /\ records' = records /\ overlapped' = overlapped
        /\ rate' = rate /\ reading' = reading
    BY <1>7 DEF counterVars
  <2>2. CountersTypeOK'
    BY <1>a, <2>1 DEF CountersTypeOK
  <2>3. QuietRateIsARatio'
    BY <1>a, <2>1 DEF QuietRateIsARatio
  <2>4. (~overlapped => ~Busy /\ (reading # -1 => reading = counters["executed"]))'
    BY <1>c, <1>h, <2>1
  <2> QED BY <1>a, <1>h, <2>1, <2>2, <2>3, <2>4 DEF CountersInv
<1> QED
  BY <1>1, <1>2, <1>3, <1>4, <1>5, <1>6, <1>7 DEF CountersNext, GetSuccessRate, GetCacheHitRate

LEMMA CountersInvImplies == CountersInv => CountersAreTrue
<1> SUFFICES ASSUME CountersInv PROVE CountersAreTrue
  OBVIOUS
<1>1. /\ counters \in [CounterNames -> Nat] /\ "executed" \in CounterNames /\ "successful" \in CounterNames
      /\ "failed" \in CounterNames /\ "cached" \in CounterNames
  BY DEF CountersInv, CountersTypeOK, CounterNames
<1>2. ASSUME ~Busy, ~torn
      PROVE  /\ counters["executed"] = counters["successful"] + counters["failed"]
             /\ counters["cached"] <= counters["executed"]
  <2>1. resetting = <<>> /\ AtOutcome(recording) = {} /\ CacheDue(recording) = {}
    BY <1>2 DEF Busy, AtOutcome, CacheDue
  <2>2. Cardinality(AtOutcome(recording)) = 0 /\ Cardinality(CacheDue(recording)) = 0
    BY <2>1, FS_EmptySet
  <2>3. /\ counters["executed"] = counters["successful"] + counters["failed"] + Cardinality(AtOutcome(recording))
        /\ counters["cached"] + Cardinality(CacheDue(recording)) <= counters["executed"]
    BY <1>2, <2>1 DEF CountersInv, Balance
  <2> QED BY <1>1, <2>2, <2>3
<1> QED BY <1>2 DEF CountersAreTrue, CountersInv, CountersAgreeAtRest

(***************************************************************************)
(* The learned threshold                                                   *)
(***************************************************************************)

(* A workflow too small to be measured keeps the threshold it was given. *)
AdaptiveInv ==
  /\ LearningIsBounded
  /\ chosen \in [Workflows -> 0 .. 2^SizeBits - 1]
  /\ parallel \in [Workflows -> [total : Nat, runs : Nat]]
  /\ \A w \in Workflows : RuleCount[w] <= 2 => threshold[w] = chosen[w]

LEMMA ModSmall ==
  ASSUME NEW m \in Nat \ {0}, NEW n \in 0 .. m - 1
  PROVE  n % m = n
OBVIOUS

LEMMA ModRange ==
  ASSUME NEW m \in Nat \ {0}, NEW n \in Int
  PROVE  n % m \in 0 .. m - 1
OBVIOUS

(* A threshold between the limits and the choice moves by at most one and  *)
(* stays there.                                                            *)
LEMMA MovesByOne ==
  ASSUME NEW n \in 0 .. 2^SizeBits - 1
  PROVE  /\ Raised(n) \in 0 .. 2^SizeBits - 1 /\ Lowered(n) \in 0 .. 2^SizeBits - 1
         /\ n \in 1 .. 2^SizeBits - 2 => /\ Raised(n) = Smaller(n + 1, Most)
                                         /\ Lowered(n) = Larger(n - 1, Least)
<1> DEFINE M == 2^SizeBits
<1>1. M \in Nat /\ Least \in 1 .. 2 /\ Most \in Least .. M - 2 /\ M # 0
  BY AdaptiveAssumption
<1> HIDE DEF M
<1>2. n \in Int /\ n \in 0 .. M - 1
  BY <1>1 DEF M
<1>3. (n + 1) % M \in 0 .. M - 1 /\ (n - 1) % M \in 0 .. M - 1
  <2>1. n + 1 \in Int /\ n - 1 \in Int /\ M \in Nat \ {0}
    BY <1>1, <1>2
  <2> QED BY <2>1, ModRange
<1>4. n \in 1 .. M - 2 => (n + 1) % M = n + 1 /\ (n - 1) % M = n - 1
  <2> SUFFICES ASSUME n \in 1 .. M - 2 PROVE (n + 1) % M = n + 1 /\ (n - 1) % M = n - 1
    OBVIOUS
  <2>1. n + 1 \in 0 .. M - 1 /\ n - 1 \in 0 .. M - 1
    BY <1>1
  <2> QED BY <1>1, <2>1, ModSmall
<1>5. Raised(n) = Smaller((n + 1) % M, Most) /\ Lowered(n) = Larger((n - 1) % M, Least)
  BY DEF Raised, Lowered, M
<1>6. Raised(n) \in 0 .. M - 1 /\ Lowered(n) \in 0 .. M - 1
  BY <1>1, <1>3, <1>5 DEF Smaller, Larger
<1>7. n \in 1 .. M - 2 => Raised(n) = Smaller(n + 1, Most) /\ Lowered(n) = Larger(n - 1, Least)
  BY <1>4, <1>5
<1> QED BY <1>6, <1>7 DEF M

LEMMA AdaptiveInvInit == AdaptiveInit => AdaptiveInv
<1> SUFFICES ASSUME AdaptiveInit PROVE AdaptiveInv
  OBVIOUS
<1> DEFINE M == 2^SizeBits
<1>1. /\ M \in Nat /\ Least \in 1 .. 2 /\ Most \in Least .. M - 2 /\ Default \in Least .. Most
      /\ CheckEvery \in Nat \ {0} /\ RuleCount \in [Workflows -> Nat]
  BY AdaptiveAssumption
<1> HIDE DEF M
<1>2. /\ threshold = [w \in Workflows |-> Default] /\ chosen = threshold
      /\ autoDetect = [w \in Workflows |-> FALSE] /\ checkCounter = 0
      /\ parallel = [w \in Workflows |-> [total |-> 0, runs |-> 0]]
      /\ lastRun.workflow = "none" /\ lastRun.how = <<>>
  BY DEF AdaptiveInit
<1>3. Default \in 0 .. M - 1
  BY <1>1
<1>4. AdaptiveTypeOK
  BY <1>1, <1>2, <1>3 DEF AdaptiveTypeOK, M
<1>5. LearnedThresholdInRange
  BY <1>1, <1>2, <1>3 DEF LearnedThresholdInRange, Smaller, Larger
<1>6. LearningIsGradual
  BY <1>1, <1>2, <1>3 DEF LearningIsGradual
<1>7. SmallStaysSequential
  BY <1>2 DEF SmallStaysSequential
<1> QED BY <1>2, <1>3, <1>4, <1>5, <1>6, <1>7 DEF AdaptiveInv, LearningIsBounded, M

LEMMA AdaptiveInvStep == AdaptiveInv /\ [AdaptiveNext]_adaptiveVars => AdaptiveInv'
<1> SUFFICES ASSUME AdaptiveInv, [AdaptiveNext]_adaptiveVars PROVE AdaptiveInv'
  OBVIOUS
<1> DEFINE M == 2^SizeBits
<1>a. /\ M \in Nat /\ Least \in 1 .. 2 /\ Most \in Least .. M - 2 /\ SetTo \subseteq 0 .. M - 1
      /\ CheckEvery \in Nat \ {0} /\ RuleCount \in [Workflows -> Nat] /\ Times \subseteq Nat
  BY AdaptiveAssumption
<1>b. /\ threshold \in [Workflows -> 0 .. M - 1] /\ autoDetect \in [Workflows -> BOOLEAN]
      /\ checkCounter \in 0 .. CheckEvery - 1 /\ chosen \in [Workflows -> 0 .. M - 1]
      /\ parallel \in [Workflows -> [total : Nat, runs : Nat]]
      /\ \A w \in Workflows : RuleCount[w] <= 2 => threshold[w] = chosen[w]
  BY DEF AdaptiveInv, LearningIsBounded, AdaptiveTypeOK
<1>c. \A w \in Workflows : chosen[w] \in 1 .. M - 2 =>
        threshold[w] \in Smaller(Least, chosen[w]) .. Larger(Most, chosen[w])
  BY DEF AdaptiveInv, LearningIsBounded, LearnedThresholdInRange
<1>d. \A w \in Workflows : chosen[w] \in 1 .. Most =>
      /\ threshold[w] <= chosen[w] + parallel[w].runs
      /\ threshold[w] >= chosen[w] - parallel[w].runs
  BY DEF AdaptiveInv, LearningIsBounded, LearningIsGradual
<1>e. SmallStaysSequential
  BY DEF AdaptiveInv, LearningIsBounded
<1>f. \A w \in Workflows : parallel[w].runs \in Nat /\ parallel[w].total \in Nat
  BY <1>b
<1>g. \A w \in Workflows : Counted(w) \in 0 .. CheckEvery - 1
  <2> TAKE w \in Workflows
  <2>1. (checkCounter + 1) % CheckEvery \in 0 .. CheckEvery - 1
    <3>1. checkCounter + 1 \in Int /\ CheckEvery \in Nat \ {0}
      BY <1>a, <1>b
    <3> QED BY <3>1, ModRange
  <2> QED BY <1>b, <2>1 DEF Counted
<1>h. ASSUME threshold' = threshold, chosen' = chosen, parallel' = parallel,
             autoDetect' \in [Workflows -> BOOLEAN], checkCounter' \in 0 .. CheckEvery - 1,
             SmallStaysSequential'
      PROVE  AdaptiveInv'
  BY <1>b, <1>c, <1>d, <1>h DEF AdaptiveInv, LearningIsBounded, AdaptiveTypeOK,
       LearnedThresholdInRange, LearningIsGradual
<1> HIDE DEF M
<1>1. ASSUME NEW w \in Workflows, NEW n \in SetTo, SetAdaptiveThreshold(w, n) PROVE AdaptiveInv'
  <2>1. /\ threshold' = [threshold EXCEPT ![w] = n] /\ chosen' = [chosen EXCEPT ![w] = n]
        /\ lastRun'.how = <<>> /\ autoDetect' = autoDetect /\ checkCounter' = checkCounter
        /\ parallel' = parallel /\ n \in 0 .. M - 1
    BY <1>1, <1>a DEF SetAdaptiveThreshold
  <2>2. /\ threshold' \in [Workflows -> 0 .. M - 1] /\ chosen' \in [Workflows -> 0 .. M - 1]
        /\ threshold'[w] = n /\ chosen'[w] = n
        /\ \A v \in Workflows \ {w} : threshold'[v] = threshold[v] /\ chosen'[v] = chosen[v]
    BY <1>b, <2>1
  <2>3. AdaptiveTypeOK'
    BY <1>b, <2>1, <2>2 DEF AdaptiveTypeOK, M
  <2>4. \A v \in Workflows : chosen'[v] \in 1 .. M - 2 =>
          threshold'[v] \in Smaller(Least, chosen'[v]) .. Larger(Most, chosen'[v])
    <3>1. n \in Smaller(Least, n) .. Larger(Most, n)
      BY <1>a, <2>1 DEF Smaller, Larger
    <3> QED BY <1>c, <2>2, <3>1
  <2>5. \A v \in Workflows : chosen'[v] \in 1 .. Most =>
          /\ threshold'[v] <= chosen'[v] + parallel'[v].runs
          /\ threshold'[v] >= chosen'[v] - parallel'[v].runs
    <3>1. n <= n + parallel[w].runs /\ n >= n - parallel[w].runs
      BY <1>a, <1>f, <2>1
    <3> QED BY <1>d, <2>1, <2>2, <3>1
  <2>6. SmallStaysSequential'
    BY <2>1 DEF SmallStaysSequential
  <2>7. \A v \in Workflows : RuleCount[v] <= 2 => threshold'[v] = chosen'[v]
    BY <1>b, <2>2
  <2> QED BY <1>b, <2>1, <2>2, <2>3, <2>4, <2>5, <2>6, <2>7
       DEF AdaptiveInv, LearningIsBounded, LearnedThresholdInRange, LearningIsGradual, M
<1>2. ASSUME NEW w \in Workflows, EnableAutoDetection(w) PROVE AdaptiveInv'
  <2>1. /\ autoDetect' = [autoDetect EXCEPT ![w] = ~autoDetect[w]]
        /\ threshold' = threshold /\ checkCounter' = checkCounter /\ parallel' = parallel
        /\ chosen' = chosen /\ lastRun' = lastRun
    BY <1>2 DEF EnableAutoDetection
  <2>2. autoDetect' \in [Workflows -> BOOLEAN]
    BY <1>b, <2>1
  <2>3. SmallStaysSequential'
    BY <1>e, <2>1 DEF SmallStaysSequential
  <2> QED BY <1>b, <1>h, <2>1, <2>2, <2>3
<1>3. ASSUME NEW w \in Workflows, Plain(w) PROVE AdaptiveInv'
  <2>1. /\ checkCounter' = Counted(w) /\ lastRun' = [workflow |-> w, how |-> <<Mode(w)>>]
        /\ threshold' = threshold /\ autoDetect' = autoDetect /\ parallel' = parallel /\ chosen' = chosen
    BY <1>3 DEF Plain
  <2>2. lastRun'.workflow = w /\ lastRun'.how = <<Mode(w)>>
    BY <2>1
  <2>3. ASSUME Mode(w) = "parallel", RuleCount[w] <= Least PROVE chosen[w] < RuleCount[w]
    <3>1. threshold[w] < RuleCount[w]
      BY <1>a, <1>b, <2>3 DEF Mode
    <3>2. RuleCount[w] <= 2
      BY <1>a, <2>3
    <3> QED BY <1>b, <3>1, <3>2
  <2>4. \A i \in DOMAIN lastRun'.how : lastRun'.how[i] = Mode(w)
    BY <2>2
  <2>5. SmallStaysSequential'
    BY <2>1, <2>2, <2>3, <2>4 DEF SmallStaysSequential
  <2> QED BY <1>b, <1>g, <1>h, <2>1, <2>5
<1>4. ASSUME NEW w \in Workflows, NEW s \in Times, MeasuringThrows(w, s) PROVE AdaptiveInv'
  <2>1. /\ checkCounter' = Counted(w) /\ lastRun'.how = <<"sequential">>
        /\ threshold' = threshold /\ autoDetect' = autoDetect /\ parallel' = parallel /\ chosen' = chosen
    BY <1>4 DEF MeasuringThrows
  <2>2. SmallStaysSequential'
    BY <2>1 DEF SmallStaysSequential
  <2> QED BY <1>b, <1>g, <1>h, <2>1, <2>2
<1>8. ASSUME NEW w \in Workflows, SequentialThrows(w) PROVE AdaptiveInv'
  <2>1. /\ checkCounter' = Counted(w) /\ lastRun'.how = <<"sequential">>
        /\ threshold' = threshold /\ autoDetect' = autoDetect /\ parallel' = parallel /\ chosen' = chosen
    BY <1>8 DEF SequentialThrows
  <2>2. SmallStaysSequential'
    BY <2>1 DEF SmallStaysSequential
  <2> QED BY <1>b, <1>g, <1>h, <2>1, <2>2
<1>5. ASSUME NEW w \in Workflows, NEW s \in Times, NEW p \in Times, Measured(w, s, p) PROVE AdaptiveInv'
  <2> DEFINE n == threshold[w]
             new == threshold'[w]
             k == parallel[w].runs
             c == chosen[w]
  <2>1. /\ checkCounter' = Counted(w) /\ lastRun'.workflow = w /\ autoDetect' = autoDetect
        /\ chosen' = chosen /\ RuleCount[w] > 2
        /\ parallel' = [parallel EXCEPT ![w] = Sampled(parallel[w], p)]
        /\ threshold' = [threshold EXCEPT ![w] = Adjusted(n, sequential'[w], parallel'[w])]
    BY <1>5 DEF Measured, Measures
  <2>2. /\ Sampled(parallel[w], p) \in [total : Nat, runs : Nat] /\ Sampled(parallel[w], p).runs = k + 1
    <3>1. p \in Nat /\ parallel[w].total \in Nat /\ parallel[w].runs \in Nat
      BY <1>a, <1>f
    <3>2. parallel[w].total + p \in Nat /\ parallel[w].runs + 1 \in Nat
      BY <3>1
    <3> QED BY <3>2 DEF Sampled
  <2>3. /\ parallel' \in [Workflows -> [total : Nat, runs : Nat]] /\ parallel'[w].runs = k + 1
        /\ \A v \in Workflows \ {w} : parallel'[v] = parallel[v]
    BY <1>b, <2>1, <2>2
  <2>4. new \in {Raised(n), Lowered(n), n} /\ \A v \in Workflows \ {w} : threshold'[v] = threshold[v]
    BY <1>b, <2>1 DEF Adjusted
  <2>5. n \in 0 .. M - 1 /\ c \in 0 .. M - 1 /\ k \in Nat
    BY <1>b, <1>f
  <2>6. /\ Raised(n) \in 0 .. M - 1 /\ Lowered(n) \in 0 .. M - 1
        /\ n \in 1 .. M - 2 => Raised(n) = Smaller(n + 1, Most) /\ Lowered(n) = Larger(n - 1, Least)
    BY <2>5, MovesByOne DEF M
  <2> HIDE DEF n, new, k, c
  <2>7. new \in 0 .. M - 1
    BY <2>4, <2>5, <2>6
  <2>8. ASSUME c \in 1 .. M - 2
        PROVE  /\ n \in 1 .. M - 2 /\ new \in Smaller(Least, c) .. Larger(Most, c)
               /\ c <= Most => new <= n + 1 /\ new >= n - 1
    <3>1. n \in Smaller(Least, c) .. Larger(Most, c)
      BY <1>c, <2>8 DEF n, c
    <3>2. n \in 1 .. M - 2
      BY <1>a, <2>8, <3>1 DEF Smaller, Larger
    <3>3. new = Smaller(n + 1, Most) \/ new = Larger(n - 1, Least) \/ new = n
      BY <2>4, <2>6, <3>2
    <3> QED BY <1>a, <2>8, <3>1, <3>2, <3>3 DEF Smaller, Larger
  <2>9. c \in 1 .. Most => new <= c + (k + 1) /\ new >= c - (k + 1)
    <3> SUFFICES ASSUME c \in 1 .. Most PROVE new <= c + (k + 1) /\ new >= c - (k + 1)
      OBVIOUS
    <3>1. c \in 1 .. M - 2
      BY <1>a
    <3>2. n <= c + k /\ n >= c - k
      BY <1>d DEF n, c, k
    <3> QED BY <1>a, <2>5, <2>7, <2>8, <3>1, <3>2
  <2>10. AdaptiveTypeOK'
    <3>1. threshold' \in [Workflows -> 0 .. M - 1]
      BY <1>b, <2>1, <2>7 DEF new
    <3> QED BY <1>b, <1>g, <2>1, <3>1 DEF AdaptiveTypeOK, M
  <2>11. \A v \in Workflows : chosen'[v] \in 1 .. M - 2 =>
           threshold'[v] \in Smaller(Least, chosen'[v]) .. Larger(Most, chosen'[v])
    BY <1>c, <2>1, <2>4, <2>8 DEF new, c
  <2>12. \A v \in Workflows : chosen'[v] \in 1 .. Most =>
          /\ threshold'[v] <= chosen'[v] + parallel'[v].runs
          /\ threshold'[v] >= chosen'[v] - parallel'[v].runs
    BY <1>d, <2>1, <2>3, <2>4, <2>9 DEF new, c
  <2>13. SmallStaysSequential'
    <3>1. ~(RuleCount[w] <= Least)
      BY <1>a, <2>1
    <3> QED BY <2>1, <3>1 DEF SmallStaysSequential
  <2>14. \A v \in Workflows : RuleCount[v] <= 2 => threshold'[v] = chosen'[v]
    BY <1>a, <1>b, <2>1, <2>4
  <2> QED BY <1>b, <2>1, <2>3, <2>10, <2>11, <2>12, <2>13, <2>14
       DEF AdaptiveInv, LearningIsBounded, LearnedThresholdInRange, LearningIsGradual, M
<1>6. CASE UNCHANGED adaptiveVars
  <2>1. /\ autoDetect' = autoDetect /\ threshold' = threshold /\ checkCounter' = checkCounter
        /\ parallel' = parallel /\ chosen' = chosen /\ lastRun' = lastRun
    BY <1>6 DEF adaptiveVars
  <2>2. SmallStaysSequential'
    BY <1>e, <2>1 DEF SmallStaysSequential
  <2> QED BY <1>b, <1>h, <2>1, <2>2
<1> QED
  BY <1>1, <1>2, <1>3, <1>4, <1>5, <1>6, <1>8 DEF AdaptiveNext

(***************************************************************************)
(* Rule versions                                                           *)
(***************************************************************************)

(* A history of rule r against the snapshots taken: a version carries the  *)
(* number of its snapshot, numbers ascend along the history, and each      *)
(* version's parent is the one before it.                                  *)
HistorySound(r, h, n, snapshots) ==
  \A i \in DOMAIN h :
    /\ h[i].ruleName = r /\ h[i].versionId[2] \in 1 .. n
    /\ snapshots[h[i].versionId[2]] = <<r, h[i].config>>
    /\ h[i].parentVersionId = IF i = 1 THEN NoVersion ELSE h[i - 1].versionId
    /\ \A j \in DOMAIN h : i < j => h[i].versionId[2] < h[j].versionId[2]

VersionInv ==
  VersioningTypeOK /\ \A r \in TrackedIds : HistorySound(r, histories[r], counter, taken)

LEMMA VersionInvInit == VersioningInit => VersionInv
<1> SUFFICES ASSUME VersioningInit PROVE VersionInv
  OBVIOUS
<1>1. \A S : <<>> \in Seq(S) /\ Len(<<>>) = 0
  OBVIOUS
<1>2. VersioningTypeOK
  BY <1>1, VersioningAssumption DEF VersioningInit, VersioningTypeOK
<1> QED BY <1>2 DEF VersioningInit, VersionInv, HistorySound

(* A history goes on being sound while snapshots of other rules are taken. *)
LEMMA HistoryStays ==
  ASSUME NEW r \in TrackedIds, NEW h \in Seq(Versions), NEW n \in Nat, NEW m \in Nat, n <= m,
         NEW s, NEW t, (\A k \in 1 .. n : t[k] = s[k]), HistorySound(r, h, n, s)
  PROVE  HistorySound(r, h, m, t)
<1>1. ASSUME NEW i \in DOMAIN h
      PROVE  h[i].versionId[2] \in 1 .. m /\ t[h[i].versionId[2]] = <<r, h[i].config>>
  <2>1. h[i].versionId[2] \in 1 .. n /\ s[h[i].versionId[2]] = <<r, h[i].config>>
    BY DEF HistorySound
  <2> QED BY <2>1
<1> QED BY <1>1 DEF HistorySound

(* It is sound with one more version, made by a later snapshot. *)
LEMMA HistoryGrows ==
  ASSUME NEW r \in TrackedIds, NEW h \in Seq(Versions), NEW n \in Nat, NEW m \in Nat,
         NEW t, HistorySound(r, h, n, t),
         NEW v \in Versions, v.ruleName = r, v.versionId[2] \in n + 1 .. m,
         t[v.versionId[2]] = <<r, v.config>>,
         v.parentVersionId = IF h = <<>> THEN NoVersion ELSE h[Len(h)].versionId
  PROVE  Append(h, v) \in Seq(Versions) /\ HistorySound(r, Append(h, v), m, t)
<1> DEFINE g == Append(h, v)
<1>1. /\ g \in Seq(Versions) /\ Len(g) = Len(h) + 1 /\ DOMAIN g = 1 .. Len(h) + 1
      /\ DOMAIN h = 1 .. Len(h) /\ Len(h) \in Nat
      /\ g[Len(h) + 1] = v /\ \A i \in 1 .. Len(h) : g[i] = h[i]
  BY AppendProperties, LenProperties
<1> HIDE DEF g
<1>2. ASSUME NEW i \in DOMAIN g
      PROVE  /\ g[i].ruleName = r /\ g[i].versionId[2] \in 1 .. m
             /\ t[g[i].versionId[2]] = <<r, g[i].config>>
             /\ g[i].parentVersionId = IF i = 1 THEN NoVersion ELSE g[i - 1].versionId
             /\ \A j \in DOMAIN g : i < j => g[i].versionId[2] < g[j].versionId[2]
  <2>1. CASE i \in DOMAIN h
    <3>1. g[i] = h[i] /\ i \in 1 .. Len(h) /\ (i # 1 => i - 1 \in 1 .. Len(h) /\ g[i - 1] = h[i - 1])
      BY <1>1, <2>1
    <3>2. /\ g[i].ruleName = r /\ g[i].versionId[2] \in 1 .. n
          /\ t[g[i].versionId[2]] = <<r, g[i].config>>
          /\ g[i].parentVersionId = IF i = 1 THEN NoVersion ELSE g[i - 1].versionId
      BY <2>1, <3>1 DEF HistorySound
    <3>3. \A j \in DOMAIN g : i < j => g[i].versionId[2] < g[j].versionId[2]
      <4> TAKE j \in DOMAIN g
      <4>1. CASE j \in DOMAIN h
        BY <1>1, <2>1, <3>1, <4>1 DEF HistorySound
      <4>2. CASE j = Len(h) + 1
        BY <1>1, <3>2, <4>2
      <4> QED BY <1>1, <4>1, <4>2
    <3>4. g[i].versionId[2] \in 1 .. m /\ t[g[i].versionId[2]] = <<r, g[i].config>>
      BY <3>2
    <3> QED BY <3>2, <3>3, <3>4
  <2>2. CASE i = Len(h) + 1
    <3>1. g[i] = v /\ \A j \in DOMAIN g : ~(i < j)
      BY <1>1, <2>2
    <3>2. g[i].parentVersionId = IF i = 1 THEN NoVersion ELSE g[i - 1].versionId
      <4>1. CASE h = <<>>
        BY <1>1, <2>2, <3>1, <4>1
      <4>2. CASE h # <<>>
        <5>1. Len(h) # 0 /\ i - 1 = Len(h) /\ i # 1
          BY <1>1, <2>2, <4>2, EmptySeq
        <5>2. g[i - 1] = h[Len(h)]
          BY <1>1, <5>1
        <5> QED BY <3>1, <4>2, <5>1, <5>2
      <4> QED BY <4>1, <4>2
    <3> QED BY <3>1, <3>2
  <2> QED BY <1>1, <2>1, <2>2
<1>3. HistorySound(r, g, m, t)
  BY <1>2 DEF HistorySound
<1> QED BY <1>1, <1>3 DEF g

(* snapshotRuleLocked, for each rule of a batch of different rules. *)
LEMMA SnapshotInv ==
  ASSUME VersionInv, NEW batch \in Seq(TrackedIds \X KeptConfigs),
         \A i, j \in DOMAIN batch : batch[i][1] = batch[j][1] => i = j,
         Snapshot(batch), importing' \in Seq(Seq(Versions))
  PROVE  VersionInv'
<1> DEFINE n == counter
           m == counter + Len(batch)
<1>1. /\ n \in Nat /\ Len(batch) \in Nat /\ DOMAIN batch = 1 .. Len(batch) /\ m \in Nat
      /\ m <= MaxSnapshots /\ counter' = m /\ taken' = taken \o batch
      /\ wallClock \in 0 .. MaxWallClock /\ Len(taken) = n
      /\ taken \in Seq(TrackedIds \X KeptConfigs) /\ histories \in [TrackedIds -> Seq(Versions)]
  BY LenProperties, VersioningAssumption DEF VersionInv, VersioningTypeOK, Snapshot
<1>2. /\ taken' \in Seq(TrackedIds \X KeptConfigs) /\ Len(taken') = m
      /\ \A k \in 1 .. n : taken'[k] = taken[k]
      /\ \A i \in DOMAIN batch : taken'[n + i] = batch[i]
  <2> DEFINE all == taken \o batch
  <2>1. /\ all \in Seq(TrackedIds \X KeptConfigs) /\ Len(all) = n + Len(batch)
        /\ \A i \in 1 .. n + Len(batch) : all[i] = IF i <= n THEN taken[i] ELSE batch[i - n]
    <3>1. /\ all \in Seq(TrackedIds \X KeptConfigs) /\ Len(all) = Len(taken) + Len(batch)
          /\ \A i \in 1 .. Len(taken) + Len(batch) :
               all[i] = IF i <= Len(taken) THEN taken[i] ELSE batch[i - Len(taken)]
      <4> HIDE DEF n
      <4>1. taken \in Seq(TrackedIds \X KeptConfigs)
        BY <1>1
      <4> QED BY <4>1, ConcatProperties
    <3>2. Len(taken) = n
      BY <1>1
    <3> QED BY <3>1, <3>2
  <2> HIDE DEF all, n
  <2>2. \A k \in 1 .. n : all[k] = taken[k]
    BY <1>1, <2>1
  <2>3. \A i \in 1 .. Len(batch) : all[n + i] = batch[i]
    <3> TAKE i \in 1 .. Len(batch)
    <3>1. n + i \in 1 .. n + Len(batch) /\ ~(n + i <= n) /\ (n + i) - n = i
      BY <1>1
    <3> QED BY <2>1, <3>1
  <2>4. taken' = all
    BY <1>1 DEF all
  <2> QED BY <1>1, <2>1, <2>2, <2>3, <2>4 DEF n
<1> HIDE DEF n, m
<1>3. ASSUME NEW r \in TrackedIds
      PROVE  histories'[r] \in Seq(Versions) /\ HistorySound(r, histories'[r], m, taken')
  <2>1. histories[r] \in Seq(Versions) /\ HistorySound(r, histories[r], n, taken)
    BY <1>1 DEF VersionInv, n
  <2>2. CASE ~\E i \in DOMAIN batch : batch[i][1] = r
    <3>1. histories'[r] = histories[r]
      BY <2>2 DEF Snapshot
    <3>2. n <= m
      BY <1>1 DEF n, m
    <3>3. HistorySound(r, histories[r], m, taken')
      BY <1>1, <1>2, <2>1, <3>2, HistoryStays
    <3> QED BY <2>1, <3>1, <3>3
  <2>3. CASE \E i \in DOMAIN batch : batch[i][1] = r
    <3>1. PICK i \in DOMAIN batch : batch[i][1] = r
                 /\ i = CHOOSE j \in DOMAIN batch : batch[j][1] = r
      BY <2>3
    <3> DEFINE v == SnapshotOf(r, batch[i][2], n + i)
    <3>2. histories'[r] = Append(histories[r], v)
      BY <2>3, <3>1 DEF Snapshot, n
    <3>3. n + i \in n + 1 .. m /\ n + i \in 1 .. MaxSnapshots
      <4>1. /\ n \in Nat /\ Len(batch) \in Nat /\ i \in 1 .. Len(batch)
            /\ MaxSnapshots \in Nat /\ n + Len(batch) <= MaxSnapshots /\ m = n + Len(batch)
        BY <1>1, VersioningAssumption DEF n, m
      <4> QED BY <4>1
    <3>4. batch[i] \in TrackedIds \X KeptConfigs
      BY <1>1, ElementOfSeq
    <3>5. batch[i] = <<r, batch[i][2]>> /\ batch[i][2] \in KeptConfigs
      BY <3>1, <3>4
    <3>6. /\ GetLatest(histories[r]) = NoVersion <=> histories[r] = <<>>
          /\ histories[r] # <<>> => /\ GetLatest(histories[r]) = histories[r][Len(histories[r])]
                                    /\ histories[r][Len(histories[r])] \in Versions
      <4>1. histories[r] # <<>> => histories[r][Len(histories[r])] \in Versions
        BY <2>1, LenProperties, EmptySeq, ElementOfSeq
      <4> QED BY <4>1, VersioningAssumption DEF GetLatest
    <3>7. /\ v.ruleName = r /\ v.versionId = <<wallClock, n + i>> /\ v.config = batch[i][2]
          /\ v.parentVersionId = IF histories[r] = <<>> THEN NoVersion
                                 ELSE histories[r][Len(histories[r])].versionId
      BY <3>6 DEF SnapshotOf, GenerateVersionId
    <3>8. v.parentVersionId \in VersionIds \cup {NoVersion}
      BY <3>6, <3>7 DEF Versions
    <3>9. v \in Versions
      BY <1>1, <3>3, <3>5, <3>7, <3>8 DEF SnapshotOf, Versions, VersionIds, GenerateVersionId
    <3>10. taken'[n + i] = <<r, v.config>> /\ v.versionId[2] = n + i
      BY <1>2, <3>5, <3>7
    <3> HIDE DEF v
    <3>11. Append(histories[r], v) \in Seq(Versions)
           /\ HistorySound(r, Append(histories[r], v), m, taken')
      <4>1. v.versionId[2] \in n + 1 .. m /\ taken'[v.versionId[2]] = <<r, v.config>>
        BY <3>3, <3>10
      <4>2. HistorySound(r, histories[r], n, taken')
        <5>1. n \in Nat
          BY <1>1
        <5>2. n <= n
          BY <5>1
        <5>3. \A j \in 1 .. n : taken'[j] = taken[j]
          BY <1>2
        <5> QED BY <2>1, <5>1, <5>2, <5>3, HistoryStays
      <4>3. n \in Nat /\ m \in Nat
        BY <1>1
      <4>4. v.ruleName = r /\ v.parentVersionId = IF histories[r] = <<>> THEN NoVersion
                                                 ELSE histories[r][Len(histories[r])].versionId
        BY <3>7
      <4> QED BY <2>1, <3>9, <4>1, <4>2, <4>3, <4>4, HistoryGrows
    <3> QED BY <3>2, <3>11
  <2> QED BY <2>2, <2>3
<1>4. histories' \in [TrackedIds -> Seq(Versions)]
  BY <1>3 DEF Snapshot
<1>5. /\ config' \in [TrackedIds -> Configs] /\ wallClock' \in 0 .. MaxWallClock
      /\ dump' \in Seq(Seq(Versions))
  BY DEF Snapshot, VersionInv, VersioningTypeOK
<1>6. counter' = m /\ m \in 0 .. MaxSnapshots
  BY <1>1
<1> QED BY <1>2, <1>3, <1>4, <1>5, <1>6 DEF VersionInv, VersioningTypeOK

LEMMA VersionInvStep == VersionInv /\ [VersioningNext]_versionVars => VersionInv'
<1> SUFFICES ASSUME VersionInv, [VersioningNext]_versionVars PROVE VersionInv'
  OBVIOUS
<1>0. \A c \in KeptConfigs, r \in TrackedIds :
        /\ << <<r, c>> >> \in Seq(TrackedIds \X KeptConfigs)
        /\ \A i, j \in DOMAIN << <<r, c>> >> : i = j
  OBVIOUS
<1>1. ASSUME NEW r \in TrackedIds, SnapshotRule(r) PROVE VersionInv'
  <2>1. config[r] \in KeptConfigs /\ importing' \in Seq(Seq(Versions))
    BY <1>1, VersioningAssumption DEF VersionInv, VersioningTypeOK, SnapshotRule
  <2> QED BY <1>0, <1>1, <2>1, SnapshotInv DEF SnapshotRule
<1>2. CASE SnapshotWorkflow
  <2> DEFINE batch == [i \in DOMAIN TrackedRules |-> <<TrackedRules[i], config[TrackedRules[i]]>>]
  <2>1. \A i \in DOMAIN TrackedRules :
          TrackedRules[i] \in TrackedIds /\ config[TrackedRules[i]] \in KeptConfigs
    BY VersioningAssumption DEF VersionInv, VersioningTypeOK, TrackedIds
  <2>2. batch \in Seq(TrackedIds \X KeptConfigs) /\ DOMAIN batch = DOMAIN TrackedRules
    <3>1. Len(TrackedRules) \in Nat /\ DOMAIN TrackedRules = 1 .. Len(TrackedRules)
      BY VersioningAssumption, LenProperties
    <3>2. batch \in [1 .. Len(TrackedRules) -> TrackedIds \X KeptConfigs]
      BY <2>1, <3>1
    <3> QED BY <3>1, <3>2, SeqDef
  <2>3. \A i, j \in DOMAIN batch : batch[i][1] = batch[j][1] => i = j
    BY VersioningAssumption
  <2>4. Snapshot(batch) /\ importing' \in Seq(Seq(Versions))
    BY <1>2 DEF SnapshotWorkflow, VersionInv, VersioningTypeOK
  <2> HIDE DEF batch
  <2> QED BY <2>2, <2>3, <2>4, SnapshotInv
<1>3. CASE ExportHistory
  <2> DEFINE r == TrackedRules[Len(dump) + 1]
  <2>1. r \in TrackedIds
    BY <1>3, VersioningAssumption, LenProperties DEF ExportHistory, VersionInv, VersioningTypeOK, TrackedIds
  <2>2. dump' \in Seq(Seq(Versions))
    BY <1>3, <2>1, AppendProperties DEF ExportHistory, VersionInv, VersioningTypeOK
  <2> QED BY <1>3, <2>2 DEF ExportHistory, VersionInv, VersioningTypeOK
<1>4. CASE BeginImport
  <2>1. dump' \in Seq(Seq(Versions)) /\ importing' \in Seq(Seq(Versions))
    BY <1>4 DEF BeginImport, VersionInv, VersioningTypeOK
  <2> QED BY <1>4, <2>1 DEF BeginImport, VersionInv, VersioningTypeOK
<1>5. CASE ImportVersion
  <2>1. PICK k \in DOMAIN importing :
          /\ importing[k] # <<>> /\ Snapshot(<<Unpacked(Head(importing[k]))>>)
          /\ importing' = [importing EXCEPT ![k] = Tail(importing[k])]
    BY <1>5 DEF ImportVersion
  <2>2. importing \in Seq(Seq(Versions)) /\ importing[k] \in Seq(Versions)
    BY <2>1, ElementOfSeq, LenProperties DEF VersionInv, VersioningTypeOK
  <2>3. Head(importing[k]) \in Versions /\ Tail(importing[k]) \in Seq(Versions)
    BY <2>1, <2>2, HeadTailProperties
  <2>4. importing' \in Seq(Seq(Versions))
    BY <2>1, <2>2, <2>3, ExceptSeq
  <2> DEFINE v == Head(importing[k])
  <2>5. PICK r \in TrackedIds, c \in KeptConfigs : Unpacked(v) = <<r, c>>
    <3>1. v.ruleName \in TrackedIds /\ v.config \in KeptConfigs
      BY <2>3 DEF Versions
    <3>2. [v.config EXCEPT !.priority = 0] \in KeptConfigs
      BY <3>1 DEF KeptConfigs
    <3> QED BY <3>1, <3>2 DEF Unpacked
  <2> HIDE DEF v
  <2>6. Snapshot(<< <<r, c>> >>)
    BY <2>1, <2>5 DEF v
  <2> QED BY <1>0, <2>4, <2>6, SnapshotInv
<1>6. ASSUME NEW r \in TrackedIds, NEW c \in Configs, Edit(r, c) PROVE VersionInv'
  BY <1>6 DEF Edit, VersionInv, VersioningTypeOK
<1>7. ASSUME NEW t \in 0 .. MaxWallClock, SetClock(t) PROVE VersionInv'
  BY <1>7 DEF SetClock, VersionInv, VersioningTypeOK
<1>8. CASE UNCHANGED versionVars
  BY <1>8 DEF versionVars, VersionInv, VersioningTypeOK
<1> QED BY <1>1, <1>2, <1>3, <1>4, <1>5, <1>6, <1>7, <1>8 DEF VersioningNext

(* A version's id finds that version in its own history, and in no other. *)
LEMMA IdsFind ==
  ASSUME VersionInv, NEW r \in TrackedIds, NEW i \in DOMAIN histories[r], NEW q \in TrackedIds
  PROVE  GetVersion(q, histories[r][i].versionId) = IF q = r THEN histories[r][i] ELSE NoVersion
<1> DEFINE v == histories[r][i]
<1>1. \A j \in DOMAIN histories[q] :
        histories[q][j].versionId = v.versionId => q = r /\ j = i
  <2> SUFFICES ASSUME NEW j \in DOMAIN histories[q], histories[q][j].versionId = v.versionId
               PROVE  q = r /\ j = i
    OBVIOUS
  <2>1. taken[v.versionId[2]] = <<q, histories[q][j].config>> /\ taken[v.versionId[2]] = <<r, v.config>>
    BY DEF VersionInv, HistorySound
  <2>2. q = r
    BY <2>1
  <2>3. /\ i < j => v.versionId[2] < histories[q][j].versionId[2]
        /\ j < i => histories[q][j].versionId[2] < v.versionId[2]
        /\ v.versionId[2] \in 1 .. counter
    BY <2>2 DEF VersionInv, HistorySound
  <2>4. i \in Nat /\ j \in Nat /\ counter \in Nat
    <3>1. histories[r] \in Seq(Versions) /\ counter \in Nat
      BY DEF VersionInv, VersioningTypeOK
    <3> QED BY <2>2, <3>1, LenProperties
  <2> QED BY <2>2, <2>3, <2>4
<1>2. CASE q = r
  <2>1. v \in VersionsOf(r)
    BY DEF VersionsOf
  <2>2. \A j \in 1 .. i - 1 : histories[r][j].versionId # v.versionId
    <3>1. histories[r] \in Seq(Versions)
      BY DEF VersionInv, VersioningTypeOK
    <3>2. i \in 1 .. Len(histories[r]) /\ DOMAIN histories[r] = 1 .. Len(histories[r])
          /\ Len(histories[r]) \in Nat
      BY <3>1, LenProperties
    <3>3. \A j \in 1 .. i - 1 : j \in DOMAIN histories[r] /\ j # i
      BY <3>2
    <3> QED BY <1>1, <1>2, <3>3
  <2>3. i = CHOOSE k \in DOMAIN histories[r] :
              /\ histories[r][k].versionId = v.versionId
              /\ \A j \in 1 .. k - 1 : histories[r][j].versionId # v.versionId
    BY <1>1, <1>2, <2>2
  <2>4. \E u \in VersionsOf(r) : u.versionId = v.versionId
    BY <2>1
  <2>5. GetVersion(r, v.versionId) = histories[r][CHOOSE k \in DOMAIN histories[r] :
          /\ histories[r][k].versionId = v.versionId
          /\ \A j \in 1 .. k - 1 : histories[r][j].versionId # v.versionId]
    BY <2>4, Zenon DEF GetVersion
  <2> QED BY <1>2, <2>3, <2>5
<1>3. CASE q # r
  BY <1>1, <1>3 DEF GetVersion, VersionsOf
<1> QED BY <1>2, <1>3

LEMMA VersionIsTyped ==
  ASSUME VersionInv, NEW r \in TrackedIds, NEW i \in DOMAIN histories[r]
  PROVE  /\ histories[r] \in Seq(Versions) /\ histories[r][i] \in Versions
         /\ histories[r][i].createdAt \in 0 .. MaxWallClock /\ histories[r][i] # NoVersion
         /\ DOMAIN histories[r] = 1 .. Len(histories[r]) /\ Len(histories[r]) \in Nat
<1>1. histories[r] \in Seq(Versions)
  BY DEF VersionInv, VersioningTypeOK
<1>2. histories[r][i] \in Versions
  BY <1>1, ElementOfSeq, LenProperties
<1> QED BY <1>1, <1>2, LenProperties, VersioningAssumption DEF Versions

LEMMA RollbackRight == VersionInv => RollbackIsTheSnapshot
<1> SUFFICES ASSUME VersionInv, NEW v \in AllVersions, NEW q \in TrackedIds
             PROVE  RollbackTo(q, v.versionId) =
                      IF taken[v.versionId[2]][1] = q
                        THEN [id |-> q, config |-> taken[v.versionId[2]][2]] ELSE NoVersion
  BY DEF RollbackIsTheSnapshot
<1>r. PICK r \in TrackedIds : v \in VersionsOf(r)
  BY DEF AllVersions
<1>1. PICK i \in DOMAIN histories[r] : v = histories[r][i]
  BY <1>r DEF VersionsOf
<1>2. /\ v \in Versions /\ v # NoVersion /\ v.ruleName = r /\ v.config \in KeptConfigs
      /\ taken[v.versionId[2]] = <<r, v.config>>
  <2>1. v \in Versions /\ v # NoVersion
    BY <1>1, VersionIsTyped
  <2>2. v.ruleName = r /\ taken[v.versionId[2]] = <<r, v.config>>
    BY <1>1 DEF VersionInv, HistorySound
  <2> QED BY <2>1, <2>2 DEF Versions
<1>3. GetVersion(q, v.versionId) = IF q = r THEN v ELSE NoVersion
  BY <1>1, IdsFind
<1> QED BY <1>2, <1>3 DEF RollbackTo

(* Of versions of one instant getVersionAt takes the first: there is one. *)
LEMMA NewestExists ==
  ASSUME NEW n \in Nat, NEW S \in SUBSET (1 .. n), S # {}, NEW m \in Nat,
         NEW stamp, \A i \in S : stamp[i] \in 0 .. m
  PROVE  \E i \in S : /\ \A j \in S : stamp[j] <= stamp[i]
                      /\ \A j \in S : j < i => stamp[j] < stamp[i]
<1> DEFINE ages == {m - stamp[i] : i \in S}
<1>1. ages # {} /\ ages \subseteq Nat
  <2>1. \A i \in S : m - stamp[i] \in Nat
    OBVIOUS
  <2> QED BY <2>1
<1>2. PICK a \in ages : \A b \in ages : ~(b < a)
  <2> HIDE DEF ages
  <2>1. PICK a \in ages : \A b \in ages : ~(<<b, a>> \in OpToRel(<, Nat))
    BY <1>1, NatLessThanWellFounded, WFMin
  <2>2. \A b \in ages : ~(b < a)
    BY <1>1, <2>1 DEF OpToRel
  <2> QED BY <2>2
<1>3. PICK k \in S : a = m - stamp[k]
  BY <1>2
<1>4. \A j \in S : stamp[j] <= stamp[k]
  <2> TAKE j \in S
  <2>1. ~(m - stamp[j] < m - stamp[k])
    BY <1>2, <1>3
  <2>2. stamp[j] \in 0 .. m /\ stamp[k] \in 0 .. m
    OBVIOUS
  <2> QED BY <2>1, <2>2
<1> DEFINE newest == {i \in S : stamp[i] = stamp[k]}
<1>5. newest # {} /\ newest \subseteq Nat
  <2>1. k \in newest
    OBVIOUS
  <2>2. S \subseteq Nat
    OBVIOUS
  <2> QED BY <2>1, <2>2
<1>6. PICK p \in newest : \A q \in newest : ~(q < p)
  <2> HIDE DEF newest
  <2>1. PICK p \in newest : \A q \in newest : ~(<<q, p>> \in OpToRel(<, Nat))
    BY <1>5, NatLessThanWellFounded, WFMin
  <2>2. \A q \in newest : ~(q < p)
    BY <1>5, <2>1 DEF OpToRel
  <2> QED BY <2>2
<1>7. p \in S /\ stamp[p] = stamp[k]
  BY <1>6
<1>8. \A j \in S : stamp[j] <= stamp[p]
  BY <1>4, <1>7
<1>9. \A j \in S : j < p => stamp[j] < stamp[p]
  <2> TAKE j \in S
  <2> HAVE j < p
  <2>1. stamp[j] # stamp[k]
    BY <1>6
  <2>2. stamp[j] \in 0 .. m /\ stamp[p] \in 0 .. m
    BY <1>7
  <2> QED BY <1>7, <1>8, <2>1, <2>2
<1> QED BY <1>7, <1>8, <1>9

LEMMA NewestRight == VersionInv => VersionAtIsNewest
<1> SUFFICES ASSUME VersionInv, NEW r \in TrackedIds, NEW t \in 0 .. MaxWallClock
             PROVE  IF GetVersionAt(r, t) = NoVersion
                      THEN \A u \in VersionsOf(r) : u.createdAt > t
                      ELSE /\ GetVersionAt(r, t).createdAt <= t
                           /\ \A u \in VersionsOf(r) :
                                u.createdAt \notin GetVersionAt(r, t).createdAt + 1 .. t
  BY DEF VersionAtIsNewest
<1> DEFINE h == histories[r]
           before == {i \in DOMAIN h : h[i].createdAt <= t}
<1>1. \A u \in VersionsOf(r) : \E i \in DOMAIN h : u = h[i]
  BY DEF VersionsOf
<1>2. h \in Seq(Versions) /\ DOMAIN h = 1 .. Len(h) /\ Len(h) \in Nat
  BY LenProperties DEF VersionInv, VersioningTypeOK
<1>3. \A i \in DOMAIN h : h[i].createdAt \in 0 .. MaxWallClock /\ h[i] # NoVersion
  BY VersionIsTyped
<1>4. t \in Nat /\ MaxWallClock \in Nat
  BY VersioningAssumption
<1>5. CASE before = {}
  <2>1. GetVersionAt(r, t) = NoVersion
    BY <1>5 DEF GetVersionAt
  <2>2. \A i \in DOMAIN h : h[i].createdAt > t
    BY <1>3, <1>4, <1>5
  <2> HIDE DEF h
  <2> QED BY <1>1, <2>1, <2>2
<1>6. CASE before # {}
  <2> DEFINE stamp == [i \in DOMAIN h |-> h[i].createdAt]
             Best(i) == /\ \A j \in before : h[j].createdAt <= h[i].createdAt
                        /\ \A j \in before : j < i => h[j].createdAt < h[i].createdAt
  <2>1. \E b \in before : Best(b)
    <3>1. before \in SUBSET (1 .. Len(h)) /\ \A i \in before : stamp[i] \in 0 .. MaxWallClock
      BY <1>2, <1>3
    <3>2. \A i \in before : stamp[i] = h[i].createdAt
      OBVIOUS
    <3> HIDE DEF before, stamp
    <3>3. PICK b \in before : /\ \A j \in before : stamp[j] <= stamp[b]
                              /\ \A j \in before : j < b => stamp[j] < stamp[b]
      BY <1>2, <1>4, <1>6, <3>1, NewestExists
    <3> QED BY <3>2, <3>3
  <2> HIDE DEF Best
  <2>2. PICK k \in before : Best(k) /\ k = CHOOSE i \in before : Best(i)
    BY <2>1
  <2>3. GetVersionAt(r, t) = h[k]
    BY <1>6, <2>2 DEF GetVersionAt, Best
  <2>4. /\ k \in DOMAIN h /\ h[k].createdAt <= t /\ h[k] # NoVersion
        /\ h[k].createdAt \in 0 .. MaxWallClock
    BY <1>3, <2>2
  <2>5. \A i \in DOMAIN h : h[i].createdAt \notin h[k].createdAt + 1 .. t
    <3> SUFFICES ASSUME NEW i \in DOMAIN h, h[i].createdAt \in h[k].createdAt + 1 .. t PROVE FALSE
      OBVIOUS
    <3>1. i \in before
      BY <1>3, <1>4, <2>4
    <3>2. h[i].createdAt <= h[k].createdAt
      BY <2>2, <3>1 DEF Best
    <3> QED BY <1>3, <2>4, <3>2
  <2> HIDE DEF h
  <2> QED BY <1>1, <2>3, <2>4, <2>5
<1> QED BY <1>5, <1>6

LEMMA DiffRight == VersionInv => EmptyDiffMeansUnchanged
<1> SUFFICES ASSUME VersionInv, NEW r \in TrackedIds, NEW i \in 2 .. Len(histories[r])
             PROVE  LET v == ListVersions(r)[Len(histories[r]) + 1 - i] IN
                      (Diff(r, v.parentVersionId, v.versionId) = {}) <=>
                        (histories[r][i - 1].config = histories[r][i].config)
  BY DEF EmptyDiffMeansUnchanged
<1> DEFINE h == histories[r]
<1>1. h \in Seq(Versions) /\ DOMAIN h = 1 .. Len(h) /\ Len(h) \in Nat
  BY LenProperties DEF VersionInv, VersioningTypeOK
<1>2. /\ i \in DOMAIN h /\ i - 1 \in DOMAIN h /\ i # 1
      /\ Len(h) + 1 - i \in DOMAIN h /\ Len(h) + 1 - (Len(h) + 1 - i) = i
  <2> HIDE DEF h
  <2>1. i \in 2 .. Len(h)
    BY DEF h
  <2> QED BY <1>1, <2>1
<1>3. ListVersions(r)[Len(h) + 1 - i] = h[i]
  BY <1>2 DEF ListVersions
<1>4. h[i].parentVersionId = h[i - 1].versionId
  BY <1>2 DEF VersionInv, HistorySound
<1>5. GetVersion(r, h[i].versionId) = h[i] /\ GetVersion(r, h[i - 1].versionId) = h[i - 1]
  BY <1>2, IdsFind
<1> QED BY <1>3, <1>4, <1>5 DEF Diff

LEMMA VersionInvImplies == VersionInv => HistoryIsTrue
<1>1. VersionInv => VersioningTypeOK /\ ParentsAreAChain
  BY DEF VersionInv, HistorySound, ParentsAreAChain
<1> QED BY <1>1, RollbackRight, NewestRight, DiffRight DEF HistoryIsTrue

(* Whatever is snapshot, exported and imported, and however the clock is set:  *)
(* a version id rolls back to the rule as it was snapshot under it and to no   *)
(* other, parents lead through the whole history, getVersionAt finds the       *)
(* newest version of an instant, and an empty diff means an unchanged rule.    *)
THEOREM HistoryStaysTrue == VersioningSpec => []HistoryIsTrue
BY VersionInvInit, VersionInvStep, VersionInvImplies, PTL DEF VersioningSpec

(***************************************************************************)
(* The services together                                                   *)
(***************************************************************************)

LEMMA EachService ==
  ASSUME [ServicesNext]_servicesVars
  PROVE  /\ [Next]_vars /\ [LimiterNext]_limiterVars /\ [CountersNext]_counterVars
         /\ [AdaptiveNext]_adaptiveVars
BY DEF ServicesNext, servicesVars, Cache1, Limiter1, Memory1, Versions1, Counters1, Adaptive1, Rest

(* Whatever callers, recorders and workflows do: the windows of the limiter  *)
(* keep their types; with nothing in progress the counters of executions,    *)
(* outcomes and cache hits agree, and a rate that nothing overlapped with is *)
(* a ratio, unless a reset has met a recording; and the threshold of         *)
(* executeAdaptive is learned one step at a time, within its limits, and     *)
(* starts no threads for small workflows.                                    *)
THEOREM StatisticsStay == ServicesSpec => []StatisticsHold
<1> DEFINE Inv == LimiterInv /\ CountersInv /\ AdaptiveInv
<1>1. ServicesInit => Inv
  BY LimiterInvInit, CountersInvInit, AdaptiveInvInit DEF ServicesInit
<1>2. Inv /\ [ServicesNext]_servicesVars => Inv'
  BY EachService, LimiterInvStep, CountersInvStep, AdaptiveInvStep
<1>3. Inv => StatisticsHold
  BY CountersInvImplies DEF StatisticsHold, LimiterInv, AdaptiveInv
<1> HIDE DEF Inv
<1> QED
  BY <1>1, <1>2, <1>3, PTL DEF ServicesSpec

(* Whatever the services do: an entry is evicted only when no other expires  *)
(* before it, and the limiter admits exactly up to the limits in force.      *)
THEOREM LimitsRespected == ServicesSpec => StepsRespectLimits
<1>1. ServicesInit => Init /\ LimiterInit
  BY DEF ServicesInit
<1>2. [ServicesNext]_servicesVars => [Next]_vars /\ [LimiterNext]_limiterVars
  BY EachService
<1>3. ServicesSpec => Spec /\ LimiterSpec
  BY <1>1, <1>2, PTL DEF ServicesSpec, Spec, LimiterSpec
<1>4. Spec => EvictsFirstToExpire
  BY EvictionOrder
<1>5. LimiterSpec => AdmitsUpToTheLimit
  BY AdmitsExactly
<1> QED
  BY <1>3, <1>4, <1>5, PTL DEF StepsRespectLimits
==============================================================================
