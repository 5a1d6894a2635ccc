----------------------- MODULE WorkflowCompileProofs -----------------------
(***************************************************************************)
(* Proofs about WorkflowCompile, for any number of rules, children,        *)
(* workers and calls.                                                      *)
(***************************************************************************)
EXTENDS WorkflowCompile, FiniteSetTheorems, SequenceTheorems, TLAPS

(* An error is there only while the levels are compiled, and workers only  *)
(* while the calling thread is about to join them.                         *)
ErrorPhase == error # None => pc \in {"spawn", "levels", "terminated"}

WorkersAreJoined ==
  /\ DOMAIN worker = Workers
  /\ \A w \in Workers : worker[w] # "off" => pc = "spawn" /\ w <= spawned

(* A level is entered without an error; only a worker can meet one. *)
CleanStart == pc = "spawn" /\ spawned = 0 => error = None

IInv ==
  /\ spawned \in Nat
  /\ ErrorPhase
  /\ WorkersAreJoined
  /\ CleanStart

(* A new workflow has no workers and no error. *)
LEMMA InitInv == Init => IInv
  BY SizesAssumption DEF Init, IInv, ErrorPhase, WorkersAreJoined, CleanStart, Workers

(* After a call nothing of it is left. *)
LEMMA EndInv ==
  ASSUME NEW how, End(how) PROVE IInv'
  BY DEF End, NoWorkers, IInv, ErrorPhase, WorkersAreJoined, CleanStart

(* A step of a worker: it is one of those that will be joined, and the     *)
(* error it may record is the first or changes nothing.                    *)
LEMMA WorkerInv ==
  ASSUME IInv, NEW w \in Workers, WorkerStep(w)
  PROVE  IInv' /\ (error # None => error' = error)
<1>1. pc = "spawn" /\ w <= spawned /\ w \in Nat /\ w >= 1
  BY SizesAssumption DEF IInv, WorkersAreJoined, Workers, WorkerStep, CloneWorker,
     CloneWorkerFails, CheckError, Claim, WorkerCompiles, WorkerFails
<1>2. spawned' = spawned /\ pc' = pc
  BY DEF WorkerStep, CloneWorker, CloneWorkerFails, CheckError, Claim, WorkerCompiles,
         WorkerFails
<1>3. /\ DOMAIN worker' = Workers
      /\ \A v \in Workers : v # w => worker'[v] = worker[v]
  BY DEF WorkerStep, CloneWorker, CloneWorkerFails, CheckError, Claim, WorkerCompiles,
         WorkerFails, Record, IInv, WorkersAreJoined
<1>4. error # None => error' = error
  BY DEF WorkerStep, CloneWorker, CloneWorkerFails, CheckError, Claim, WorkerCompiles,
         WorkerFails, Record
<1>5. IInv'
  BY <1>1, <1>2, <1>3 DEF IInv, ErrorPhase, WorkersAreJoined, CleanStart
<1> QED BY <1>4, <1>5

(* The steps of the calling thread that end nothing. *)
LEMMA CallerInv ==
  ASSUME IInv,
         \/ PlaceLevel \/ PlaceLeftovers \/ EnterLevel \/ Spawn \/ Join \/ AddClone
         \/ BeginCompile \/ BeginCompileParallel \/ \E r \in Rules : Mend(r)
  PROVE  IInv' /\ error' = error
<1>1. CASE PlaceLevel \/ PlaceLeftovers \/ AddClone \/ BeginCompile
           \/ BeginCompileParallel \/ \E r \in Rules : Mend(r)
  BY <1>1 DEF PlaceLevel, PlaceLeftovers, AddClone, BeginCompile, BeginCompileParallel,
     Mend, NoLevels, team, IInv, ErrorPhase, WorkersAreJoined, CleanStart
<1>2. CASE EnterLevel
  BY <1>2 DEF EnterLevel, team, IInv, ErrorPhase, WorkersAreJoined, CleanStart
<1>3. CASE Spawn
  BY <1>3 DEF Spawn, IInv, ErrorPhase, WorkersAreJoined, CleanStart, Workers
<1>4. CASE Join
  BY <1>4 DEF Join, NoWorkers, IInv, ErrorPhase, WorkersAreJoined, CleanStart
<1> QED BY <1>1, <1>2, <1>3, <1>4

(* The steps of the calling thread that may end the call, or the process.  *)
(* Only Rethrow is possible with an error, and it throws that error.       *)
LEMMA EndingInv ==
  ASSUME IInv,
         SpawnFails \/ Rethrow \/ Verify \/ CompileIntoEngine \/ AddCloneFails \/ FillPool
  PROVE  /\ IInv'
         /\ error # None => error' = error \/ (pc' = "idle" /\ outcome' = error)
<1>1. CASE SpawnFails
  <2>1. CASE spawned = 0
    BY <1>1, <2>1, EndInv DEF SpawnFails, IInv, CleanStart
  <2>2. CASE spawned # 0
    BY <1>1, <2>2 DEF SpawnFails, NoWorkers, IInv, ErrorPhase, WorkersAreJoined, CleanStart
  <2> QED BY <2>1, <2>2
<1>2. CASE Rethrow
  BY <1>2, EndInv DEF Rethrow, End
<1>3. CASE Verify
  <2>1. CASE isCompiled = Rules
    BY <1>3, <2>1 DEF Verify, team, IInv, ErrorPhase, WorkersAreJoined, CleanStart
  <2>2. CASE isCompiled # Rules
    BY <1>3, <2>2, EndInv DEF Verify
  <2> QED BY <2>1, <2>2
<1>4. CASE CompileIntoEngine
  <2>1. CASE Broken = {}
    BY <1>4, <2>1 DEF CompileIntoEngine, team, IInv, ErrorPhase, WorkersAreJoined, CleanStart
  <2>2. CASE Broken # {}
    BY <1>4, <2>2, EndInv DEF CompileIntoEngine, IInv, ErrorPhase
  <2> QED BY <2>1, <2>2
<1>5. CASE AddCloneFails \/ FillPool
  BY <1>5, EndInv DEF AddCloneFails, FillPool, IInv, ErrorPhase
<1> QED BY <1>1, <1>2, <1>3, <1>4, <1>5

(* Every step keeps the invariant and the first error. *)
LEMMA NextInv ==
  ASSUME IInv, [Next]_vars
  PROVE  /\ IInv'
         /\ error # None => error' = error \/ (pc' = "idle" /\ outcome' = error)
<1>1. CASE UNCHANGED vars
  BY <1>1 DEF vars, team, IInv, ErrorPhase, WorkersAreJoined, CleanStart
<1>2. CASE Next
  BY <1>2, WorkerInv, CallerInv, EndingInv DEF Next, CallerStep
<1> QED BY <1>1, <1>2

(* compileParallel throws the first exception that one of its workers met, *)
(* whatever the other workers do and however many levels there are.        *)
THEOREM FirstError == Spec => FirstErrorIsThrown
<1>1. IInv /\ [Next]_vars => IInv'
  BY NextInv
<1>2. IInv /\ [Next]_vars =>
        [error # None => error' = error \/ (pc' = "idle" /\ outcome' = error)]_vars
  BY NextInv
<1> QED BY <1>1, <1>2, InitInv, PTL DEF Spec, FirstErrorIsThrown

-----------------------------------------------------------------------------
(***************************************************************************)
(* The levels, and what the workers have done of them.                     *)
(***************************************************************************)
Placed(r) == \E l \in DOMAIN levels : r \in Range(levels[l])

NoTwice == \A r \in Rules : IsInjective(children[r])

OnePlace ==
  \A l, m \in DOMAIN levels : \A i \in DOMAIN levels[l], j \in DOMAIN levels[m] :
    levels[l][i] = levels[m][j] => l = m /\ i = j

(* The next level is the rules whose count has come to zero; the count of  *)
(* a rule is at least the number of its children that are not placed, and  *)
(* just that number if no child is listed twice.                           *)
BuildInv ==
  pc = "build" =>
    /\ IsInjective(current)
    /\ Range(current) = {p \in remaining : inDegree[p] = 0}
    /\ \A r \in Rules : r \in remaining <=> ~Placed(r)
    /\ \A p \in remaining :
         /\ inDegree[p] >= Cardinality(Range(children[p]) \cap remaining)
         /\ NoTwice => inDegree[p] = Cardinality(Range(children[p]) \cap remaining)

(* A listed child is in an earlier level than its parents. *)
ChildrenBefore ==
  NoTwice =>
    \A l \in DOMAIN levels : \A r \in Range(levels[l]) : \A c \in Range(children[r]) :
      \E m \in DOMAIN levels : m < l /\ c \in Range(levels[m])

LevelsInv ==
  /\ OnePlace
  /\ ChildrenBefore
  /\ pc \in {"levels", "spawn"} => \A r \in Rules : Placed(r)
  /\ pc = "spawn" => levelIdx \in DOMAIN levels
  /\ pc = "levels" => levelIdx >= 1
  /\ pc = "idle" => levels = << >>

(* The levels that were joined without an error are compiled. *)
PastInv ==
  /\ finished \subseteq isCompiled
  /\ pc = "spawn" \/ (pc = "levels" /\ error = None) =>
       \A l \in DOMAIN levels : l < levelIdx => Range(levels[l]) \subseteq finished

(* What has been handed out of a level is compiled or being compiled, and  *)
(* a worker stops only when all is handed out, unless there is an error.   *)
TeamInv ==
  /\ \A w \in Workers : claimed[w] # None <=> worker[w] = "compile"
  /\ pc # "spawn" => nextRule = 0
  /\ pc = "spawn" =>
       /\ \A w \in Workers : claimed[w] # None => claimed[w] \in Range(levels[levelIdx])
       /\ error = None =>
            /\ \A i \in DOMAIN levels[levelIdx] : i <= nextRule =>
                 \/ levels[levelIdx][i] \in finished
                 \/ \E w \in Workers : claimed[w] = levels[levelIdx][i]
            /\ \A w \in Workers : worker[w] = "done" => nextRule >= Len(levels[levelIdx])

(* What an execution relies on, from the moment the pool is filled. *)
ReadyInv ==
  /\ ReadyMeansReady
  /\ pc = "pool" => inEngine = Rules /\ Broken = {}

CompileInv ==
  /\ TypeOK /\ IInv /\ Acyclic(children)
  /\ BuildInv /\ LevelsInv /\ PastInv /\ TeamInv /\ ReadyInv

(* A level that the loops have pushed holds each rule of its set once. *)
LEMMA OrderedLevel ==
  ASSUME NEW S \in SUBSET Rules, NEW visit, NEW s \in InOrder(S, visit)
  PROVE  s \in Seq(Rules) /\ IsInjective(s) /\ Range(s) = S
<1>1. Cardinality(S) \in Nat
  <2>1. IsFiniteSet(Rules)
    BY SizesAssumption, FS_Interval DEF Rules
  <2>2. IsFiniteSet(S)
    BY <2>1, FS_Subset
  <2> QED BY <2>2, FS_CardinalityType
<1>2. /\ s \in [1..Cardinality(S) -> S] /\ IsInjective(s)
      /\ \A r \in S : \E i \in 1..Cardinality(S) : s[i] = r
  BY DEF InOrder, Bijection, Injection, Surjection
<1>3. s \in Seq(Rules)
  BY <1>1, <1>2
<1>4. Range(s) = S
  BY <1>2 DEF Range
<1> QED BY <1>2, <1>3, <1>4

(* A level of rules that are not placed goes to the end. *)
LEMMA AppendLevel ==
  ASSUME levels \in Seq(Seq(Rules)), NEW s \in Seq(Rules), IsInjective(s), OnePlace,
         \A r \in Range(s) : ~Placed(r), levels' = Append(levels, s)
  PROVE  /\ levels' \in Seq(Seq(Rules)) /\ Len(levels) \in Nat
         /\ DOMAIN levels = 1..Len(levels) /\ DOMAIN levels' = 1..(Len(levels) + 1)
         /\ levels'[Len(levels) + 1] = s
         /\ \A l \in DOMAIN levels : levels'[l] = levels[l]
         /\ OnePlace'
         /\ \A r : Placed(r)' <=> Placed(r) \/ r \in Range(s)
<1>1. /\ levels' \in Seq(Seq(Rules)) /\ Len(levels) \in Nat
      /\ DOMAIN levels = 1..Len(levels) /\ DOMAIN levels' = 1..(Len(levels) + 1)
      /\ levels'[Len(levels) + 1] = s
      /\ \A l \in DOMAIN levels : levels'[l] = levels[l]
  BY AppendProperties, LenProperties
<1>2. OnePlace'
  <2> SUFFICES ASSUME NEW l \in DOMAIN levels', NEW m \in DOMAIN levels',
                      NEW i \in DOMAIN levels'[l], NEW j \in DOMAIN levels'[m],
                      levels'[l][i] = levels'[m][j]
               PROVE  l = m /\ i = j
    BY DEF OnePlace
  <2>1. CASE l \in DOMAIN levels /\ m \in DOMAIN levels
    BY <1>1, <2>1 DEF OnePlace
  <2>2. CASE l = Len(levels) + 1 /\ m = Len(levels) + 1
    BY <1>1, <2>2 DEF IsInjective
  <2>3. CASE l = Len(levels) + 1 /\ m \in DOMAIN levels
    BY <1>1, <2>3, ZenonT(30) DEF Placed, Range
  <2>4. CASE m = Len(levels) + 1 /\ l \in DOMAIN levels
    BY <1>1, <2>4, ZenonT(30) DEF Placed, Range
  <2> QED BY <1>1, <2>1, <2>2, <2>3, <2>4
<1>3. ASSUME NEW r PROVE Placed(r)' <=> Placed(r) \/ r \in Range(s)
  BY <1>1 DEF Placed
<1> QED BY <1>1, <1>2, <1>3

(* The count of a rule: each of its entries, and so each of its children   *)
(* at least once.                                                          *)
LEMMA CountChildren ==
  ASSUME children \in [Rules -> Seq(Rules)], NEW p \in Rules
  PROVE  /\ IsFiniteSet(Range(children[p])) /\ ChildEdges(p) \in Nat
         /\ Range(children[p]) \subseteq Rules
         /\ ChildEdges(p) >= Cardinality(Range(children[p]))
         /\ IsInjective(children[p]) => ChildEdges(p) = Cardinality(Range(children[p]))
<1> DEFINE f == children[p]
           n == Len(f)
           T == Range(f)
<1>1. /\ f \in Seq(Rules) /\ n \in Nat /\ f \in [1..n -> Rules] /\ DOMAIN f = 1..n
      /\ \A i \in 1..n : f[i] \in Rules
  BY LenProperties, ElementOfSeq
<1>2. f \in Surjection(1..n, T) /\ T \subseteq Rules
  BY <1>1 DEF Surjection, Range
<1>3. IsFiniteSet(1..n) /\ Cardinality(1..n) = n
  <2> HIDE DEF n
  <2>1. n \in Int /\ 1 \in Int /\ n - 1 + 1 = n /\ (1 > n => n = 0)
    BY <1>1
  <2> QED BY <2>1, FS_Interval
<1>4. IsInjective(f) => f \in Injection(1..n, T)
  BY <1>1, <1>2 DEF Injection, Surjection
<1> HIDE DEF f, T, n
<1>5. /\ IsFiniteSet(T) /\ Cardinality(T) <= n
      /\ f \in Injection(1..n, T) => Cardinality(T) = n
  BY <1>2, <1>3, FS_Surjection
<1>6. Cardinality(T) \in Nat
  BY <1>5, FS_CardinalityType
<1> QED BY <1>1, <1>2, <1>4, <1>5, <1>6 DEF ChildEdges, f, n, T

(* A new workflow. *)
LEMMA CompileInitInv == Init => CompileInv
<1> SUFFICES ASSUME Init PROVE CompileInv
  OBVIOUS
<1>1. children \in [Rules -> Seq(Rules)] /\ Acyclic(children)
  <2>1. /\ children \in [Rules -> BoundedSeq(Rules, MaxChildren)]
        /\ Acyclic(children)
    BY DEF Init
  <2>2. \A s \in BoundedSeq(Rules, MaxChildren) : s \in Seq(Rules)
    BY SizesAssumption DEF BoundedSeq, SeqOf
  <2> HIDE DEF BoundedSeq
  <2> QED BY <2>1, <2>2
<1>2. TypeOK
  <2>1. 0 \in 0..PoolSize /\ 0 \in 0..NumThreads /\ 0 \in 0..MaxCalls
    BY SizesAssumption
  <2>2. current \in Seq(Rules) /\ levels \in Seq(Seq(Rules))
    BY EmptySeq DEF Init
  <2> QED BY <1>1, <2>1, <2>2 DEF Init, TypeOK, Outcomes
<1>3. BuildInv /\ LevelsInv /\ PastInv
  BY DEF Init, BuildInv, LevelsInv, PastInv, OnePlace, ChildrenBefore
<1>4. TeamInv /\ ReadyInv
  BY DEF Init, TeamInv, ReadyInv, ReadyMeansReady
<1> QED BY <1>1, <1>2, <1>3, <1>4, InitInv DEF CompileInv

(* A rule that does not compile by itself is broken. *)
LEMMA BadIsBroken ==
  ASSUME bad \subseteq Rules PROVE bad \subseteq Broken
BY DEF Broken

(* r is compiled with the rules below it. *)
LEMMA FamilyHolds ==
  ASSUME NEW r \in Rules PROVE r \in Family(r) /\ Family(r) \subseteq Rules
BY DEF Family

(* A worker clones, looks for an error, takes a rule, compiles or fails. *)
LEMMA WorkerCompileInv ==
  ASSUME CompileInv, NEW w \in Workers, WorkerStep(w)
  PROVE  CompileInv'
<1> USE DEF CompileInv
<1> DEFINE level == levels[levelIdx]
<1>1. pc = "spawn" /\ levelIdx \in DOMAIN levels
  BY DEF IInv, WorkersAreJoined, WorkerStep, CloneWorker, CloneWorkerFails, CheckError,
         Claim, WorkerCompiles, WorkerFails, LevelsInv
<1>2. /\ pc' = pc /\ levels' = levels /\ levelIdx' = levelIdx /\ children' = children
      /\ bad' = bad /\ compiled' = compiled /\ inEngine' = inEngine /\ storage' = storage
      /\ pool' = pool /\ inDegree' = inDegree /\ remaining' = remaining
      /\ current' = current /\ spawned' = spawned /\ outcome' = outcome /\ calls' = calls
  BY DEF WorkerStep, CloneWorker, CloneWorkerFails, CheckError, Claim, WorkerCompiles,
         WorkerFails, workflow, builder
<1>3. /\ level \in Seq(Rules) /\ Len(level) \in Nat /\ DOMAIN level = 1..Len(level)
      /\ \A i \in DOMAIN level : level[i] \in Rules
  BY <1>1, LenProperties, ElementOfSeq DEF TypeOK
<1>4. None \notin Rules /\ None \notin {"rule", "clone"}
  BY SizesAssumption DEF Rules
<1> HIDE DEF level
<1>5. ASSUME CloneWorker(w) \/ CheckError(w) PROVE TypeOK' /\ PastInv' /\ TeamInv'
  <2>1. /\ claimed' = claimed /\ error' = error /\ finished' = finished
        /\ isCompiled' = isCompiled /\ nextRule' = nextRule
        /\ worker[w] \in {"clone", "check"}
        /\ worker' \in [Workers -> {"off", "clone", "check", "claim", "compile", "done"}]
        /\ \A v \in Workers : v # w => worker'[v] = worker[v]
        /\ worker'[w] # "compile" /\ (error = None => worker'[w] # "done")
    BY <1>5 DEF CloneWorker, CheckError, workflow, TypeOK
  <2>2. TypeOK'
    BY <1>2, <2>1 DEF TypeOK
  <2>3. PastInv'
    BY <1>2, <2>1 DEF PastInv
  <2>4. TeamInv'
    BY <1>1, <1>2, <2>1 DEF TeamInv
  <2> QED BY <2>2, <2>3, <2>4
<1>6. ASSUME CloneWorkerFails(w) \/ WorkerFails(w) PROVE TypeOK' /\ PastInv' /\ TeamInv'
  <2>1. /\ error' # None /\ error' \in {None, "rule", "clone"}
        /\ finished' = finished /\ nextRule' = nextRule
        /\ worker' \in [Workers -> {"off", "clone", "check", "claim", "compile", "done"}]
        /\ \A v \in Workers : v # w => worker'[v] = worker[v] /\ claimed'[v] = claimed[v]
        /\ worker'[w] = "done" /\ claimed'[w] = None
        /\ claimed' \in [Workers -> Rules \cup {None}]
    BY <1>4, <1>6 DEF CloneWorkerFails, WorkerFails, Record, TypeOK
  <2>2. isCompiled' \in SUBSET Rules /\ isCompiled \subseteq isCompiled'
    <3>1. CASE CloneWorkerFails(w)
      BY <3>1 DEF CloneWorkerFails, workflow, TypeOK
    <3>2. CASE WorkerFails(w)
      BY <3>2 DEF WorkerFails, TypeOK, Family
    <3> QED BY <1>6, <3>1, <3>2
  <2>3. TypeOK'
    BY <1>2, <2>1, <2>2 DEF TypeOK
  <2>4. PastInv'
    BY <1>1, <1>2, <2>1, <2>2 DEF PastInv
  <2>5. TeamInv'
    BY <1>1, <1>2, <2>1 DEF TeamInv
  <2> QED BY <2>3, <2>4, <2>5
<1>7. ASSUME Claim(w) PROVE TypeOK' /\ PastInv' /\ TeamInv'
  <2>1. /\ error' = error /\ finished' = finished /\ isCompiled' = isCompiled
        /\ nextRule' = nextRule + 1 /\ nextRule \in Nat
        /\ worker' \in [Workers -> {"off", "clone", "check", "claim", "compile", "done"}]
        /\ \A v \in Workers : v # w => worker'[v] = worker[v] /\ claimed'[v] = claimed[v]
        /\ DOMAIN claimed' = Workers /\ worker[w] = "claim" /\ claimed[w] = None
    BY <1>4, <1>7 DEF Claim, workflow, TypeOK, TeamInv
  <2>2. IF nextRule >= Len(level)
        THEN worker'[w] = "done" /\ claimed'[w] = None
        ELSE worker'[w] = "compile" /\ claimed'[w] = level[nextRule + 1]
    BY <1>7, <2>1 DEF Claim, level, TypeOK
  <2>3. ~(nextRule >= Len(level)) => nextRule + 1 \in DOMAIN level
    BY <1>3, <2>1
  <2>4. TypeOK'
    <3>1. claimed' \in [Workers -> Rules \cup {None}]
      BY <1>3, <2>1, <2>2, <2>3, <1>7 DEF TypeOK, Claim
    <3> QED BY <1>2, <2>1, <3>1 DEF TypeOK
  <2>5. PastInv'
    BY <1>2, <2>1 DEF PastInv
  <2>6. TeamInv'
    <3>1. \A v \in Workers : claimed'[v] # None <=> worker'[v] = "compile"
      BY <1>3, <1>4, <2>1, <2>2, <2>3 DEF TeamInv
    <3>2. \A v \in Workers : claimed'[v] # None => claimed'[v] \in Range(level)
      BY <1>1, <2>1, <2>2, <2>3 DEF TeamInv, Range, level
    <3>3. ASSUME error = None, NEW i \in DOMAIN level, i <= nextRule + 1
          PROVE  level[i] \in finished \/ \E v \in Workers : claimed'[v] = level[i]
      <4>1. CASE i <= nextRule
        <5>1. level[i] \in finished \/ \E v \in Workers : claimed[v] = level[i]
          BY <1>1, <3>3, <4>1 DEF TeamInv, level
        <5>2. \A v \in Workers : claimed[v] = level[i] => claimed'[v] = level[i]
          BY <1>3, <1>4, <2>1
        <5> QED BY <5>1, <5>2
      <4>2. CASE i = nextRule + 1
        BY <1>3, <2>1, <2>2, <4>2
      <4> QED BY <1>3, <2>1, <3>3, <4>1, <4>2
    <3>4. ASSUME error = None, NEW v \in Workers, worker'[v] = "done"
          PROVE  nextRule + 1 >= Len(level)
      BY <1>1, <1>3, <2>1, <2>2, <3>4 DEF TeamInv, level
    <3> QED BY <1>1, <1>2, <2>1, <3>1, <3>2, <3>3, <3>4 DEF TeamInv, level
  <2> QED BY <2>4, <2>5, <2>6
<1>8. ASSUME WorkerCompiles(w) PROVE TypeOK' /\ PastInv' /\ TeamInv'
  <2>1. /\ claimed[w] \in Rules
        /\ error' = error /\ nextRule' = nextRule
        /\ finished' = finished \cup {claimed[w]}
        /\ isCompiled' = isCompiled \cup Family(claimed[w])
        /\ worker' \in [Workers -> {"off", "clone", "check", "claim", "compile", "done"}]
        /\ claimed' \in [Workers -> Rules \cup {None}]
        /\ \A v \in Workers : v # w => worker'[v] = worker[v] /\ claimed'[v] = claimed[v]
        /\ worker'[w] = "check" /\ claimed'[w] = None
    BY <1>8 DEF WorkerCompiles, TypeOK, TeamInv
  <2>2. claimed[w] \in Family(claimed[w]) /\ Family(claimed[w]) \subseteq Rules
    BY <2>1, FamilyHolds
  <2>3. TypeOK'
    BY <1>2, <2>1, <2>2 DEF TypeOK
  <2>4. PastInv'
    BY <1>1, <1>2, <2>1, <2>2 DEF PastInv
  <2>5. TeamInv'
    BY <1>1, <1>2, <2>1 DEF TeamInv
  <2> QED BY <2>3, <2>4, <2>5
<1>9. TypeOK' /\ PastInv' /\ TeamInv'
  BY <1>5, <1>6, <1>7, <1>8 DEF WorkerStep
<1>10. BuildInv' /\ LevelsInv' /\ Acyclic(children)'
  BY <1>1, <1>2 DEF BuildInv, LevelsInv, OnePlace, ChildrenBefore, NoTwice, Placed, Acyclic
<1>11. ReadyInv'
  BY <1>2 DEF ReadyInv, ReadyMeansReady, Broken
<1> QED BY <1>9, <1>10, <1>11, WorkerInv

(* A call that ends leaves what it has compiled, and nothing else. *)
LEMMA EndCompileInv ==
  ASSUME CompileInv, NEW how \in Outcomes \ {"notAll"}, End(how),
         children' = children, bad' = bad, calls' = calls,
         storage' \in 0..PoolSize, pool' \in 0..PoolSize,
         inEngine' \in SUBSET Rules, isCompiled' \in SUBSET Rules, compiled' \in BOOLEAN,
         compiled' => inEngine' = Rules /\ pool' = PoolSize /\ Broken = {}
  PROVE  CompileInv'
<1> USE DEF CompileInv
<1>1. TypeOK'
  <2>1. 0 \in 0..NumThreads
    BY SizesAssumption
  <2>2. current' \in Seq(Rules) /\ levels' \in Seq(Seq(Rules))
    BY EmptySeq DEF End, NoLevels
  <2> QED BY <2>1, <2>2 DEF End, NoLevels, NoWorkers, TypeOK
<1>2. BuildInv' /\ LevelsInv' /\ PastInv' /\ Acyclic(children)'
  BY DEF End, BuildInv, LevelsInv, PastInv, OnePlace, ChildrenBefore, Acyclic
<1>3. TeamInv' /\ ReadyInv'
  BY DEF End, NoWorkers, TeamInv, ReadyInv, ReadyMeansReady, Broken
<1> QED BY <1>1, <1>2, <1>3, EndInv

(* compile() begins, a rule is mended, or a clone is added: the levels and *)
(* the workers are not concerned.                                          *)
LEMMA AsideInv ==
  ASSUME CompileInv, BeginCompile \/ AddClone \/ \E r \in Rules : Mend(r)
  PROVE  CompileInv'
<1> USE DEF CompileInv
<1>1. /\ inDegree' = inDegree /\ remaining' = remaining /\ current' = current
      /\ levels' = levels /\ levelIdx' = levelIdx /\ error' = error /\ nextRule' = nextRule
      /\ spawned' = spawned /\ worker' = worker /\ claimed' = claimed
      /\ finished' = finished /\ children' = children /\ isCompiled' = isCompiled
      /\ compiled' = compiled /\ inEngine' = inEngine /\ pool' = pool
      /\ pc \in {"idle", "pool"} /\ pc' \in {pc, "engine"} /\ outcome' \in {outcome, "none"}
      /\ storage' \in 0..PoolSize /\ calls' \in 0..MaxCalls
  <2>1. CASE BeginCompile
    BY <2>1, SizesAssumption DEF BeginCompile, workflow, builder, team, TypeOK
  <2>2. CASE AddClone
    BY <2>2, SizesAssumption DEF AddClone, builder, team, TypeOK
  <2>3. CASE \E r \in Rules : Mend(r)
    BY <2>3 DEF Mend, builder, team, TypeOK
  <2> QED BY <2>1, <2>2, <2>3
<1>2. bad' \in SUBSET Rules /\ (compiled \/ pc' = "pool" => bad' = bad)
  <2>1. CASE \E r \in Rules : Mend(r)
    <3>1. compiled => bad = {}
      BY BadIsBroken DEF ReadyInv, ReadyMeansReady, TypeOK
    <3> QED BY <2>1, <3>1 DEF Mend, TypeOK
  <2>2. CASE BeginCompile \/ AddClone
    BY <2>2 DEF BeginCompile, AddClone, workflow, TypeOK
  <2> QED BY <2>1, <2>2
<1>3. TypeOK'
  BY <1>1, <1>2 DEF TypeOK, Outcomes
<1>4. BuildInv' /\ LevelsInv' /\ PastInv' /\ TeamInv' /\ Acyclic(children)'
  BY <1>1 DEF BuildInv, LevelsInv, PastInv, TeamInv, OnePlace, ChildrenBefore, NoTwice,
     Acyclic
<1>5. ReadyInv'
  BY <1>1, <1>2 DEF ReadyInv, ReadyMeansReady, Broken
<1> QED BY <1>3, <1>4, <1>5, CallerInv

(* compileParallel begins: the rules without listed children come first. *)
LEMMA BeginParallelInv ==
  ASSUME CompileInv, BeginCompileParallel PROVE CompileInv'
<1> USE DEF CompileInv
<1> DEFINE first == {r \in Rules : ChildEdges(r) = 0}
<1>1. /\ levels' = levels /\ levelIdx' = levelIdx /\ error' = error /\ nextRule' = nextRule
      /\ spawned' = spawned /\ worker' = worker /\ claimed' = claimed
      /\ finished' = finished /\ children' = children /\ isCompiled' = isCompiled
      /\ compiled' = compiled /\ inEngine' = inEngine /\ pool' = pool /\ bad' = bad
      /\ storage' = storage /\ pc = "idle" /\ pc' = "build" /\ outcome' = "none"
      /\ calls' \in 0..MaxCalls /\ remaining' = Rules /\ levels = << >>
      /\ inDegree' = [r \in Rules |-> ChildEdges(r)]
      /\ current' \in InOrder(first, AtOnce)
  BY SizesAssumption DEF BeginCompileParallel, workflow, team, TypeOK, LevelsInv
<1>2. current' \in Seq(Rules) /\ IsInjective(current') /\ Range(current') = first
  BY <1>1, OrderedLevel
<1>3. \A p \in Rules : /\ Range(children[p]) \cap Rules = Range(children[p])
                       /\ ChildEdges(p) \in Nat
                       /\ ChildEdges(p) >= Cardinality(Range(children[p]))
                       /\ IsInjective(children[p]) =>
                            ChildEdges(p) = Cardinality(Range(children[p]))
  BY CountChildren DEF TypeOK
<1>4. TypeOK'
  BY <1>1, <1>2, <1>3 DEF TypeOK, Outcomes
<1>5. BuildInv'
  <2>1. \A r : ~Placed(r)'
    BY <1>1 DEF Placed
  <2>2. {p \in remaining' : inDegree'[p] = 0} = first
    BY <1>1
  <2>3. \A p \in remaining' :
          /\ inDegree'[p] = ChildEdges(p)
          /\ Range(children'[p]) \cap remaining' = Range(children[p])
    BY <1>1, <1>3
  <2> QED BY <1>1, <1>2, <1>3, <2>1, <2>2, <2>3 DEF BuildInv, NoTwice
<1>6. LevelsInv' /\ PastInv' /\ TeamInv' /\ Acyclic(children)'
  BY <1>1 DEF LevelsInv, PastInv, TeamInv, OnePlace, ChildrenBefore, Acyclic
<1>7. ReadyInv'
  BY <1>1 DEF ReadyInv, ReadyMeansReady, Broken
<1> QED BY <1>4, <1>5, <1>6, <1>7, CallerInv

(* The rules that are placed are no longer counted. *)
LEMMA CountLeft ==
  ASSUME CompileInv, pc = "build", NEW p \in remaining \ Range(current)
  PROVE  LET before == Cardinality(Range(children[p]) \cap remaining)
             now == Cardinality(Range(children[p]) \cap Range(current))
             left == Cardinality(Range(children[p]) \cap (remaining \ Range(current)))
         IN  /\ before \in Nat /\ now \in Nat /\ left \in Nat /\ left = before - now
             /\ (Turns(p) = {} => now = 0)
<1> DEFINE C == Range(children[p])
           R == remaining
           K == Range(current)
<1>1. p \in Rules /\ K \subseteq R
  BY DEF CompileInv, TypeOK, BuildInv
<1>2. IsFiniteSet(C)
  BY <1>1, CountChildren DEF CompileInv, TypeOK
<1>3. Turns(p) = {} => C \cap K = {}
  BY DEF Turns, Range
<1> HIDE DEF C, R, K
<1>4. /\ (C \cap R) \ K = C \cap (R \ K) /\ (C \cap R) \cap K = C \cap K
  BY <1>1
<1>5. IsFiniteSet(C \cap R) /\ IsFiniteSet(C \cap K) /\ IsFiniteSet(C \cap (R \ K))
  BY <1>2, FS_Subset
<1>6. /\ Cardinality(C \cap R) \in Nat /\ Cardinality(C \cap K) \in Nat
      /\ Cardinality(C \cap (R \ K)) \in Nat
  BY <1>5, FS_CardinalityType
<1>7. Cardinality(C \cap (R \ K)) = Cardinality(C \cap R) - Cardinality(C \cap K)
  BY <1>4, <1>5, FS_Difference
<1>8. C \cap K = {} => Cardinality(C \cap K) = 0
  BY <1>5, FS_EmptySet
<1> QED BY <1>3, <1>6, <1>7, <1>8 DEF C, R, K

(* A rule whose count is zero has no child left. *)
LEMMA NoneLeft ==
  ASSUME CompileInv, pc = "build", NEW p \in remaining
  PROVE  /\ inDegree[p] = 0 /\ NoTwice => Range(children[p]) \cap remaining = {}
         /\ Range(children[p]) \cap remaining = {} /\ NoTwice => inDegree[p] = 0
<1> DEFINE C == Range(children[p]) \cap remaining
<1>1. p \in Rules
  BY DEF CompileInv, TypeOK
<1>2. IsFiniteSet(C)
  BY <1>1, CountChildren, FS_Subset DEF CompileInv, TypeOK
<1>3. NoTwice => inDegree[p] = Cardinality(C)
  BY DEF CompileInv, BuildInv
<1> HIDE DEF C
<1>4. Cardinality(C) = 0 <=> C = {}
  BY <1>2, FS_EmptySet
<1> QED BY <1>3, <1>4 DEF C

(* One turn of the while loop of buildCompilationLevels. *)
LEMMA PlaceLevelInv ==
  ASSUME CompileInv, PlaceLevel PROVE CompileInv'
<1> USE DEF CompileInv
<1> DEFINE K == Range(current)
           ready == {p \in remaining \ K : Turns(p) # {} /\ Subtracted(p) = 0}
<1>1. /\ levelIdx' = levelIdx /\ error' = error /\ nextRule' = nextRule
      /\ spawned' = spawned /\ worker' = worker /\ claimed' = claimed
      /\ finished' = finished /\ children' = children /\ isCompiled' = isCompiled
      /\ compiled' = compiled /\ inEngine' = inEngine /\ pool' = pool /\ bad' = bad
      /\ storage' = storage /\ pc = "build" /\ pc' = "build" /\ outcome' = outcome
      /\ calls' = calls /\ remaining' = remaining \ K /\ levels' = Append(levels, current)
      /\ inDegree' = [p \in Rules |-> Subtracted(p)]
      /\ current' \in NextLevel
  BY DEF PlaceLevel, workflow, team
<1>2. /\ remaining \subseteq Rules /\ K \subseteq remaining /\ ready \in SUBSET Rules
      /\ IsInjective(current) /\ current \in Seq(Rules) /\ levels \in Seq(Seq(Rules))
      /\ \A r \in Rules : r \in remaining <=> ~Placed(r)
      /\ \A p \in remaining : inDegree[p] = 0 <=> p \in K
  BY <1>1 DEF TypeOK, BuildInv
<1>3. current' \in Seq(Rules) /\ IsInjective(current') /\ Range(current') = ready
  BY <1>1, <1>2, OrderedLevel DEF NextLevel
<1>4. /\ levels' \in Seq(Seq(Rules)) /\ Len(levels) \in Nat
      /\ DOMAIN levels = 1..Len(levels) /\ DOMAIN levels' = 1..(Len(levels) + 1)
      /\ levels'[Len(levels) + 1] = current
      /\ \A l \in DOMAIN levels : levels'[l] = levels[l]
      /\ OnePlace'
      /\ \A r : Placed(r)' <=> Placed(r) \/ r \in K
  BY <1>1, <1>2, AppendLevel DEF LevelsInv
<1>5. ASSUME NEW p \in remaining \ K
      PROVE  LET left == Cardinality(Range(children[p]) \cap (remaining \ K)) IN
             /\ Subtracted(p) \in Nat /\ Subtracted(p) >= left
             /\ NoTwice => Subtracted(p) = left
             /\ Subtracted(p) = 0 => p \in ready
  <2> DEFINE before == Cardinality(Range(children[p]) \cap remaining)
             now == Cardinality(Range(children[p]) \cap K)
             left == Cardinality(Range(children[p]) \cap (remaining \ K))
  <2>1. /\ before \in Nat /\ now \in Nat /\ left \in Nat /\ left = before - now
        /\ (Turns(p) = {} => now = 0)
    BY <1>1, CountLeft
  <2>2. Subtracted(p) = inDegree[p] - now
    BY DEF Subtracted
  <2>3. /\ inDegree[p] \in Nat /\ inDegree[p] # 0
        /\ inDegree[p] >= before /\ (NoTwice => inDegree[p] = before)
    BY <1>1, <1>2 DEF TypeOK, BuildInv
  <2> HIDE DEF before, now, left
  <2>4. /\ Subtracted(p) \in Nat /\ Subtracted(p) >= left
        /\ NoTwice => Subtracted(p) = left
        /\ Subtracted(p) = 0 => Turns(p) # {}
    BY <2>1, <2>2, <2>3
  <2> QED BY <2>4 DEF left
<1>6. TypeOK'
  <2>1. \A p \in Rules : Subtracted(p) \in Nat
    <3> SUFFICES ASSUME NEW p \in Rules PROVE Subtracted(p) \in Nat
      OBVIOUS
    <3>1. CASE p \in remaining \ K
      BY <1>5, <3>1
    <3>2. CASE p \notin remaining \ K
      BY <3>2 DEF Subtracted, TypeOK
    <3> QED BY <3>1, <3>2
  <2>2. inDegree' \in [Rules -> Nat]
    BY <1>1, <2>1
  <2> QED BY <1>1, <1>2, <1>3, <1>4, <2>2 DEF TypeOK
<1>7. BuildInv'
  <2>1. \A p \in remaining' : inDegree'[p] = Subtracted(p)
    BY <1>1, <1>2
  <2>2. Range(current') = {p \in remaining' : inDegree'[p] = 0}
    BY <1>1, <1>3, <1>5, <2>1
  <2>3. \A r \in Rules : r \in remaining' <=> ~Placed(r)'
    BY <1>1, <1>2, <1>4
  <2>4. NoTwice' <=> NoTwice
    BY <1>1 DEF NoTwice
  <2>5. ASSUME NEW p \in remaining'
        PROVE  /\ inDegree'[p] >= Cardinality(Range(children'[p]) \cap remaining')
               /\ NoTwice' => inDegree'[p] = Cardinality(Range(children'[p]) \cap remaining')
    BY <1>1, <1>5, <2>1, <2>4
  <2> QED BY <1>3, <2>2, <2>3, <2>5 DEF BuildInv
<1>8. ChildrenBefore'
  <2> SUFFICES ASSUME NoTwice, NEW l \in DOMAIN levels', NEW r \in Range(levels'[l]),
                      NEW c \in Range(children[r])
               PROVE  \E m \in DOMAIN levels' : m < l /\ c \in Range(levels'[m])
    BY <1>1 DEF ChildrenBefore, NoTwice
  <2>1. CASE l \in DOMAIN levels
    <3>1. PICK m \in DOMAIN levels : m < l /\ c \in Range(levels[m])
      BY <1>4, <2>1 DEF LevelsInv, ChildrenBefore
    <3> QED BY <1>4, <3>1
  <2>2. CASE l = Len(levels) + 1
    <3>1. r \in remaining /\ r \in Rules /\ inDegree[r] = 0
      BY <1>2, <1>4, <2>2
    <3>2. c \in Rules /\ c \notin remaining
      BY <1>1, <3>1, NoneLeft, CountChildren DEF TypeOK
    <3>3. PICK m \in DOMAIN levels : c \in Range(levels[m])
      BY <1>2, <3>2 DEF Placed
    <3> QED BY <1>4, <2>2, <3>3
  <2> QED BY <1>4, <2>1, <2>2
<1>9. LevelsInv' /\ PastInv' /\ TeamInv' /\ Acyclic(children)'
  BY <1>1, <1>4, <1>8 DEF LevelsInv, PastInv, TeamInv, Acyclic
<1>10. ReadyInv'
  BY <1>1 DEF ReadyInv, ReadyMeansReady, Broken
<1> QED BY <1>6, <1>7, <1>9, <1>10, CallerInv

(* buildCompilationLevels returns; there are leftovers only if some rule   *)
(* lists a child twice.                                                    *)
LEMMA PlaceLeftoversInv ==
  ASSUME CompileInv, PlaceLeftovers PROVE CompileInv'
<1> USE DEF CompileInv
<1>1. /\ error' = error /\ nextRule' = nextRule
      /\ spawned' = spawned /\ worker' = worker /\ claimed' = claimed
      /\ finished' = finished /\ children' = children /\ isCompiled' = isCompiled
      /\ compiled' = compiled /\ inEngine' = inEngine /\ pool' = pool /\ bad' = bad
      /\ storage' = storage /\ pc = "build" /\ pc' = "levels" /\ outcome' = outcome
      /\ calls' = calls /\ levelIdx' = 1 /\ current = << >>
      /\ remaining' = {} /\ current' = << >> /\ inDegree' = [r \in Rules |-> 0]
  BY DEF PlaceLeftovers, NoLevels, workflow, team
<1>2. /\ remaining \in SUBSET Rules /\ levels \in Seq(Seq(Rules))
      /\ \A r \in Rules : r \in remaining <=> ~Placed(r)
      /\ \A p \in remaining : inDegree[p] # 0
  <2>1. Range(current) = {}
    BY <1>1 DEF Range
  <2> QED BY <1>1, <2>1 DEF TypeOK, BuildInv
<1>3. NoTwice => remaining = {}
  <2> SUFFICES ASSUME NoTwice, remaining # {} PROVE FALSE
    OBVIOUS
  <2>1. PICK r \in remaining : Range(children[r]) \cap remaining = {}
    BY <1>2 DEF Acyclic
  <2> QED BY <1>1, <1>2, <2>1, NoneLeft
<1>4. /\ levels' \in Seq(Seq(Rules)) /\ OnePlace' /\ ChildrenBefore'
      /\ \A r \in Rules : Placed(r)'
  <2>1. CASE remaining = {}
    <3>1. levels' = levels
      BY <2>1 DEF PlaceLeftovers
    <3> QED BY <1>1, <1>2, <2>1, <3>1 DEF LevelsInv, OnePlace, ChildrenBefore, NoTwice, Placed
  <2>2. CASE remaining # {}
    <3>1. PICK leftovers \in InOrder(remaining, AtOnce) : levels' = Append(levels, leftovers)
      BY <2>2 DEF PlaceLeftovers
    <3>2. /\ leftovers \in Seq(Rules) /\ IsInjective(leftovers)
          /\ Range(leftovers) = remaining
      BY <1>2, OrderedLevel
    <3>3. /\ levels' \in Seq(Seq(Rules)) /\ OnePlace'
          /\ \A r : Placed(r)' <=> Placed(r) \/ r \in Range(leftovers)
      BY <1>2, <3>1, <3>2, AppendLevel DEF LevelsInv
    <3>4. ~NoTwice'
      BY <1>1, <1>3, <2>2 DEF NoTwice
    <3> QED BY <1>2, <3>2, <3>3, <3>4 DEF ChildrenBefore
  <2> QED BY <2>1, <2>2
<1>5. TypeOK'
  BY <1>1, <1>4, EmptySeq DEF TypeOK
<1>6. error = None
  BY <1>1 DEF IInv, ErrorPhase
<1>7. BuildInv' /\ LevelsInv' /\ PastInv' /\ TeamInv' /\ Acyclic(children)'
  <2>1. \A l \in DOMAIN levels' : ~(l < 1)
    BY <1>4, LenProperties
  <2> QED BY <1>1, <1>4, <2>1 DEF BuildInv, LevelsInv, PastInv, TeamInv, Acyclic
<1>8. ReadyInv'
  BY <1>1 DEF ReadyInv, ReadyMeansReady, Broken
<1> QED BY <1>5, <1>7, <1>8, CallerInv

(* The number of workers of a level that is not empty. *)
LEMMA SomeThreads ==
  ASSUME CompileInv, pc = "spawn"
  PROVE  /\ levels[levelIdx] \in Seq(Rules) /\ Len(levels[levelIdx]) \in Nat
         /\ DOMAIN levels[levelIdx] = 1..Len(levels[levelIdx])
         /\ LevelThreads \in 0..NumThreads
         /\ Len(levels[levelIdx]) # 0 => LevelThreads # 0
<1>1. levels[levelIdx] \in Seq(Rules) /\ Len(levels[levelIdx]) \in Nat
      /\ DOMAIN levels[levelIdx] = 1..Len(levels[levelIdx])
  BY LenProperties, ElementOfSeq DEF CompileInv, LevelsInv, TypeOK
<1> QED BY <1>1, SizesAssumption DEF LevelThreads

(* The level is entered and its threads are started. *)
LEMMA SpawnInv ==
  ASSUME CompileInv, EnterLevel \/ Spawn PROVE CompileInv'
<1> USE DEF CompileInv
<1>1. /\ inDegree' = inDegree /\ remaining' = remaining /\ current' = current
      /\ levels' = levels /\ levelIdx' = levelIdx /\ error' = error /\ nextRule' = nextRule
      /\ claimed' = claimed /\ bad' = bad /\ storage' = storage /\ calls' = calls
      /\ finished' = finished /\ children' = children /\ isCompiled' = isCompiled
      /\ compiled' = compiled /\ inEngine' = inEngine /\ pool' = pool /\ outcome' = outcome
      /\ pc \in {"levels", "spawn"} /\ pc' = "spawn"
  BY DEF EnterLevel, Spawn, workflow, builder, team
<1>2. BuildInv' /\ Acyclic(children)' /\ ReadyInv' /\ OnePlace' /\ ChildrenBefore'
      /\ \A r \in Rules : Placed(r)'
  BY <1>1, SMTT(20) DEF BuildInv, Acyclic, ReadyInv, ReadyMeansReady, Broken, LevelsInv, OnePlace,
     ChildrenBefore, NoTwice, Placed
<1>3. CASE EnterLevel
  <2>1. pc = "levels" /\ error = None /\ worker' = worker /\ spawned' = spawned
        /\ levelIdx <= Len(levels)
    BY <1>3 DEF EnterLevel, team
  <2>2. levelIdx \in DOMAIN levels
    BY <2>1, LenProperties DEF TypeOK, LevelsInv
  <2>3. TypeOK'
    BY <1>1, <2>1 DEF TypeOK
  <2>4. LevelsInv' /\ PastInv'
    BY <1>1, <1>2, <2>1, <2>2 DEF LevelsInv, PastInv
  <2>5. TeamInv'
    <3>1. \A w \in Workers : worker[w] = "off" /\ claimed[w] = None
      BY <2>1 DEF IInv, WorkersAreJoined, TeamInv
    <3>2. nextRule = 0 /\ \A i \in DOMAIN levels[levelIdx] : ~(i <= 0)
      BY <2>1, <2>2, LenProperties, ElementOfSeq DEF TeamInv, TypeOK
    <3> QED BY <1>1, <2>1, <3>1, <3>2 DEF TeamInv
  <2> QED BY <1>2, <1>3, <2>3, <2>4, <2>5, CallerInv
<1>4. CASE Spawn
  <2>1. /\ pc = "spawn" /\ spawned < LevelThreads /\ spawned' = spawned + 1
        /\ worker' = [worker EXCEPT ![spawned + 1] = "clone"]
    BY <1>4 DEF Spawn
  <2>2. spawned + 1 \in Workers /\ spawned' \in 0..NumThreads
    BY <2>1, SomeThreads, SizesAssumption DEF TypeOK, Workers
  <2>3. worker[spawned + 1] = "off" /\ claimed[spawned + 1] = None
    BY <2>1, <2>2, SizesAssumption DEF IInv, WorkersAreJoined, TeamInv, Workers, TypeOK
  <2>4. TypeOK'
    BY <1>1, <2>1, <2>2 DEF TypeOK
  <2>5. LevelsInv' /\ PastInv'
    BY <1>1, <1>2, <2>1 DEF LevelsInv, PastInv
  <2>6. TeamInv'
    <3>1. /\ worker'[spawned + 1] = "clone"
          /\ \A w \in Workers : w # spawned + 1 => worker'[w] = worker[w]
      BY <2>1, <2>2 DEF TypeOK
    <3> QED BY <1>1, <2>1, <2>2, <2>3, <3>1 DEF TeamInv
  <2> QED BY <1>2, <1>4, <2>4, <2>5, <2>6, CallerInv
<1> QED BY <1>3, <1>4

(* The threads of a level are joined: without an error the whole level is  *)
(* compiled, for a worker has seen the end of it and none holds a rule.    *)
LEMMA JoinInv ==
  ASSUME CompileInv, Join PROVE CompileInv'
<1> USE DEF CompileInv
<1> DEFINE level == levels[levelIdx]
<1>1. /\ inDegree' = inDegree /\ remaining' = remaining /\ current' = current
      /\ levels' = levels /\ levelIdx' = levelIdx + 1 /\ error' = error /\ nextRule' = 0
      /\ bad' = bad /\ storage' = storage /\ calls' = calls /\ spawned' = 0
      /\ worker' = [w \in Workers |-> "off"] /\ claimed' = [w \in Workers |-> None]
      /\ finished' = finished /\ children' = children /\ isCompiled' = isCompiled
      /\ compiled' = compiled /\ inEngine' = inEngine /\ pool' = pool /\ outcome' = outcome
      /\ pc = "spawn" /\ pc' = "levels" /\ spawned = LevelThreads
      /\ \A w \in 1..spawned : worker[w] = "done"
  BY DEF Join, NoWorkers, workflow, builder
<1>2. BuildInv' /\ Acyclic(children)' /\ ReadyInv' /\ OnePlace' /\ ChildrenBefore'
      /\ \A r \in Rules : Placed(r)'
  <2>1. BuildInv' /\ Acyclic(children)' /\ ReadyInv'
    BY <1>1 DEF BuildInv, Acyclic, ReadyInv, ReadyMeansReady, Broken
  <2>2. OnePlace' /\ ChildrenBefore' /\ \A r \in Rules : Placed(r)'
    BY <1>1 DEF LevelsInv, OnePlace, ChildrenBefore, NoTwice, Placed
  <2> QED BY <2>1, <2>2
<1>3. TypeOK'
  BY <1>1, SizesAssumption DEF TypeOK
<1>4. TeamInv'
  BY <1>1 DEF TeamInv
<1>5. /\ levelIdx \in DOMAIN levels /\ DOMAIN levels = 1..Len(levels) /\ Len(levels) \in Nat
      /\ levelIdx \in Nat
  BY <1>1, LenProperties DEF LevelsInv, TypeOK
<1>6. LevelsInv'
  BY <1>1, <1>2, <1>5 DEF LevelsInv
<1>7. ASSUME error = None PROVE Range(level) \subseteq finished
  <2> SUFFICES ASSUME NEW i \in DOMAIN level PROVE level[i] \in finished
    BY DEF Range
  <2>1. /\ Len(level) \in Nat /\ DOMAIN level = 1..Len(level) /\ level[i] \in Rules
        /\ spawned \in 0..NumThreads /\ spawned # 0
    BY <1>1, SomeThreads, ElementOfSeq
  <2>2. 1 \in Workers /\ 1 \in 1..spawned
    BY <2>1, SizesAssumption DEF Workers
  <2>3. i <= nextRule
    BY <1>1, <1>7, <2>1, <2>2 DEF TeamInv, TypeOK
  <2>4. \A w \in Workers : claimed[w] = None
    <3> SUFFICES ASSUME NEW w \in Workers PROVE worker[w] # "compile"
      BY DEF TeamInv
    <3>1. CASE w <= spawned
      BY <1>1, <2>1, <3>1 DEF Workers
    <3>2. CASE ~(w <= spawned)
      BY <3>2 DEF IInv, WorkersAreJoined
    <3> QED BY <3>1, <3>2
  <2>5. level[i] # None
    BY <2>1, SizesAssumption DEF Rules
  <2> QED BY <1>1, <1>7, <2>3, <2>4, <2>5 DEF TeamInv
<1>8. PastInv'
  <2> SUFFICES ASSUME error = None, NEW l \in DOMAIN levels, l < levelIdx + 1
               PROVE  Range(levels[l]) \subseteq finished
    BY <1>1 DEF PastInv
  <2>1. CASE l < levelIdx
    BY <1>1, <2>1 DEF PastInv
  <2>2. CASE l = levelIdx
    BY <1>7, <2>2
  <2> QED BY <1>5, <2>1, <2>2
<1> QED BY <1>2, <1>3, <1>4, <1>6, <1>8, CallerInv

(* The steps that end a call or pass on to the engines. *)
LEMMA EndingCompileInv ==
  ASSUME CompileInv,
         SpawnFails \/ Rethrow \/ Verify \/ CompileIntoEngine \/ AddCloneFails \/ FillPool
  PROVE  CompileInv'
<1> USE DEF CompileInv
<1>0. Broken \subseteq Rules /\ PoolSize \in 0..PoolSize /\ 0 \in 0..PoolSize
  BY SizesAssumption DEF Broken
<1>1. CASE SpawnFails
  <2>1. children' = children /\ bad' = bad /\ compiled' = compiled
        /\ isCompiled' = isCompiled /\ inEngine' = inEngine /\ storage' = storage
        /\ pool' = pool /\ calls' = calls /\ pc = "spawn"
    BY <1>1 DEF SpawnFails, workflow
  <2>2. CASE spawned = 0
    BY <1>1, <2>1, <2>2, EndCompileInv
       DEF SpawnFails, Outcomes, TypeOK, ReadyInv, ReadyMeansReady
  <2>3. CASE spawned # 0
    <3>1. /\ inDegree' = inDegree /\ remaining' = remaining /\ current' = current
          /\ levels' = levels /\ levelIdx' = levelIdx /\ error' = error
          /\ finished' = finished /\ outcome' = outcome /\ pc' = "terminated"
          /\ nextRule' = 0 /\ spawned' = 0
          /\ worker' = [w \in Workers |-> "off"] /\ claimed' = [w \in Workers |-> None]
      BY <1>1, <2>3 DEF SpawnFails, NoWorkers, builder
    <3>2. TypeOK'
      BY <2>1, <3>1, SizesAssumption DEF TypeOK
    <3>3. BuildInv' /\ LevelsInv' /\ PastInv' /\ TeamInv' /\ Acyclic(children)'
      BY <2>1, <3>1 DEF BuildInv, LevelsInv, PastInv, TeamInv, OnePlace, ChildrenBefore,
         NoTwice, Acyclic
    <3>4. ReadyInv'
      BY <2>1, <3>1 DEF ReadyInv, ReadyMeansReady, Broken
    <3> QED BY <1>1, <3>2, <3>3, <3>4, EndingInv
  <2> QED BY <2>2, <2>3
<1>2. CASE Rethrow
  <2>1. End(error) /\ error \in Outcomes \ {"notAll"}
    BY <1>2 DEF Rethrow, TypeOK, Outcomes
  <2> QED BY <1>2, <2>1, EndCompileInv DEF Rethrow, workflow, TypeOK, ReadyInv, ReadyMeansReady
<1>3. CASE Verify
  <2>1. pc = "levels" /\ error = None /\ levelIdx > Len(levels)
    BY <1>3 DEF Verify
  <2>2. isCompiled = Rules
    <3> SUFFICES ASSUME NEW r \in Rules PROVE r \in isCompiled
      BY DEF TypeOK
    <3>1. PICK l \in DOMAIN levels : r \in Range(levels[l])
      BY <2>1 DEF LevelsInv, Placed
    <3>2. l < levelIdx
      BY <2>1, LenProperties DEF TypeOK
    <3> QED BY <2>1, <3>1, <3>2 DEF PastInv
  <2>3. /\ children' = children /\ bad' = bad /\ compiled' = compiled
        /\ isCompiled' = isCompiled /\ inEngine' = inEngine /\ storage' = storage
        /\ pool' = pool /\ calls' = calls /\ pc' = "engine"
        /\ inDegree' = inDegree /\ remaining' = remaining /\ current' = current
        /\ levels' = levels /\ levelIdx' = levelIdx /\ error' = error
        /\ finished' = finished /\ outcome' = outcome /\ nextRule' = nextRule
        /\ spawned' = spawned /\ worker' = worker /\ claimed' = claimed
    BY <1>3, <2>2 DEF Verify, workflow, builder, team
  <2>4. TypeOK'
    BY <2>3 DEF TypeOK
  <2>5. BuildInv' /\ LevelsInv' /\ PastInv' /\ TeamInv' /\ Acyclic(children)'
    BY <2>1, <2>3 DEF BuildInv, LevelsInv, PastInv, TeamInv, OnePlace, ChildrenBefore,
       NoTwice, Acyclic
  <2>6. ReadyInv'
    BY <2>3 DEF ReadyInv, ReadyMeansReady, Broken
  <2> QED BY <1>3, <2>4, <2>5, <2>6, EndingInv
<1>4. CASE CompileIntoEngine
  <2>0. children' = children /\ bad' = bad /\ compiled' = compiled /\ pool' = pool
        /\ calls' = calls /\ pc = "engine"
    BY <1>4 DEF CompileIntoEngine
  <2>1. CASE Broken = {}
    <3>1. /\ isCompiled' = Rules /\ inEngine' = Rules /\ storage' = 0 /\ pc' = "pool"
          /\ inDegree' = inDegree /\ remaining' = remaining /\ current' = current
          /\ levels' = levels /\ levelIdx' = levelIdx /\ error' = error
          /\ finished' = finished /\ outcome' = outcome /\ nextRule' = nextRule
          /\ spawned' = spawned /\ worker' = worker /\ claimed' = claimed
      BY <1>4, <2>1 DEF CompileIntoEngine, builder, team
    <3>2. TypeOK'
      BY <1>0, <2>0, <3>1 DEF TypeOK
    <3>3. BuildInv' /\ LevelsInv' /\ Acyclic(children)'
      BY <2>0, <3>1 DEF BuildInv, LevelsInv, OnePlace, ChildrenBefore, NoTwice, Acyclic
    <3>6. PastInv' /\ TeamInv'
      BY <2>0, <3>1 DEF PastInv, TeamInv, TypeOK
    <3>4. Broken' = Broken
      BY <2>0 DEF Broken
    <3>5. ReadyInv'
      BY <2>0, <2>1, <3>1, <3>4 DEF ReadyInv, ReadyMeansReady
    <3> QED BY <1>4, <3>2, <3>3, <3>5, <3>6, EndingInv
  <2>2. CASE Broken # {}
    <3>1. PICK S \in SUBSET (Rules \ Broken) :
            inEngine' = inEngine \cup S /\ isCompiled' = isCompiled \cup S
      BY <1>4, <2>2 DEF CompileIntoEngine
    <3>2. End("rule") /\ storage' = storage /\ "rule" \in Outcomes \ {"notAll"} /\ ~compiled
      BY <1>4, <2>2 DEF CompileIntoEngine, Outcomes, ReadyInv, ReadyMeansReady
    <3>3. inEngine' \in SUBSET Rules /\ isCompiled' \in SUBSET Rules
      BY <3>1 DEF TypeOK
    <3> QED BY <2>0, <3>2, <3>3, EndCompileInv DEF TypeOK
  <2> QED BY <2>1, <2>2
<1>5. CASE AddCloneFails
  BY <1>5, EndCompileInv
     DEF AddCloneFails, workflow, Outcomes, TypeOK, ReadyInv, ReadyMeansReady
<1>6. CASE FillPool
  BY <1>0, <1>6, EndCompileInv DEF FillPool, Outcomes, TypeOK, ReadyInv
<1> QED BY <1>1, <1>2, <1>3, <1>4, <1>5, <1>6

(* Every step keeps the invariant. *)
LEMMA CompileNextInv ==
  ASSUME CompileInv, [Next]_vars PROVE CompileInv'
<1>1. CASE UNCHANGED vars
  <2>1. /\ UNCHANGED <<children, bad, compiled, isCompiled, inEngine, storage, pool>>
        /\ UNCHANGED <<pc, inDegree, remaining, current, levels, levelIdx, error>>
        /\ UNCHANGED <<nextRule, spawned, worker, claimed, finished, outcome, calls>>
    BY <1>1 DEF vars, workflow, builder, team
  <2>2. TypeOK' /\ IInv' /\ Acyclic(children)'
    BY <2>1 DEF CompileInv, TypeOK, IInv, ErrorPhase, WorkersAreJoined, CleanStart, Acyclic
  <2>3. BuildInv' /\ LevelsInv' /\ PastInv' /\ TeamInv'
    BY <2>1 DEF CompileInv, BuildInv, LevelsInv, PastInv, TeamInv, OnePlace,
       ChildrenBefore, NoTwice, Placed
  <2>4. ReadyInv'
    BY <2>1 DEF CompileInv, ReadyInv, ReadyMeansReady, Broken
  <2> QED BY <2>2, <2>3, <2>4 DEF CompileInv
<1>2. CASE Next
  BY <1>2, WorkerCompileInv, AsideInv, BeginParallelInv, PlaceLevelInv, PlaceLeftoversInv,
     SpawnInv, JoinInv, EndingCompileInv DEF Next, CallerStep
<1> QED BY <1>1, <1>2

(* The invariant holds in every state. *)
LEMMA CompileInvariance == Spec => []CompileInv
<1>1. CompileInv /\ [Next]_vars => CompileInv'
  BY CompileNextInv
<1> QED BY <1>1, CompileInitInv, PTL DEF Spec

(* buildCompilationLevels places each rule once, and a worker begins a     *)
(* rule only when all its listed children are compiled, for any rules,     *)
(* children, workers, errors and calls (unless a child is listed twice).   *)
THEOREM InOrderCompiled == Spec => []CompilesInOrder
<1>1. CompileInv => CompilesInOrder
  <2> SUFFICES ASSUME CompileInv PROVE TypeOK /\ EveryRuleInOneLevel /\ ChildFirst
    BY DEF CompilesInOrder
  <2>1. TypeOK /\ EveryRuleInOneLevel
    BY DEF CompileInv, LevelsInv, OnePlace, Placed, EveryRuleInOneLevel
  <2>2. ChildFirst
    <3> SUFFICES ASSUME NoTwice, NEW w \in Workers, claimed[w] # None,
                        NEW c \in Range(children[claimed[w]])
                 PROVE  c \in finished
      BY DEF ChildFirst, NoTwice
    <3>1. pc = "spawn"
      BY DEF CompileInv, TeamInv, IInv, WorkersAreJoined
    <3>2. claimed[w] \in Range(levels[levelIdx]) /\ levelIdx \in DOMAIN levels
      BY <3>1 DEF CompileInv, TeamInv, LevelsInv
    <3>3. PICK m \in DOMAIN levels : m < levelIdx /\ c \in Range(levels[m])
      BY <3>2 DEF CompileInv, LevelsInv, ChildrenBefore
    <3> QED BY <3>1, <3>3 DEF CompileInv, PastInv
  <2> QED BY <2>1, <2>2
<1> QED BY <1>1, CompileInvariance, PTL

(* compiled_ means that the caller's engine holds every rule and the pool  *)
(* is full, whatever calls failed before, and compileParallel never throws *)
(* "Not all rules were compiled".                                          *)
THEOREM CompiledMeansReady == Spec => []ReadyMeansReady
<1>1. CompileInv => ReadyMeansReady
  BY DEF CompileInv, ReadyInv
<1> QED BY <1>1, CompileInvariance, PTL
=============================================================================
