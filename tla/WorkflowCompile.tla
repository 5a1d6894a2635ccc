--------------------------- MODULE WorkflowCompile ---------------------------
(***************************************************************************)
(* Workflow::compile and Workflow::compileParallel: the levels of          *)
(* buildCompilationLevels, the workers that compile a level, the errors    *)
(* they meet, and the pool of engine clones that follows.  One thread      *)
(* calls them ("NOT thread-safe - compile once from a single thread",      *)
(* workflow.hpp:197), again after an exception.                            *)
(*                                                                         *)
(* A call validates first.  The workflows here are those that Rule::validate *)
(* accepts: ids are distinct, so that a map from ids is one from rules, and *)
(* no rule is below itself.  A child that is not listed in `rules` is a    *)
(* part of its parent.                                                     *)
(***************************************************************************)
EXTENDS Integers, FiniteSets, Sequences, SequencesExt

CONSTANTS
  N,            \* rules.size()
  MaxChildren,  \* bound on the children that are listed in `rules`
  NumThreads,   \* numThreads, once its default is filled in
  Threshold,    \* the 10 of "Don't parallelize for small workflows"
  PoolSize,     \* hardware_concurrency(), at least 2
  MaxCalls,     \* bound on the calls
  None

ASSUME SizesAssumption ==
  /\ {N, MaxChildren, Threshold, MaxCalls} \subseteq Nat
  /\ NumThreads \in Nat \ {0}
  /\ PoolSize \in Nat /\ PoolSize >= 2
  /\ None \notin 1..N /\ None \notin {"rule", "clone"}

Rules == 1..N
Workers == 1..NumThreads
Outcomes == {"none", "returned", "rule", "clone", "thread", "notAll"}

VARIABLES
  children,    \* children[r]: the entries of childRules that are in `rules`
  bad,         \* the rules whose own expression or action does not compile
  compiled,    \* compiled_
  isCompiled,  \* the rules with isCompiled
  inEngine,    \* the rules compiled into the caller's engine
  storage,     \* enginePoolStorage_.size()
  pool,        \* the engines in enginePool_
  pc,          \* where the calling thread is
  inDegree, remaining, current, levels,   \* locals of buildCompilationLevels
  levelIdx, nextRule, spawned,            \* locals of compileParallel
  error,       \* compileException; hasError is error # None
  worker,      \* worker[w]: "off", "clone", "check", "claim", "compile" or "done"
  claimed,     \* claimed[w]: the rule that w compiles
  finished,    \* history: the rules that workers have compiled in this call
  outcome,     \* how the last call ended
  calls

workflow == <<children, bad, compiled, isCompiled, inEngine, storage, pool>>
builder == <<inDegree, remaining, current, levels>>
team == <<nextRule, spawned, worker, claimed>>
vars == <<workflow, pc, builder, levelIdx, error, team, finished, outcome, calls>>

TypeOK ==
  /\ children \in [Rules -> Seq(Rules)]
  /\ compiled \in BOOLEAN
  /\ {bad, isCompiled, inEngine, remaining, finished} \subseteq SUBSET Rules
  /\ storage \in 0..PoolSize /\ pool \in 0..PoolSize
  /\ pc \in {"idle", "build", "levels", "spawn", "engine", "pool", "terminated"}
  /\ inDegree \in [Rules -> Nat]
  /\ current \in Seq(Rules) /\ levels \in Seq(Seq(Rules))
  /\ levelIdx \in Nat /\ nextRule \in Nat /\ spawned \in 0..NumThreads
  /\ error \in {None, "rule", "clone"}
  /\ worker \in [Workers -> {"off", "clone", "check", "claim", "compile", "done"}]
  /\ claimed \in [Workers -> Rules \cup {None}]
  /\ outcome \in Outcomes
  /\ calls \in 0..MaxCalls

(***************************************************************************)
(* The rules.                                                              *)
(***************************************************************************)
(* Every set of rules has one without a child in the set. *)
Acyclic(kids) ==
  \A S \in (SUBSET Rules) \ {{}} : \E r \in S : Range(kids[r]) \cap S = {}

(* Rule::compile compiles the children as well: it throws for the rules    *)
(* that are bad and for those above them, the least set closed upwards.    *)
Broken ==
  LET Closed(S) == \A r \in Rules : Range(children[r]) \cap S # {} => r \in S
  IN  {r \in Rules : \A S \in SUBSET Rules : bad \subseteq S /\ Closed(S) => r \in S}

(* r and the rules below it, the least set closed downwards. *)
Family(r) ==
  LET Closed(S) == \A q \in S : Range(children[q]) \subseteq S
  IN  {q \in Rules : \A S \in SUBSET Rules : r \in S /\ Closed(S) => q \in S}

(* The rules of S as loops push them that come to r at its turn visit[r],  *)
(* and to those of one turn in the order of `rules`.                       *)
InOrder(S, visit) ==
  {level \in Bijection(1..Cardinality(S), S) :
     \A i, j \in DOMAIN level : i < j =>
       \/ visit[level[i]] < visit[level[j]]
       \/ visit[level[i]] = visit[level[j]] /\ level[i] < level[j]}

AtOnce == [r \in Rules |-> 0]

NoWorkers ==
  /\ nextRule' = 0 /\ spawned' = 0
  /\ worker' = [w \in Workers |-> "off"]
  /\ claimed' = [w \in Workers |-> None]

NoLevels ==
  /\ inDegree' = [r \in Rules |-> 0]
  /\ remaining' = {} /\ current' = << >>

Init ==
  /\ children \in {kids \in [Rules -> BoundedSeq(Rules, MaxChildren)] : Acyclic(kids)}
  /\ bad \in SUBSET Rules
  /\ compiled = FALSE /\ isCompiled = {} /\ inEngine = {}
  /\ storage = 0 /\ pool = 0
  /\ pc = "idle"
  /\ inDegree = [r \in Rules |-> 0] /\ remaining = {}
  /\ current = << >> /\ levels = << >>
  /\ levelIdx = 0 /\ nextRule = 0 /\ spawned = 0
  /\ error = None
  /\ worker = [w \in Workers |-> "off"] /\ claimed = [w \in Workers |-> None]
  /\ finished = {}
  /\ outcome = "none" /\ calls = 0

(* The call returns or throws, and its locals are gone. *)
End(how) ==
  /\ pc' = "idle"
  /\ outcome' = how
  /\ levels' = << >> /\ levelIdx' = 0
  /\ error' = None
  /\ finished' = {}
  /\ NoLevels /\ NoWorkers

(***************************************************************************)
(* buildCompilationLevels.                                                 *)
(***************************************************************************)
(* The loop over childRules: an entry counts as often as it is there. *)
ChildEdges(r) == Len(children[r])

(* compile(), or compileParallel() for a small workflow or one thread. *)
BeginCompile ==
  /\ pc = "idle" /\ ~compiled /\ calls < MaxCalls
  /\ calls' = calls + 1
  /\ pc' = "engine"
  /\ outcome' = "none"
  /\ UNCHANGED <<workflow, builder, levelIdx, error, team, finished>>

BeginCompileParallel ==
  /\ pc = "idle" /\ ~compiled /\ calls < MaxCalls
  /\ N >= Threshold /\ NumThreads # 1
  /\ calls' = calls + 1
  /\ pc' = "build"
  /\ outcome' = "none"
  /\ inDegree' = [r \in Rules |-> ChildEdges(r)]
  /\ remaining' = Rules
  /\ current' \in InOrder({r \in Rules : ChildEdges(r) = 0}, AtOnce)
  /\ UNCHANGED <<workflow, levels, levelIdx, error, team, finished>>

(* The turns of the loop over the level that find a child of p; break      *)
(* leaves the inner loop at the first entry, so an entry that is there     *)
(* twice is subtracted once.                                               *)
Turns(p) == {i \in DOMAIN current : current[i] \in Range(children[p])}

Subtracted(p) ==
  IF p \in remaining \ Range(current)
  THEN inDegree[p] - Cardinality(Range(children[p]) \cap Range(current))
  ELSE inDegree[p]

(* The parents that come to zero, each at the last of its turns. *)
NextLevel ==
  InOrder({p \in remaining \ Range(current) : Turns(p) # {} /\ Subtracted(p) = 0},
          [p \in Rules |-> IF Turns(p) = {} THEN 0 ELSE Max(Turns(p))])

(* One turn of the while loop. *)
PlaceLevel ==
  /\ pc = "build"
  /\ current # << >>
  /\ levels' = Append(levels, current)
  /\ remaining' = remaining \ Range(current)
  /\ inDegree' = [p \in Rules |-> Subtracted(p)]
  /\ current' \in NextLevel
  /\ UNCHANGED <<workflow, pc, levelIdx, error, team, finished, outcome, calls>>

(* Rules that remain make a last level. *)
PlaceLeftovers ==
  /\ pc = "build"
  /\ current = << >>
  /\ IF remaining = {} THEN UNCHANGED levels
     ELSE \E leftovers \in InOrder(remaining, AtOnce) : levels' = Append(levels, leftovers)
  /\ pc' = "levels" /\ levelIdx' = 1
  /\ NoLevels
  /\ UNCHANGED <<workflow, error, team, finished, outcome, calls>>

(***************************************************************************)
(* The workers of one level.                                               *)
(***************************************************************************)
LevelThreads ==
  LET size == Len(levels[levelIdx])
  IN  IF size < NumThreads THEN size ELSE NumThreads

EnterLevel ==
  /\ pc = "levels"
  /\ levelIdx <= Len(levels) /\ error = None
  /\ pc' = "spawn"
  /\ UNCHANGED <<workflow, builder, levelIdx, error, team, finished, outcome, calls>>

Spawn ==
  /\ pc = "spawn"
  /\ spawned < LevelThreads
  /\ spawned' = spawned + 1
  /\ worker' = [worker EXCEPT ![spawned + 1] = "clone"]
  /\ UNCHANGED <<workflow, pc, builder, levelIdx, error, nextRule, claimed,
                 finished, outcome, calls>>

(* std::thread throws.  The vector is destroyed; if it holds a thread that *)
(* was not joined, that is std::terminate.                                 *)
SpawnFails ==
  /\ pc = "spawn"
  /\ spawned < LevelThreads
  /\ IF spawned = 0 THEN End("thread")
     ELSE /\ pc' = "terminated"
          /\ NoWorkers
          /\ UNCHANGED <<builder, levelIdx, error, finished, outcome>>
  /\ UNCHANGED <<workflow, calls>>

(* A bug: the last exception wins. *)
RecordLast(w, what) ==
  /\ error' = what
  /\ worker' = [worker EXCEPT ![w] = "done"]
  /\ claimed' = [claimed EXCEPT ![w] = None]

(* The critical section of exceptionMutex: the first exception is kept. *)
Record(w, what) ==
  /\ error' = IF error = None THEN what ELSE error
  /\ worker' = [worker EXCEPT ![w] = "done"]
  /\ claimed' = [claimed EXCEPT ![w] = None]

CloneWorker(w) ==
  /\ worker[w] = "clone"
  /\ worker' = [worker EXCEPT ![w] = "check"]
  /\ UNCHANGED <<workflow, pc, builder, levelIdx, error, nextRule, spawned,
                 claimed, finished, outcome, calls>>

CloneWorkerFails(w) ==
  /\ worker[w] = "clone"
  /\ Record(w, "clone")
  /\ UNCHANGED <<workflow, pc, builder, levelIdx, nextRule, spawned, finished,
                 outcome, calls>>

(* A bug: continue instead of return. *)
CheckErrorContinues(w) ==
  /\ worker[w] = "check"
  /\ worker' = [worker EXCEPT ![w] = IF error = None THEN "claim" ELSE "check"]
  /\ UNCHANGED <<workflow, pc, builder, levelIdx, error, nextRule, spawned,
                 claimed, finished, outcome, calls>>

(* The load of hasError. *)
CheckError(w) ==
  /\ worker[w] = "check"
  /\ worker' = [worker EXCEPT ![w] = IF error = None THEN "claim" ELSE "done"]
  /\ UNCHANGED <<workflow, pc, builder, levelIdx, error, nextRule, spawned,
                 claimed, finished, outcome, calls>>

(* nextRule.fetch_add(1) *)
Claim(w) ==
  /\ worker[w] = "claim"
  /\ nextRule' = nextRule + 1
  /\ IF nextRule >= Len(levels[levelIdx])
     THEN worker' = [worker EXCEPT ![w] = "done"] /\ UNCHANGED claimed
     ELSE /\ worker' = [worker EXCEPT ![w] = "compile"]
          /\ claimed' = [claimed EXCEPT ![w] = levels[levelIdx][nextRule + 1]]
  /\ UNCHANGED <<workflow, pc, builder, levelIdx, error, spawned, finished,
                 outcome, calls>>

WorkerCompiles(w) ==
  /\ worker[w] = "compile"
  /\ claimed[w] \notin Broken
  /\ isCompiled' = isCompiled \cup Family(claimed[w])
  /\ finished' = finished \cup {claimed[w]}
  /\ worker' = [worker EXCEPT ![w] = "check"]
  /\ claimed' = [claimed EXCEPT ![w] = None]
  /\ UNCHANGED <<children, bad, compiled, inEngine, storage, pool, pc, builder,
                 levelIdx, error, nextRule, spawned, outcome, calls>>

(* Rules below the broken one may have been compiled before it throws. *)
WorkerFails(w) ==
  /\ worker[w] = "compile"
  /\ claimed[w] \in Broken
  /\ \E S \in SUBSET (Family(claimed[w]) \ Broken) : isCompiled' = isCompiled \cup S
  /\ Record(w, "rule")
  /\ UNCHANGED <<children, bad, compiled, inEngine, storage, pool, pc, builder,
                 levelIdx, nextRule, spawned, finished, outcome, calls>>

(* A bug, and the earlier version: the level ends once all is handed out. *)
JoinWhenHandedOut ==
  /\ pc = "spawn"
  /\ spawned = LevelThreads
  /\ nextRule >= Len(levels[levelIdx]) \/ \A w \in 1..spawned : worker[w] = "done"
  /\ pc' = "levels" /\ levelIdx' = levelIdx + 1
  /\ nextRule' = 0 /\ spawned' = 0
  /\ UNCHANGED <<workflow, builder, error, worker, claimed, finished, outcome, calls>>

(* Every thread of the level is joined. *)
Join ==
  /\ pc = "spawn"
  /\ spawned = LevelThreads
  /\ \A w \in 1..spawned : worker[w] = "done"
  /\ pc' = "levels" /\ levelIdx' = levelIdx + 1
  /\ NoWorkers
  /\ UNCHANGED <<workflow, builder, error, finished, outcome, calls>>

(***************************************************************************)
(* After the levels.                                                       *)
(***************************************************************************)
Rethrow ==
  /\ pc = "levels"
  /\ error # None
  /\ End(error)
  /\ UNCHANGED <<workflow, calls>>

Verify ==
  /\ pc = "levels"
  /\ levelIdx > Len(levels) /\ error = None
  /\ IF isCompiled = Rules
     THEN pc' = "engine" /\ UNCHANGED <<builder, levelIdx, error, team, finished, outcome>>
     ELSE End("notAll")
  /\ UNCHANGED <<workflow, calls>>

(* A bug: the rules are not compiled into the caller's engine. *)
CompileIntoPoolOnly ==
  /\ pc = "engine"
  /\ pc' = "pool" /\ storage' = 0
  /\ UNCHANGED <<children, bad, compiled, isCompiled, inEngine, pool, builder,
                 levelIdx, error, team, finished, outcome, calls>>

(* All rules, one after the other, into the caller's engine; then the      *)
(* storage is cleared for the clones.                                      *)
CompileIntoEngine ==
  /\ pc = "engine"
  /\ IF Broken = {}
     THEN /\ inEngine' = Rules /\ isCompiled' = Rules
          /\ storage' = 0
          /\ pc' = "pool"
          /\ UNCHANGED <<builder, levelIdx, error, team, finished, outcome>>
     ELSE /\ \E S \in SUBSET (Rules \ Broken) :
               /\ inEngine' = inEngine \cup S
               /\ isCompiled' = isCompiled \cup S
          /\ End("rule")
          /\ UNCHANGED storage
  /\ UNCHANGED <<children, bad, compiled, pool, calls>>

(* One clone, with all the rules. *)
AddClone ==
  /\ pc = "pool"
  /\ storage < PoolSize
  /\ storage' = storage + 1
  /\ UNCHANGED <<children, bad, compiled, isCompiled, inEngine, pool, pc, builder,
                 levelIdx, error, team, finished, outcome, calls>>

AddCloneFails ==
  /\ pc = "pool"
  /\ storage < PoolSize
  /\ End("clone")
  /\ UNCHANGED <<workflow, calls>>

FillPool ==
  /\ pc = "pool"
  /\ storage = PoolSize
  /\ pool' = storage
  /\ compiled' = TRUE
  /\ End("returned")
  /\ UNCHANGED <<children, bad, isCompiled, inEngine, storage, calls>>

(* The caller mends a rule before it tries again. *)
Mend(r) ==
  /\ pc = "idle"
  /\ r \in bad
  /\ bad' = bad \ {r}
  /\ UNCHANGED <<children, compiled, isCompiled, inEngine, storage, pool, pc,
                 builder, levelIdx, error, team, finished, outcome, calls>>

WorkerStep(w) ==
  \/ CloneWorker(w) \/ CloneWorkerFails(w) \/ CheckError(w) \/ Claim(w)
  \/ WorkerCompiles(w) \/ WorkerFails(w)

CallerStep ==
  \/ PlaceLevel \/ PlaceLeftovers \/ EnterLevel \/ Spawn \/ SpawnFails \/ Join
  \/ Rethrow \/ Verify \/ CompileIntoEngine
  \/ AddClone \/ AddCloneFails \/ FillPool

Next ==
  \/ BeginCompile \/ BeginCompileParallel
  \/ CallerStep
  \/ \E w \in Workers : WorkerStep(w)
  \/ \E r \in Rules : Mend(r)

Spec == Init /\ [][Next]_vars

(* Threads that can run do run. *)
FairSpec == Spec /\ WF_vars(CallerStep) /\ \A w \in Workers : WF_vars(WorkerStep(w))

(***************************************************************************)
(* Properties                                                              *)
(***************************************************************************)
(* "silently dropped" no more (workflow.cpp:324): once the levels are      *)
(* built, each rule is in one of them, once.                               *)
EveryRuleInOneLevel ==
  pc \in {"levels", "spawn"} =>
    /\ \A r \in Rules : \E l \in DOMAIN levels : r \in Range(levels[l])
    /\ \A l, m \in DOMAIN levels : \A i \in DOMAIN levels[l], j \in DOMAIN levels[m] :
         levels[l][i] = levels[m][j] => l = m /\ i = j

(* "a rule that depends on a child rule listed in this same workflow never *)
(* starts before that child has finished" (workflow.cpp:212), if no rule   *)
(* lists a child twice.                                                    *)
ChildFirst ==
  (\A r \in Rules : IsInjective(children[r])) =>
    \A w \in Workers :
      claimed[w] # None => Range(children[claimed[w]]) \subseteq finished

(* The exception that ends the call is the first one a worker met; it is   *)
(* neither replaced by a later one nor lost at the end of a level.         *)
FirstErrorIsThrown ==
  [][error # None => \/ error' = error
                     \/ pc' = "idle" /\ outcome' = error]_vars

(* compiled_ is set only when an execution finds all it relies on: every   *)
(* rule in the caller's engine and a full pool, whatever calls failed      *)
(* before; and "Not all rules were compiled" is never thrown.              *)
ReadyMeansReady ==
  /\ compiled => inEngine = Rules /\ pool = PoolSize /\ Broken = {}
  /\ outcome # "notAll"

(* Every call returns or throws (or the process is terminated), whichever  *)
(* workers fail.                                                           *)
CallEnds == []<>(pc \in {"idle", "terminated"})

(* compileParallel takes every rule in some level, and a listed child      *)
(* before its parents.                                                     *)
CompilesInOrder == TypeOK /\ EveryRuleInOneLevel /\ ChildFirst
=============================================================================
