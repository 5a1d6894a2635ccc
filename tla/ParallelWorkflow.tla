-------------------------- MODULE ParallelWorkflow --------------------------
(***************************************************************************)
(* Workflow::executeParallel and Workflow::executeAsync on a compiled      *)
(* workflow: several calls at once over the one engine pool of the         *)
(* workflow.  A call of executeParallel goes level by level, launches at   *)
(* most as many std::async tasks as there are engines, and collects their  *)
(* futures in order.  Each task acquires an engine, checks the dependency  *)
(* of its rule against the context of its call, executes the rule and      *)
(* gives the engine back.                                                  *)
(*                                                                         *)
(* The pool is used through what EnginePoolSpec promises: an engine is     *)
(* free or has one owner.  Rules are numbered in the order of the levels   *)
(* buildDependencyLevels returned, each level sorted.                      *)
(***************************************************************************)
EXTENDS Integers, FiniteSets, Sequences

CONSTANTS
  Calls,       \* threads inside executeParallel
  AsyncCalls,  \* threads inside the task of executeAsync
  Engines,     \* enginePoolStorage_
  N,           \* rules.size()
  LevelOf,     \* LevelOf[r]: the dependency level of r
  DependsOn,   \* DependsOn[r]: the rule named by dependsOnRuleName, or one of
  NoDep,       \*   dependsOnRuleName without a value, or any other value for
               \*   a name that no rule of the workflow carries
  ChildKeys,   \* ChildKeys[r]: the context keys of the rules below r, which may
               \*   be those of rules of the workflow
  Active,      \* the rules with isActive
  NoOwner      \* in the pool

Rules == 1..N
Holders == (Calls \X Rules) \cup AsyncCalls

(* The keys that child rules write, and all keys of a call's context. *)
ChildNames == UNION {ChildKeys[r] : r \in Rules}
Keys == Rules \cup ChildNames

ASSUME EnginesAssumption == IsFiniteSet(Engines) /\ Engines # {}
ASSUME NAssumption == N \in Nat
ASSUME LevelAssumption == LevelOf \in [Rules -> Nat \ {0}]
(* What buildDependencyLevels guarantees: DependencyLevels!LevelsAreTight. *)
ASSUME DependsOnAssumption ==
  /\ NoDep \notin Keys
  /\ \A r \in Rules : DependsOn[r] \in Rules => LevelOf[DependsOn[r]] < LevelOf[r]
ASSUME ActiveAssumption == Active \in SUBSET Rules
ASSUME NoOwnerAssumption == NoOwner \notin Holders
ASSUME HoldersAssumption == AsyncCalls \cap (Calls \X Rules) = {}

VARIABLES
  phase,     \* phase[c]: where the calling thread of c is
  level,     \* level[c]: the level it is working on
  results,   \* results[c]: the rules whose results it has pushed
  context,   \* context[c]: the RuleContext of the call
  task,      \* task[c][r]: where the task of rule r is
  outcome,   \* outcome[c][r]: what its future holds, or will hold
  async,     \* async[a]: where the task of executeAsync is
  owner      \* owner[e]: who holds engine e

vars == <<phase, level, results, context, task, outcome, async, owner>>

Outcomes == {"success", "failure", "dependencyFailed", "noEngine", "threw"}

TypeOK ==
  /\ phase \in [Calls -> {"idle", "batch", "collect", "unwind", "returned", "threw"}]
  /\ level \in [Calls -> Nat]
  /\ results \in [Calls -> Seq(Rules)]
  /\ context \in [Calls -> [Keys -> {"none", "success", "failure"}]]
  /\ task \in [Calls -> [Rules -> {"none", "acquire", "check", "execute",
                                   "release", "ready", "collected"}]]
  /\ outcome \in [Calls -> [Rules -> Outcomes \cup {"none"}]]
  /\ async \in [AsyncCalls -> {"idle", "acquire", "run", "release", "returned"}]
  /\ owner \in [Engines -> Holders \cup {NoOwner}]

Init ==
  /\ phase = [c \in Calls |-> "idle"]
  /\ level = [c \in Calls |-> 0]
  /\ results = [c \in Calls |-> << >>]
  /\ context = [c \in Calls |-> [k \in Keys |-> "none"]]
  /\ task = [c \in Calls |-> [r \in Rules |-> "none"]]
  /\ outcome = [c \in Calls |-> [r \in Rules |-> "none"]]
  /\ async = [a \in AsyncCalls |-> "idle"]
  /\ owner = [e \in Engines |-> NoOwner]

(***************************************************************************)
(* The calling thread of executeParallel.                                  *)
(***************************************************************************)
MaxConcurrency == Cardinality(Engines)

(* The active rules of the level that have no task yet. *)
Pending(c) == {r \in Active : LevelOf[r] = level[c] /\ task[c][r] = "none"}

(* A bug: a task for every pending rule, however few the engines. *)
BatchUnbounded(c) == Pending(c)

(* The next rules, at most one for each engine of the pool. *)
Batch(c) ==
  {r \in Pending(c) : Cardinality({q \in Pending(c) : q < r}) < MaxConcurrency}

Start(c) ==
  /\ phase[c] = "idle"
  /\ phase' = [phase EXCEPT ![c] = "batch"]
  /\ level' = [level EXCEPT ![c] = 1]
  /\ UNCHANGED <<results, context, task, outcome, async, owner>>

Launch(c) ==
  /\ phase[c] = "batch"
  /\ Batch(c) # {}
  /\ task' = [task EXCEPT ![c] = [r \in Rules |->
                IF r \in Batch(c) THEN "acquire" ELSE task[c][r]]]
  /\ phase' = [phase EXCEPT ![c] = "collect"]
  /\ UNCHANGED <<level, results, context, outcome, async, owner>>

(* std::async has no thread to give for rule k: it throws, and the futures *)
(* of the tasks launched before k are destroyed.                           *)
LaunchFails(c) ==
  /\ phase[c] = "batch"
  /\ \E k \in Batch(c) :
       task' = [task EXCEPT ![c] = [r \in Rules |->
                  IF r \in Batch(c) /\ r < k THEN "acquire" ELSE task[c][r]]]
  /\ phase' = [phase EXCEPT ![c] = "unwind"]
  /\ UNCHANGED <<level, results, context, outcome, async, owner>>

(* The futures of the batch whose get() has not returned, and the first.   *)
Uncollected(c) == {r \in Rules : task[c][r] \notin {"none", "collected"}}
IsNextFuture(c, r) == r \in Uncollected(c) /\ \A q \in Uncollected(c) : r <= q

CollectedContext(c, r) == IF outcome[c][r] = "success" THEN "success" ELSE "failure"

(* A bug: the result is never put into the context of the call. *)
CollectWithoutContext(c, r) ==
  /\ phase[c] = "collect"
  /\ IsNextFuture(c, r)
  /\ task[c][r] = "ready"
  /\ outcome[c][r] # "threw"
  /\ task' = [task EXCEPT ![c][r] = "collected"]
  /\ results' = [results EXCEPT ![c] = Append(@, r)]
  /\ phase' = [phase EXCEPT ![c] = IF Uncollected(c) = {r} THEN "batch" ELSE "collect"]
  /\ UNCHANGED <<level, context, outcome, async, owner>>

(* futures[i].get() returns, the result is pushed and put into the context. *)
Collect(c, r) ==
  /\ phase[c] = "collect"
  /\ IsNextFuture(c, r)
  /\ task[c][r] = "ready"
  /\ outcome[c][r] # "threw"
  /\ task' = [task EXCEPT ![c][r] = "collected"]
  /\ results' = [results EXCEPT ![c] = Append(@, r)]
  /\ context' = [context EXCEPT ![c][r] = CollectedContext(c, r)]
  /\ phase' = [phase EXCEPT ![c] = IF Uncollected(c) = {r} THEN "batch" ELSE "collect"]
  /\ UNCHANGED <<level, outcome, async, owner>>

(* get() rethrows what the task threw. *)
Rethrow(c, r) ==
  /\ phase[c] = "collect"
  /\ IsNextFuture(c, r)
  /\ task[c][r] = "ready"
  /\ outcome[c][r] = "threw"
  /\ phase' = [phase EXCEPT ![c] = "unwind"]
  /\ UNCHANGED <<level, results, context, task, outcome, async, owner>>

(* The destructor of a std::async future waits for its task, so the vector *)
(* of futures leaves the scope only once every task has ended.             *)
Unwind(c) ==
  /\ phase[c] = "unwind"
  /\ \A r \in Rules : task[c][r] \in {"none", "ready", "collected"}
  /\ phase' = [phase EXCEPT ![c] = "threw"]
  /\ UNCHANGED <<level, results, context, task, outcome, async, owner>>

LaterLevels(c) == {r \in Rules : LevelOf[r] > level[c]}

(* A bug: only the first batch of a level is launched. *)
NextLevelAfterOneBatch(c) ==
  /\ phase[c] = "batch"
  /\ \E r \in Rules : LevelOf[r] = level[c] /\ task[c][r] = "collected"
  /\ LaterLevels(c) # {}
  /\ level' = [level EXCEPT ![c] = @ + 1]
  /\ UNCHANGED <<phase, results, context, task, outcome, async, owner>>

NextLevel(c) ==
  /\ phase[c] = "batch"
  /\ Batch(c) = {}
  /\ LaterLevels(c) # {}
  /\ level' = [level EXCEPT ![c] = @ + 1]
  /\ UNCHANGED <<phase, results, context, task, outcome, async, owner>>

Return(c) ==
  /\ phase[c] = "batch"
  /\ Batch(c) = {}
  /\ LaterLevels(c) = {}
  /\ phase' = [phase EXCEPT ![c] = "returned"]
  /\ UNCHANGED <<level, results, context, task, outcome, async, owner>>

(***************************************************************************)
(* The task of one rule.                                                   *)
(***************************************************************************)
Free == {e \in Engines : owner[e] = NoOwner}
GiveBack(h) == owner' = [e \in Engines |-> IF owner[e] = h THEN NoOwner ELSE owner[e]]

Acquire(c, r) ==
  /\ task[c][r] = "acquire"
  /\ \E e \in Free : owner' = [owner EXCEPT ![e] = <<c, r>>]
  /\ task' = [task EXCEPT ![c][r] = "check"]
  /\ UNCHANGED <<phase, level, results, context, outcome, async>>

(* acquireEngine() returns nullptr: the last look at the pool, after the   *)
(* 100 ms of tryPop, found it empty.                                       *)
AcquireTimeout(c, r) ==
  /\ task[c][r] = "acquire"
  /\ Free = {}
  /\ outcome' = [outcome EXCEPT ![c][r] = "noEngine"]
  /\ task' = [task EXCEPT ![c][r] = "ready"]
  /\ UNCHANGED <<phase, level, results, context, async, owner>>

DependencySucceeded(c, r) ==
  DependsOn[r] \in Keys /\ context[c][DependsOn[r]] = "success"

DependencyHolds(c, r) ==
  /\ task[c][r] = "check"
  /\ DependsOn[r] = NoDep \/ DependencySucceeded(c, r)
  /\ task' = [task EXCEPT ![c][r] = "execute"]
  /\ UNCHANGED <<phase, level, results, context, outcome, async, owner>>

(* A bug: the early return forgets the engine. *)
DependencyFailsLeaking(c, r) ==
  /\ task[c][r] = "check"
  /\ DependsOn[r] # NoDep /\ ~DependencySucceeded(c, r)
  /\ outcome' = [outcome EXCEPT ![c][r] = "dependencyFailed"]
  /\ task' = [task EXCEPT ![c][r] = "ready"]
  /\ UNCHANGED <<phase, level, results, context, async, owner>>

(* A bug: a dependent that waits for its dependency by trying again. *)
DependencyFailsRetries(c, r) ==
  /\ task[c][r] = "check"
  /\ DependsOn[r] # NoDep /\ ~DependencySucceeded(c, r)
  /\ GiveBack(<<c, r>>)
  /\ task' = [task EXCEPT ![c][r] = "acquire"]
  /\ UNCHANGED <<phase, level, results, context, outcome, async>>

DependencyFails(c, r) ==
  /\ task[c][r] = "check"
  /\ DependsOn[r] # NoDep /\ ~DependencySucceeded(c, r)
  /\ outcome' = [outcome EXCEPT ![c][r] = "dependencyFailed"]
  /\ task' = [task EXCEPT ![c][r] = "release"]
  /\ UNCHANGED <<phase, level, results, context, async, owner>>

(* On its way Rule::execute puts the result of a rule below r into the     *)
(* context of the call: the child does itself, and so does its parent.     *)
ChildResult(c, r, k, o) ==
  /\ task[c][r] = "execute"
  /\ context' = [context EXCEPT ![c][k] = o]
  /\ UNCHANGED <<phase, level, results, task, outcome, async, owner>>

(* Rule::execute returns.  It has put its result into the context itself,  *)
(* unless the result came from the rule's cache.                           *)
Execute(c, r, o) ==
  /\ task[c][r] = "execute"
  /\ outcome' = [outcome EXCEPT ![c][r] = o]
  /\ context' \in {context, [context EXCEPT ![c][r] = o]}
  /\ task' = [task EXCEPT ![c][r] = "release"]
  /\ UNCHANGED <<phase, level, results, async, owner>>

(* An exception leaves Rule::execute (its own handlers can throw). *)
ExecuteThrows(c, r) ==
  /\ task[c][r] = "execute"
  /\ outcome' = [outcome EXCEPT ![c][r] = "threw"]
  /\ task' = [task EXCEPT ![c][r] = "release"]
  /\ UNCHANGED <<phase, level, results, context, async, owner>>

(* releaseEngine, and the end of the task. *)
Release(c, r) ==
  /\ task[c][r] = "release"
  /\ GiveBack(<<c, r>>)
  /\ task' = [task EXCEPT ![c][r] = "ready"]
  /\ UNCHANGED <<phase, level, results, context, outcome, async>>

(***************************************************************************)
(* The task of executeAsync: the sequential execute() on a pool engine.    *)
(***************************************************************************)
AsyncStart(a) ==
  /\ async[a] = "idle"
  /\ async' = [async EXCEPT ![a] = "acquire"]
  /\ UNCHANGED <<phase, level, results, context, task, outcome, owner>>

AsyncAcquire(a) ==
  /\ async[a] = "acquire"
  /\ \E e \in Free : owner' = [owner EXCEPT ![e] = a]
  /\ async' = [async EXCEPT ![a] = "run"]
  /\ UNCHANGED <<phase, level, results, context, task, outcome>>

(* One error result in place of the results of the workflow. *)
AsyncTimeout(a) ==
  /\ async[a] = "acquire"
  /\ Free = {}
  /\ async' = [async EXCEPT ![a] = "returned"]
  /\ UNCHANGED <<phase, level, results, context, task, outcome, owner>>

(* execute() returns or throws: both ways lead to releaseEngine. *)
AsyncExecute(a) ==
  /\ async[a] = "run"
  /\ async' = [async EXCEPT ![a] = "release"]
  /\ UNCHANGED <<phase, level, results, context, task, outcome, owner>>

AsyncRelease(a) ==
  /\ async[a] = "release"
  /\ GiveBack(a)
  /\ async' = [async EXCEPT ![a] = "returned"]
  /\ UNCHANGED <<phase, level, results, context, task, outcome>>

CallStep(c) ==
  \/ Launch(c) \/ LaunchFails(c)
  \/ \E r \in Rules : Collect(c, r) \/ Rethrow(c, r)
  \/ Unwind(c) \/ NextLevel(c) \/ Return(c)

TaskStep(c, r) ==
  \/ Acquire(c, r) \/ AcquireTimeout(c, r)
  \/ DependencyHolds(c, r) \/ DependencyFails(c, r)
  \/ \E o \in {"success", "failure"} : Execute(c, r, o)
  \/ ExecuteThrows(c, r)
  \/ Release(c, r)

ChildStep(c, r) ==
  \E k \in ChildKeys[r], o \in {"success", "failure"} : ChildResult(c, r, k, o)

AsyncStep(a) == AsyncAcquire(a) \/ AsyncTimeout(a) \/ AsyncExecute(a) \/ AsyncRelease(a)

Ended ==
  /\ \A c \in Calls : phase[c] \in {"returned", "threw"}
  /\ \A a \in AsyncCalls : async[a] = "returned"

Done == Ended /\ UNCHANGED vars

Next ==
  \/ \E c \in Calls : Start(c) \/ CallStep(c) \/ \E r \in Rules : TaskStep(c, r) \/ ChildStep(c, r)
  \/ \E a \in AsyncCalls : AsyncStart(a) \/ AsyncStep(a)
  \/ Done

Spec == Init /\ [][Next]_vars

(* Threads that can take a step are scheduled; nobody has to call.  The    *)
(* children of a rule are finitely many: its task comes to its end.        *)
Fairness ==
  /\ \A c \in Calls : WF_vars(CallStep(c)) /\ \A r \in Rules : WF_vars(TaskStep(c, r))
  /\ \A a \in AsyncCalls : WF_vars(AsyncStep(a))

FairSpec == Spec /\ Fairness

(***************************************************************************)
(* Properties                                                              *)
(***************************************************************************)
Running(c, r) == task[c][r] \notin {"none", "ready", "collected"}

HasRun(c, r) == task[c][r] = "execute" \/ outcome[c][r] \in {"success", "failure", "threw"}

(* The rules whose execution writes key k of the context. *)
Writers(k) == {q \in Rules : q = k \/ k \in ChildKeys[q]}

(* "Dependencies are respected": a rule that executes, or has executed, in *)
(* a call had somebody run before it that writes its dependency's key.     *)
(* When no child rule writes that key, it was the dependency, whose        *)
(* success was collected earlier in that same call.                        *)
DependencyCameFirst ==
  \A c \in Calls, r \in Rules : DependsOn[r] # NoDep /\ HasRun(c, r) =>
    /\ \E q \in Writers(DependsOn[r]) : HasRun(c, q)
    /\ DependsOn[r] \notin ChildNames =>
         /\ DependsOn[r] \in Rules
         /\ outcome[c][DependsOn[r]] = "success"
         /\ task[c][DependsOn[r]] = "collected"

(* A dependent is refused only for a reason: its dependency was not run, or *)
(* has failed, or a child rule writes under its key.  No result of a        *)
(* successful rule goes missing on the way.                                 *)
RefusedForAReason ==
  \A c \in Calls, r \in Rules :
    outcome[c][r] = "dependencyFailed" /\ DependsOn[r] \in Rules \ ChildNames =>
      outcome[c][DependsOn[r]] # "success"

(* rule.hpp promises more: "The dependency rule must succeed before the    *)
(* dependent rule executes", whatever the rules below others are called.   *)
DependencySucceededFirst ==
  \A c \in Calls, r \in Rules :
    DependsOn[r] \in Rules /\ HasRun(c, r) => outcome[c][DependsOn[r]] = "success"

(* A call that returns reports every active rule exactly once, in the order *)
(* of the levels, whatever failed or timed out on the way.                  *)
ReportsEveryRule ==
  \A c \in Calls : phase[c] = "returned" =>
    /\ \A r \in Active : \E i \in DOMAIN results[c] : results[c][i] = r
    /\ \A i, j \in DOMAIN results[c] : i < j =>
         /\ results[c][i] # results[c][j]
         /\ LevelOf[results[c][i]] <= LevelOf[results[c][j]]

(* The tasks capture the call's context by reference: none is running once *)
(* the call has returned or thrown.                                        *)
NoTaskOutlivesItsCall ==
  \A c \in Calls, r \in Rules :
    Running(c, r) => phase[c] \in {"collect", "unwind"}

(* Every path of every task gives the engine back: an engine out of the    *)
(* pool belongs to a task that still has it to use or to release.          *)
NoEngineIsLost ==
  \A e \in Engines :
    \/ owner[e] = NoOwner
    \/ \E c \in Calls, r \in Rules :
         owner[e] = <<c, r>> /\ task[c][r] \in {"check", "execute", "release"}
    \/ \E a \in AsyncCalls : owner[e] = a /\ async[a] \in {"run", "release"}

(* The batches fit the pool: a task finds the pool empty only because of   *)
(* another call, never because of the siblings in its own batch.           *)
StarvedOnlyByOthers ==
  \A c \in Calls, r \in Rules :
    task[c][r] = "acquire" /\ Free = {} =>
      \E e \in Engines : owner[e] \notin {<<c, q>> : q \in Rules}

(* Every call that starts returns or throws, and so does every async task. *)
EveryCallEnds ==
  /\ \A c \in Calls : phase[c] = "batch" ~> phase[c] \in {"returned", "threw"}
  /\ \A a \in AsyncCalls : async[a] = "acquire" ~> async[a] = "returned"

(* In a call the dependency decides, both ways: a rule runs only after the *)
(* collected success of its dependency, and with it, it is not refused,    *)
(* unless a child rule writes the context under the dependency's key.      *)
DependencyDecides == DependencyCameFirst /\ RefusedForAReason

(* On no path of a call, with failures, timeouts and exceptions, a task or *)
(* an engine is left behind.                                               *)
NothingIsLeftBehind == NoTaskOutlivesItsCall /\ NoEngineIsLost
=============================================================================
