--------------------------- MODULE AsyncWorkflow ----------------------------
(***************************************************************************)
(* AsyncWorkflow: executeParallelAsync builds dependency levels, hands the *)
(* rules of one level to the work-stealing pool, collects their futures    *)
(* and merges the results into a context that the next level copies.  The  *)
(* worker that runs a rule borrows an engine.  coExecuteWorkflow wraps one *)
(* call in a coroutine whose task the caller asks with get().              *)
(***************************************************************************)
EXTENDS WorkStealingThreadPool

CONSTANTS
  Rules,      \* positions in Workflow::rules
  Workflows   \* records [id, name, dep, active, validated]: functions on Rules,
              \* and whether the workflow was validated before (and changed since)

NoName == "no_name"

(* AsyncWorkflow::compile: one engine per thread, and never fewer than two. *)
poolSize == IF numThreads < 2 THEN 2 ELSE numThreads

VARIABLES
  wf,            \* the wrapped workflow
  compiled,      \* compiled_
  engines,       \* free engines of enginePool_; -1 once the storage is gone
  borrowed,      \* workers that hold an engine
  cpc,           \* cpc[c]: where caller c is in executeParallelAsync
  remaining,     \* remaining[c]: ids that no level has yet
  levels,        \* levels[c]: dependencyLevels that were not started
  level,         \* level[c]: ids of the current level, not yet enqueued
  futures,       \* futures[c]: ids whose future c still has to get, in order
  localCtx,      \* localCtx[t]: names whose results task t can read
  answer,        \* answer[t]: what the task put in its future
  allResults,    \* allResults[c]: ids, in the order they were reported
  sharedContext, \* sharedContext[c]: names with a merged result
  got            \* what get() of the coroutine's task gave

vars == <<poolVars, wf, compiled, engines, borrowed, cpc, remaining, levels,
          level, futures, localCtx, answer, allResults, sharedContext, got>>

callVars == <<wf, compiled, cpc, remaining, levels, level, futures, localCtx,
              allResults, sharedContext, got>>

Answers == {"none", "success", "failure", "no_engine", "exception", "broken"}

Ids == 1 .. Cardinality(Rules)
Names == UNION {{w.name[r] : r \in Rules} : w \in Workflows}

ASSUME WorkflowAssumption ==
  /\ IsFiniteSet(Rules) /\ Rules = 1 .. Cardinality(Rules)
  /\ \A w \in Workflows :
       w.id \in [Rules -> Ids] /\ \A r \in Rules : w.name[r] # NoName
  /\ Clients \X Ids \subseteq Tasks  \* what executeParallelAsync enqueues

TypeOK ==
  /\ PoolTypeOK
  /\ wf \in Workflows /\ compiled \in BOOLEAN
  /\ engines \in -1 .. poolSize /\ borrowed \in SUBSET Workers
  /\ cpc \in [Clients -> {"idle", "levels", "enqueue", "collect",
                          "returned", "threw", "refused"}]
  /\ remaining \in [Clients -> SUBSET Ids] /\ level \in [Clients -> SUBSET Ids]
  /\ levels \in [Clients -> Seq(SUBSET Ids)]
  /\ futures \in [Clients -> Seq(Ids)] /\ allResults \in [Clients -> Seq(Ids)]
  /\ localCtx \in [Tasks -> SUBSET Names] /\ answer \in [Tasks -> Answers]
  /\ sharedContext \in [Clients -> SUBSET Names]
  /\ got \in {"nothing", "all", "empty"}

Init ==
  /\ PoolInit
  /\ wf \in Workflows /\ compiled = FALSE
  /\ engines = 0 /\ borrowed = {}
  /\ cpc = [c \in Clients |-> "idle"]
  /\ remaining = [c \in Clients |-> {}] /\ level = [c \in Clients |-> {}]
  /\ levels = [c \in Clients |-> <<>>]
  /\ futures = [c \in Clients |-> <<>>] /\ allResults = [c \in Clients |-> <<>>]
  /\ localCtx = [t \in Tasks |-> {}] /\ answer = [t \in Tasks |-> "none"]
  /\ sharedContext = [c \in Clients |-> {}] /\ got = "nothing"

(* remaining[rule->id] = rule: of the rules with one id the last is kept. *)
RuleOf(id) == CHOOSE r \in Rules :
                wf.id[r] = id /\ \A s \in Rules : wf.id[s] = id => s <= r
UsedIds == {wf.id[r] : r \in Rules}

-----------------------------------------------------------------------------
(* Workflow::validate, which RuleValidation has in full: ids are distinct,  *)
(* what a rule depends on exists, and neither search meets a cycle, that of *)
(* the rules along names read so far and that of the workflow, which of the *)
(* rules that share a name finds any one.                                   *)
Named(n) == {r \in Rules : wf.name[r] = n}
SoFar == [r \in Rules |-> LET seen == {q \in Named(wf.dep[r]) : q <= r} IN
            IF seen = {} THEN 0 ELSE CHOOSE q \in seen : \A p \in seen : p <= q]
Found == {f \in [Rules -> Rules \cup {0}] :
            \A r \in Rules : IF Named(wf.dep[r]) = {} THEN f[r] = 0
                             ELSE f[r] \in Named(wf.dep[r])}
Circular(f) == \E s \in (SUBSET Rules) \ {{}} : \A r \in s : f[r] \in s
Accepted ==
  /\ \A q, r \in Rules : wf.id[q] = wf.id[r] => q = r
  /\ \A r \in Rules : wf.dep[r] # NoName => Named(wf.dep[r]) # {}
  /\ ~Circular(SoFar) /\ \E f \in Found : ~Circular(f)

(* compile: once, by a first call that nobody overlaps (it is documented   *)
(* as not thread-safe).  Every rule is compiled on every clone.            *)
Compile(c) ==
  /\ ~compiled /\ cpc[c] = "idle" /\ stop = "running"
  /\ wf.validated \/ Accepted
  /\ compiled' = TRUE /\ engines' = poolSize
  /\ UNCHANGED <<poolVars, wf, borrowed, cpc, remaining, levels, level, futures,
                 localCtx, answer, allResults, sharedContext, got>>

(* validate refuses the workflow (for its children too, which are left out  *)
(* here), or a rule does not compile: the caller gets the exception, and    *)
(* nothing counts as compiled.                                              *)
CompileThrows(c) ==
  /\ ~compiled /\ cpc[c] = "idle" /\ stop = "running"
  /\ cpc' = [cpc EXCEPT ![c] = "refused"]
  /\ UNCHANGED <<poolVars, wf, compiled, engines, borrowed, remaining, levels, level,
                 futures, localCtx, answer, allResults, sharedContext, got>>

Call(c) ==
  /\ compiled /\ cpc[c] = "idle" /\ stop = "running"
  /\ cpc' = [cpc EXCEPT ![c] = "levels"]
  /\ remaining' = [remaining EXCEPT ![c] = UsedIds]
  /\ UNCHANGED <<poolVars, wf, compiled, engines, borrowed, levels, level, futures,
                 localCtx, answer, allResults, sharedContext, got>>

(* A bug: rules of earlier levels still count. *)
DepsSatisfiedOfAll(ids) ==
  {i \in ids : \A j \in UsedIds : wf.dep[RuleOf(i)] # wf.name[RuleOf(j)]}

(* The rules that wait for no name that a remaining rule has. *)
DepsSatisfied(ids) ==
  {i \in ids : \A j \in ids : wf.dep[RuleOf(i)] # wf.name[RuleOf(j)]}

(* One round of the level loop, which ends before any rule is run.  An     *)
(* empty level removes nothing and is not kept: the loop runs for ever.     *)
BuildLevel(c) ==
  /\ cpc[c] = "levels" /\ remaining[c] # {}
  /\ LET l == DepsSatisfied(remaining[c]) IN
       /\ remaining' = [remaining EXCEPT ![c] = @ \ l]
       /\ levels' = [levels EXCEPT ![c] = IF l = {} THEN @ ELSE Append(@, l)]
  /\ UNCHANGED <<poolVars, wf, compiled, engines, borrowed, cpc, level, futures,
                 localCtx, answer, allResults, sharedContext, got>>

NextLevel(c) ==
  /\ cpc[c] = "levels" /\ remaining[c] = {}
  /\ IF levels[c] = <<>>
       THEN cpc' = [cpc EXCEPT ![c] = "returned"] /\ UNCHANGED <<levels, level>>
       ELSE /\ cpc' = [cpc EXCEPT ![c] = "enqueue"]
            /\ level' = [level EXCEPT ![c] = Head(levels[c])]
            /\ levels' = [levels EXCEPT ![c] = Tail(@)]
  /\ UNCHANGED <<poolVars, wf, compiled, engines, borrowed, remaining, futures,
                 localCtx, answer, allResults, sharedContext, got>>

(* An inactive rule is reported as skipped and leaves no result in the     *)
(* context.                                                                *)
Skip(c) ==
  /\ cpc[c] = "enqueue" /\ push[c] = NoTask
  /\ \E i \in level[c] :
       /\ ~wf.active[RuleOf(i)]
       /\ level' = [level EXCEPT ![c] = @ \ {i}]
       /\ allResults' = [allResults EXCEPT ![c] = Append(@, i)]
  /\ UNCHANGED <<poolVars, wf, compiled, engines, borrowed, cpc, remaining, levels,
                 futures, localCtx, answer, sharedContext, got>>

(* An active rule gets a copy of the shared context and goes to the pool. *)
Enqueue(c) ==
  /\ cpc[c] = "enqueue" /\ push[c] = NoTask
  /\ \E i \in level[c] :
       /\ wf.active[RuleOf(i)]
       /\ level' = [level EXCEPT ![c] = @ \ {i}]
       /\ localCtx' = [localCtx EXCEPT ![<<c, i>>] = sharedContext[c]]
       /\ futures' = [futures EXCEPT ![c] = Append(@, i)]
       /\ CheckStop(c, <<c, i>>)
  /\ UNCHANGED <<wf, compiled, engines, borrowed, cpc, remaining, levels, answer,
                 allResults, sharedContext, got>>

Submit(c) ==
  /\ \E w \in Workers : Push(c, w)
  /\ UNCHANGED <<callVars, engines, borrowed, answer>>

Enqueued(c) ==
  /\ cpc[c] = "enqueue" /\ level[c] = {} /\ push[c] = NoTask
  /\ cpc' = [cpc EXCEPT ![c] = "collect"]
  /\ UNCHANGED <<poolVars, wf, compiled, engines, borrowed, remaining, levels, level,
                 futures, localCtx, answer, allResults, sharedContext, got>>

(* A bug: the result does not reach the shared context. *)
CollectWithoutMerge(c) ==
  /\ cpc[c] = "collect" /\ futures[c] # <<>>
  /\ LET i == Head(futures[c])
         t == <<c, i>> IN
       /\ status[t] = "done"
       /\ futures' = [futures EXCEPT ![c] = Tail(@)]
       /\ cpc' = [cpc EXCEPT ![c] = IF answer[t] = "broken" THEN "threw" ELSE @]
       /\ allResults' = [allResults EXCEPT ![c] =
                           IF answer[t] = "broken" THEN @ ELSE Append(@, i)]
  /\ UNCHANGED <<poolVars, wf, compiled, engines, borrowed, remaining, levels, level,
                 localCtx, answer, sharedContext, got>>

(* future.get() of the oldest future waits for the task; its result is      *)
(* reported and merged under the rule's name.  What escaped the task is      *)
(* thrown here, and the futures behind it are dropped without a wait.        *)
Collect(c) ==
  /\ cpc[c] = "collect" /\ futures[c] # <<>>
  /\ LET i == Head(futures[c])
         t == <<c, i>> IN
       /\ status[t] = "done"
       /\ futures' = [futures EXCEPT ![c] = Tail(@)]
       /\ IF answer[t] = "broken"
            THEN /\ cpc' = [cpc EXCEPT ![c] = "threw"]
                 /\ UNCHANGED <<allResults, sharedContext>>
            ELSE /\ allResults' = [allResults EXCEPT ![c] = Append(@, i)]
                 /\ sharedContext' = [sharedContext EXCEPT ![c] =
                                        @ \cup {wf.name[RuleOf(i)]}]
                 /\ UNCHANGED cpc
  /\ UNCHANGED <<poolVars, wf, compiled, engines, borrowed, remaining, levels, level,
                 localCtx, answer, got>>

Collected(c) ==
  /\ cpc[c] = "collect" /\ futures[c] = <<>>
  /\ cpc' = [cpc EXCEPT ![c] = "levels"]
  /\ UNCHANGED <<poolVars, wf, compiled, engines, borrowed, remaining, levels, level,
                 futures, localCtx, answer, allResults, sharedContext, got>>

-----------------------------------------------------------------------------
(* The task.  Building it can throw (memory) before an engine is taken. *)
TaskBreaks(w) ==
  /\ wpc[w] = "run" /\ w \notin borrowed /\ answer[task[w]] = "none"
  /\ answer' = [answer EXCEPT ![task[w]] = "broken"]
  /\ UNCHANGED <<poolVars, callVars, engines, borrowed>>

(* acquireEngine: pop, then tryPop for 100 ms; the task gives up only when *)
(* the pool stays empty.                                                   *)
AcquireEngine(w) ==
  /\ wpc[w] = "run" /\ w \notin borrowed /\ answer[task[w]] = "none"
  /\ IF engines > 0
       THEN /\ engines' = engines - 1 /\ borrowed' = borrowed \cup {w}
            /\ UNCHANGED answer
       ELSE /\ answer' = [answer EXCEPT ![task[w]] = "no_engine"]
            /\ UNCHANGED <<engines, borrowed>>
  /\ UNCHANGED <<poolVars, callVars>>

(* Rule::execute on the engine; what it throws is kept in the result. *)
Execute(w) ==
  /\ w \in borrowed /\ answer[task[w]] = "none"
  /\ \E a \in {"success", "failure", "exception"} :
       answer' = [answer EXCEPT ![task[w]] = a]
  /\ UNCHANGED <<poolVars, callVars, engines, borrowed>>

ReleaseEngine(w) ==
  /\ w \in borrowed /\ answer[task[w]] # "none"
  /\ engines' = engines + 1 /\ borrowed' = borrowed \ {w}
  /\ UNCHANGED <<poolVars, callVars, answer>>

(* The packaged_task makes its future ready. *)
TaskReturns(w) ==
  /\ wpc[w] = "run" /\ w \notin borrowed /\ answer[task[w]] # "none"
  /\ Finish(w)
  /\ UNCHANGED <<callVars, engines, borrowed, answer>>

WorkerSeeks(w) == Seek(w) /\ UNCHANGED <<callVars, engines, borrowed, answer>>

WorkerStep(w) ==
  WorkerSeeks(w) \/ AcquireEngine(w) \/ Execute(w) \/ ReleaseEngine(w) \/ TaskReturns(w)

-----------------------------------------------------------------------------
Ended(c) == cpc[c] \in {"returned", "threw", "refused"}

(* coExecuteWorkflow runs one call to its end before the coroutine first    *)
(* suspends; an exception of a rule is rethrown into the promise.  get()     *)
(* finds the coroutine done and returns the promise's results, which are     *)
(* empty after an exception, without a look at the exception.                *)
Get(c) ==
  /\ Clients = {c} /\ Ended(c) /\ got = "nothing"
  /\ got' = IF cpc[c] \in {"threw", "refused"}
               \/ \E i \in UsedIds : answer[<<c, i>>] = "exception"
              THEN "empty" ELSE "all"
  /\ UNCHANGED <<poolVars, wf, compiled, engines, borrowed, cpc, remaining, levels,
                 level, futures, localCtx, answer, allResults, sharedContext>>

(* ~AsyncWorkflow, when no call is in progress: the members go in reverse   *)
(* order of declaration, the thread pool (which joins) before the engines.  *)
DestroyThreadPool ==
  /\ \A c \in Clients : cpc[c] = "idle" \/ Ended(c)
  /\ BeginStop \/ Join
  /\ UNCHANGED <<callVars, engines, borrowed, answer>>

DestroyEngines ==
  /\ stop = "joined" /\ engines >= 0
  /\ engines' = -1
  /\ UNCHANGED <<poolVars, callVars, borrowed, answer>>

CallerStep(c) ==
  BuildLevel(c) \/ NextLevel(c) \/ Skip(c) \/ Enqueue(c) \/ Submit(c) \/ Enqueued(c)
    \/ Collect(c) \/ Collected(c)

Next ==
  \/ \E c \in Clients : Compile(c) \/ CompileThrows(c) \/ Call(c) \/ CallerStep(c) \/ Get(c)
  \/ \E w \in Workers : WorkerStep(w) \/ TaskBreaks(w)
  \/ DestroyThreadPool \/ DestroyEngines

(* Callers and workers are threads that run when they can. *)
Fairness ==
  /\ \A c \in Clients : WF_vars(CallerStep(c))
  /\ \A w \in Workers : WF_vars(WorkerStep(w)) /\ SF_vars(Steal(w) /\ WorkerSeeks(w))

Spec == Init /\ [][Next]_vars /\ Fairness

-----------------------------------------------------------------------------
(* compile makes at least as many engines as the pool has workers, and only *)
(* workers borrow: no rule ever fails for want of an engine, however many   *)
(* threads call executeParallelAsync at once.                               *)
EngineForEveryTask ==
  /\ \A t \in Tasks : answer[t] # "no_engine"
  /\ compiled /\ engines >= 0 => engines + Cardinality(borrowed) = poolSize

(* A rule that runs can read a result under the name it depends on whenever *)
(* an active rule of the workflow has that name: the level of its            *)
(* dependency was merged before its context was copied.                      *)
SeesItsDependency ==
  \A w \in Workers :
    wpc[w] = "run" =>
      LET i == task[w][2]
          n == wf.dep[RuleOf(i)] IN
        (\E j \in UsedIds : wf.name[RuleOf(j)] = n /\ wf.active[RuleOf(j)])
          => n \in localCtx[task[w]]

(* A call that returns has reported every id of the workflow once.  (Of     *)
(* rules that share an id only the last one is run and reported.)           *)
ReportsEachIdOnce ==
  \A c \in Clients :
    cpc[c] = "returned" =>
      /\ Len(allResults[c]) = Cardinality(UsedIds)
      /\ {allResults[c][k] : k \in DOMAIN allResults[c]} = UsedIds

(* The engines are destroyed when no worker can still use one, even after a *)
(* call that threw and left tasks of its level behind.                      *)
EnginesOutliveTasks ==
  engines = -1 => borrowed = {} /\ \A w \in Workers : wpc[w] = "exit"

(* What get() returns is all of the results or none of them. *)
GetIsAllOrNothing ==
  got = "all" => \A c \in Clients : Len(allResults[c]) = Cardinality(UsedIds)

(* A cycle of names: every rule of some set waits for a rule of that set. *)
HasCycle ==
  \E s \in (SUBSET UsedIds) \ {{}} :
    \A i \in s : \E j \in s : wf.dep[RuleOf(i)] = wf.name[RuleOf(j)]

(* executeParallelAsync ends for every workflow without a cycle. *)
CallEndsWithoutCycle ==
  \A c \in Clients : (cpc[c] = "levels" /\ ~HasCycle) ~> Ended(c)

(* With a cycle nothing is run or reported, also nothing outside of the      *)
(* cycle: compile refuses the workflow, or, when it was changed after it was *)
(* validated or its rules share names, the level loop never ends.            *)
CycleRunsNothing ==
  HasCycle => \A c \in Clients : /\ cpc[c] \notin {"returned", "threw"}
                                 /\ allResults[c] = <<>>
                                 /\ \A i \in Ids : status[<<c, i>>] = "new"

(* What validate searches is what the level loop waits for: a workflow that *)
(* compile has validated, with names of their own for its rules, has no     *)
(* cycle for the loop to hang in.                                           *)
ValidatedHasNoCycle ==
  compiled /\ ~wf.validated /\ (\A q, r \in Rules : wf.name[q] = wf.name[r] => q = r)
    => ~HasCycle

(* A call reports each rule once with its dependency's result in sight, and  *)
(* no path, with tasks that throw and a pool that is destroyed, loses a task *)
(* or an engine.                                                             *)
AsyncCallIsSound ==
  /\ TypeOK /\ NoTaskTwice /\ JoinedMeansDrained
  /\ EngineForEveryTask /\ SeesItsDependency /\ ReportsEachIdOnce /\ EnginesOutliveTasks
  /\ GetIsAllOrNothing /\ CycleRunsNothing /\ ValidatedHasNoCycle
=============================================================================
