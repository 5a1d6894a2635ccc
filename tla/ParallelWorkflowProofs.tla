------------------------ MODULE ParallelWorkflowProofs ------------------------
(***************************************************************************)
(* Proofs about ParallelWorkflow, for any number of calls, engines, rules  *)
(* and levels.  The invariant says, for each call, where its tasks can be  *)
(* in each phase of the calling thread, which level they belong to, and    *)
(* what the futures, the context and the reported results owe each other.  *)
(***************************************************************************)
EXTENDS ParallelWorkflow, FiniteSetTheorems, SequenceTheorems, NaturalsInduction, TLAPS

(* Between batches, and once the call has returned, every launched task    *)
(* has been collected.                                                     *)
Settled ==
  \A c \in Calls :
    /\ phase[c] \in {"batch", "returned"} =>
         \A r \in Rules : task[c][r] \in {"none", "collected"}
    /\ phase[c] = "idle" => \A r \in Rules : task[c][r] = "none"

(* A task belongs to a level that has been reached, and one that is not    *)
(* collected to the current level.                                         *)
TaskLevels ==
  \A c \in Calls, r \in Rules :
    /\ task[c][r] # "none" => LevelOf[r] <= level[c]
    /\ task[c][r] \notin {"none", "collected"} => LevelOf[r] = level[c]

(* A future holds something only once its task has decided it. *)
OutcomeIsLast ==
  \A c \in Calls, r \in Rules :
    outcome[c][r] # "none" => task[c][r] \in {"release", "ready", "collected"}

(* Under a key that no child rule writes, the context claims no success    *)
(* that is not the outcome of the rule, and after the collection it does   *)
(* not miss one.                                                           *)
ContextAgrees ==
  \A c \in Calls, r \in Rules \ ChildNames :
    /\ context[c][r] = "success" => outcome[c][r] = "success"
    /\ task[c][r] = "collected" /\ outcome[c][r] = "success" =>
         context[c][r] = "success"

(* A success in the context was written by a rule that ran in the call. *)
SuccessHasAWriter ==
  \A c \in Calls, k \in Keys :
    context[c][k] = "success" => \E q \in Writers(k) : HasRun(c, q)

TaskInv ==
  /\ TypeOK
  /\ NoTaskOutlivesItsCall
  /\ Settled
  /\ TaskLevels
  /\ OutcomeIsLast
  /\ ContextAgrees

(* No call has started: no task, no outcome, no level. *)
LEMMA InitTaskInv == Init => TaskInv
BY DEF Init, TaskInv, TypeOK, NoTaskOutlivesItsCall, Settled, TaskLevels,
       OutcomeIsLast, ContextAgrees, Running, Holders, Keys

(* A result written to a key of a context keeps its type. *)
LEMMA ContextWrite ==
  ASSUME TypeOK, NEW c \in Calls, NEW k \in Keys, NEW o \in {"success", "failure"}
  PROVE  [context EXCEPT ![c][k] = o] \in [Calls -> [Keys -> {"none", "success", "failure"}]]
<1> DEFINE V == {"none", "success", "failure"}
<1>1. o \in V /\ context \in [Calls -> [Keys -> V]]
  BY DEF TypeOK
<1> HIDE DEF V
<1>2. [context EXCEPT ![c][k] = o] \in [Calls -> [Keys -> V]]
  BY <1>1
<1> QED BY <1>2 DEF V

(* A child's result goes under one of the keys of the rules below r, and   *)
(* nothing but the context changes.                                        *)
LEMMA ChildWrites ==
  ASSUME TypeOK, NEW c \in Calls, NEW r \in Rules, ChildStep(c, r)
  PROVE  \E k \in Keys, o \in {"success", "failure"} :
           /\ k \in ChildNames /\ r \in Writers(k)
           /\ task[c][r] = "execute"
           /\ context' = [context EXCEPT ![c][k] = o]
           /\ UNCHANGED <<phase, level, results, task, outcome, async, owner>>
<1>1. PICK k \in ChildKeys[r], o \in {"success", "failure"} : ChildResult(c, r, k, o)
  BY DEF ChildStep
<1>2. k \in ChildNames /\ k \in Keys /\ r \in Writers(k)
  BY DEF ChildNames, Keys, Writers
<1> QED BY <1>1, <1>2 DEF ChildResult

(* Every disjunct of Next preserves the types of the variables. *)
LEMMA TypeStep == TypeOK /\ [Next]_vars => TypeOK'
<1> SUFFICES ASSUME TypeOK, [Next]_vars PROVE TypeOK'
  OBVIOUS
<1>0. \A r \in Rules : r \in Keys
  BY DEF Keys
<1>6. ASSUME NEW c \in Calls, NEW r \in Rules, ChildStep(c, r) PROVE TypeOK'
  <2>1. PICK k \in Keys, o \in {"success", "failure"} :
          /\ context' = [context EXCEPT ![c][k] = o]
          /\ UNCHANGED <<phase, level, results, task, outcome, async, owner>>
    BY <1>6, ChildWrites
  <2>2. context' \in [Calls -> [Keys -> {"none", "success", "failure"}]]
    BY <2>1, ContextWrite
  <2> QED BY <2>1, <2>2 DEF TypeOK
<1> USE DEF TypeOK
<1>1. ASSUME NEW c \in Calls, Start(c) PROVE TypeOK'
  BY <1>1 DEF Start
<1>2. ASSUME NEW c \in Calls, CallStep(c) PROVE TypeOK'
  <2>1. CASE Launch(c)
    BY <2>1 DEF Launch
  <2>2. CASE LaunchFails(c)
    BY <2>2 DEF LaunchFails
  <2>3. ASSUME NEW r \in Rules, Collect(c, r) PROVE TypeOK'
    <3>1. /\ CollectedContext(c, r) \in {"success", "failure"}
          /\ context' = [context EXCEPT ![c][r] = CollectedContext(c, r)]
      BY <2>3 DEF Collect, CollectedContext
    <3>2. context' \in [Calls -> [Keys -> {"none", "success", "failure"}]]
      BY <1>0, <3>1, ContextWrite
    <3> QED BY <2>3, <3>2 DEF Collect
  <2>4. ASSUME NEW r \in Rules, Rethrow(c, r) PROVE TypeOK'
    BY <2>4 DEF Rethrow
  <2>5. CASE Unwind(c)
    BY <2>5 DEF Unwind
  <2>6. CASE NextLevel(c)
    BY <2>6 DEF NextLevel
  <2>7. CASE Return(c)
    BY <2>7 DEF Return
  <2> QED
    BY <1>2, <2>1, <2>2, <2>3, <2>4, <2>5, <2>6, <2>7 DEF CallStep
<1>3. ASSUME NEW c \in Calls, NEW r \in Rules, TaskStep(c, r) PROVE TypeOK'
  <2>1. CASE Acquire(c, r)
    BY <2>1 DEF Acquire, Free, Holders
  <2>2. CASE AcquireTimeout(c, r)
    BY <2>2 DEF AcquireTimeout, Outcomes
  <2>3. CASE DependencyHolds(c, r)
    BY <2>3 DEF DependencyHolds
  <2>4. CASE DependencyFails(c, r)
    BY <2>4 DEF DependencyFails, Outcomes
  <2>5. ASSUME NEW o \in {"success", "failure"}, Execute(c, r, o) PROVE TypeOK'
    <3>1. context' = context \/ context' = [context EXCEPT ![c][r] = o]
      BY <2>5 DEF Execute
    <3>2. context' \in [Calls -> [Keys -> {"none", "success", "failure"}]]
      <4>1. CASE context' = context
        BY <4>1
      <4>2. CASE context' = [context EXCEPT ![c][r] = o]
        BY <1>0, <4>2, ContextWrite
      <4> QED BY <3>1, <4>1, <4>2
    <3>3. outcome' \in [Calls -> [Rules -> Outcomes \cup {"none"}]]
      BY <2>5 DEF Execute, Outcomes
    <3> QED
      BY <2>5, <3>2, <3>3 DEF Execute
  <2>6. CASE ExecuteThrows(c, r)
    BY <2>6 DEF ExecuteThrows, Outcomes
  <2>7. CASE Release(c, r)
    BY <2>7 DEF Release, GiveBack
  <2> QED
    BY <1>3, <2>1, <2>2, <2>3, <2>4, <2>5, <2>6, <2>7 DEF TaskStep
<1>4. ASSUME NEW a \in AsyncCalls, AsyncStart(a) \/ AsyncStep(a) PROVE TypeOK'
  <2>1. CASE AsyncStart(a)
    BY <2>1 DEF AsyncStart
  <2>2. CASE AsyncAcquire(a)
    BY <2>2 DEF AsyncAcquire, Free, Holders
  <2>3. CASE AsyncTimeout(a)
    BY <2>3 DEF AsyncTimeout
  <2>4. CASE AsyncExecute(a)
    BY <2>4 DEF AsyncExecute
  <2>5. CASE AsyncRelease(a)
    BY <2>5 DEF AsyncRelease, GiveBack
  <2> QED
    BY <1>4, <2>1, <2>2, <2>3, <2>4, <2>5 DEF AsyncStep
<1>5. CASE Done \/ UNCHANGED vars
  BY <1>5 DEF Done, vars
<1> QED
  BY <1>1, <1>2, <1>3, <1>4, <1>5, <1>6 DEF Next

(* A step of one call's thread leaves the tasks of the other calls alone;  *)
(* a step of a task changes only that task, and only while it runs.        *)
LEMMA TaskInvStep == TaskInv /\ [Next]_vars => TaskInv'
<1> SUFFICES ASSUME TaskInv, [Next]_vars PROVE TaskInv'
  OBVIOUS
<1>0. TypeOK /\ TypeOK'
  BY TypeStep DEF TaskInv
<1>6. ASSUME NEW c \in Calls, NEW r \in Rules, ChildStep(c, r) PROVE TaskInv'
  <2>1. PICK k \in Keys, o \in {"success", "failure"} :
          /\ k \in ChildNames
          /\ context' = [context EXCEPT ![c][k] = o]
          /\ UNCHANGED <<phase, level, results, task, outcome, async, owner>>
    BY <1>0, <1>6, ChildWrites
  <2>2. \A d \in Calls, q \in Rules \ ChildNames : context'[d][q] = context[d][q]
    BY <1>0, <2>1 DEF Keys, TypeOK
  <2> QED BY <1>0, <2>1, <2>2 DEF TaskInv, NoTaskOutlivesItsCall, Settled, TaskLevels,
           OutcomeIsLast, ContextAgrees, Running
<1> USE <1>0, LevelAssumption DEF TaskInv, TypeOK, NoTaskOutlivesItsCall, Settled, TaskLevels,
           OutcomeIsLast, ContextAgrees, Running
<1>1. ASSUME NEW c \in Calls, Start(c) PROVE TaskInv'
  BY <1>1 DEF Start
<1>2. ASSUME NEW c \in Calls, CallStep(c) PROVE TaskInv'
  <2>1. CASE Launch(c)
    BY <2>1 DEF Launch, Batch, Pending
  <2>2. CASE LaunchFails(c)
    BY <2>2 DEF LaunchFails, Batch, Pending
  <2>3. ASSUME NEW r \in Rules, Collect(c, r) PROVE TaskInv'
    BY <2>3 DEF Collect, CollectedContext, IsNextFuture, Uncollected
  <2>4. ASSUME NEW r \in Rules, Rethrow(c, r) PROVE TaskInv'
    BY <2>4 DEF Rethrow
  <2>5. CASE Unwind(c)
    BY <2>5 DEF Unwind
  <2>6. CASE NextLevel(c)
    BY <2>6 DEF NextLevel
  <2>7. CASE Return(c)
    BY <2>7 DEF Return
  <2> QED
    BY <1>2, <2>1, <2>2, <2>3, <2>4, <2>5, <2>6, <2>7 DEF CallStep
<1>3. ASSUME NEW c \in Calls, NEW r \in Rules, TaskStep(c, r) PROVE TaskInv'
  <2>1. CASE Acquire(c, r)
    BY <2>1 DEF Acquire
  <2>2. CASE AcquireTimeout(c, r)
    BY <2>2 DEF AcquireTimeout
  <2>3. CASE DependencyHolds(c, r)
    BY <2>3 DEF DependencyHolds
  <2>4. CASE DependencyFails(c, r)
    BY <2>4 DEF DependencyFails
  <2>5. ASSUME NEW o \in {"success", "failure"}, Execute(c, r, o) PROVE TaskInv'
    <3>1. context' = context \/ context' = [context EXCEPT ![c][r] = o]
      BY <2>5 DEF Execute
    <3>2. /\ outcome' = [outcome EXCEPT ![c][r] = o] /\ task' = [task EXCEPT ![c][r] = "release"]
          /\ task[c][r] = "execute" /\ UNCHANGED <<phase, level>>
      BY <2>5 DEF Execute
    <3>3. NoTaskOutlivesItsCall' /\ Settled' /\ TaskLevels' /\ OutcomeIsLast'
      BY <3>2
    <3>4. \A d \in Calls, q \in Rules \ ChildNames :
            context'[d][q] = context[d][q] \/ (d = c /\ q = r /\ context'[d][q] = o)
      BY <3>1 DEF Keys
    <3>5. ContextAgrees'
      BY <3>2, <3>4
    <3> QED BY <3>3, <3>5
  <2>6. CASE ExecuteThrows(c, r)
    BY <2>6 DEF ExecuteThrows
  <2>7. CASE Release(c, r)
    BY <2>7 DEF Release
  <2> QED
    BY <1>3, <2>1, <2>2, <2>3, <2>4, <2>5, <2>6, <2>7 DEF TaskStep
<1>4. ASSUME NEW a \in AsyncCalls, AsyncStart(a) \/ AsyncStep(a) PROVE TaskInv'
  <2>1. UNCHANGED <<phase, level, results, context, task, outcome>>
    BY <1>4 DEF AsyncStart, AsyncStep, AsyncAcquire, AsyncTimeout, AsyncExecute,
                AsyncRelease
  <2> QED
    BY <2>1
<1>5. CASE Done \/ UNCHANGED vars
  BY <1>5 DEF Done, vars
<1> QED
  BY <1>1, <1>2, <1>3, <1>4, <1>5, <1>6 DEF Next

(* Every reachable state is well typed. *)
THEOREM TypeCorrect == Spec => []TypeOK
<1>1. Init => TypeOK
  BY InitTaskInv DEF TaskInv
<1> QED
  BY <1>1, TypeStep, PTL DEF Spec

(* The invariant of the tasks holds of every behaviour. *)
LEMMA TaskInvariant == Spec => []TaskInv
BY InitTaskInv, TaskInvStep, PTL DEF Spec

(* NoTaskOutlivesItsCall: executeParallel returns or throws only when no   *)
(* task runs that holds references to its context and parameters.          *)
THEOREM TasksEndFirst == Spec => []NoTaskOutlivesItsCall
<1>1. TaskInv => NoTaskOutlivesItsCall
  BY DEF TaskInv
<1> QED
  BY <1>1, TaskInvariant, PTL

(* The engine that a task or an async call has is given back before the    *)
(* task leaves the steps that use it.                                      *)
LEMMA EngineStep == TypeOK /\ NoEngineIsLost /\ [Next]_vars => NoEngineIsLost'
<1> SUFFICES ASSUME TypeOK, NoEngineIsLost, [Next]_vars,
                    NEW e \in Engines
             PROVE (\/ owner[e] = NoOwner
                    \/ \E c \in Calls, r \in Rules :
                         owner[e] = <<c, r>> /\ task[c][r] \in {"check", "execute", "release"}
                    \/ \E a \in AsyncCalls : owner[e] = a /\ async[a] \in {"run", "release"})'
  BY DEF NoEngineIsLost
<1> DEFINE Kept(c, r) == owner[e] = <<c, r>> /\ task[c][r] \in {"check", "execute", "release"}
           KeptAsync(a) == owner[e] = a /\ async[a] \in {"run", "release"}
<1>0. \/ owner[e] = NoOwner
      \/ \E c \in Calls, r \in Rules : Kept(c, r)
      \/ \E a \in AsyncCalls : KeptAsync(a)
  BY DEF NoEngineIsLost
<1> USE DEF TypeOK
<1>1. ASSUME NEW c \in Calls, Start(c) \/ CallStep(c) PROVE \A d \in Calls, q \in Rules : Kept(d, q) => Kept(d, q)'
  <2>1. CASE Launch(c)
    BY <2>1 DEF Launch, Batch, Pending
  <2>2. CASE LaunchFails(c)
    BY <2>2 DEF LaunchFails, Batch, Pending
  <2>3. ASSUME NEW r \in Rules, Collect(c, r)
        PROVE \A d \in Calls, q \in Rules : Kept(d, q) => Kept(d, q)'
    BY <2>3 DEF Collect
  <2>4. ASSUME Start(c) \/ (\E r \in Rules : Rethrow(c, r)) \/ Unwind(c) \/ NextLevel(c)
                 \/ Return(c)
        PROVE UNCHANGED <<owner, task>>
    BY <2>4 DEF Start, Rethrow, Unwind, NextLevel, Return
  <2> QED
    BY <1>1, <2>1, <2>2, <2>3, <2>4 DEF CallStep
<1>2. ASSUME NEW c \in Calls, Start(c) \/ CallStep(c) PROVE UNCHANGED <<owner, async>>
  BY <1>2 DEF Start, CallStep, Launch, LaunchFails, Collect, Rethrow, Unwind, NextLevel, Return
<1>3. ASSUME NEW c \in Calls, NEW r \in Rules, TaskStep(c, r)
      PROVE /\ owner[e] = NoOwner => owner'[e] = NoOwner \/ Kept(c, r)'
            /\ \A d \in Calls, q \in Rules : Kept(d, q) => owner'[e] = NoOwner \/ Kept(d, q)'
            /\ \A a \in AsyncCalls : KeptAsync(a) => owner'[e] = NoOwner \/ KeptAsync(a)'
  <2>1. CASE Acquire(c, r)
    <3>1. PICK f \in Engines : owner[f] = NoOwner /\ owner' = [owner EXCEPT ![f] = <<c, r>>]
      BY <2>1 DEF Acquire, Free
    <3>2. \A d \in Calls, q \in Rules : <<d, q>> # NoOwner
      BY NoOwnerAssumption DEF Holders
    <3>3. \A a \in AsyncCalls : a # NoOwner
      BY NoOwnerAssumption DEF Holders
    <3>4. async' = async /\ task' = [task EXCEPT ![c][r] = "check"] /\ task[c][r] = "acquire"
      BY <2>1 DEF Acquire
    <3> QED
      BY <3>1, <3>2, <3>3, <3>4
  <2>2. CASE AcquireTimeout(c, r)
    BY <2>2 DEF AcquireTimeout
  <2>3. CASE DependencyHolds(c, r)
    BY <2>3 DEF DependencyHolds
  <2>4. CASE DependencyFails(c, r)
    BY <2>4 DEF DependencyFails
  <2>5. ASSUME NEW o \in {"success", "failure"}, Execute(c, r, o)
        PROVE task' = [task EXCEPT ![c][r] = "release"] /\ UNCHANGED <<owner, async>>
    BY <2>5 DEF Execute
  <2>6. CASE ExecuteThrows(c, r)
    BY <2>6 DEF ExecuteThrows
  <2>7. CASE Release(c, r)
    BY <2>7 DEF Release, GiveBack
  <2>8. CASE task' = [task EXCEPT ![c][r] = "release"] /\ UNCHANGED <<owner, async>>
    BY <2>8
  <2> QED
    BY <1>3, <2>1, <2>2, <2>3, <2>4, <2>5, <2>6, <2>7, <2>8 DEF TaskStep
<1>4. ASSUME NEW a \in AsyncCalls, AsyncStart(a) \/ AsyncStep(a)
      PROVE /\ owner[e] = NoOwner => owner'[e] = NoOwner \/ KeptAsync(a)'
            /\ \A d \in Calls, q \in Rules : Kept(d, q) => owner'[e] = NoOwner \/ Kept(d, q)'
            /\ \A b \in AsyncCalls : KeptAsync(b) => owner'[e] = NoOwner \/ KeptAsync(b)'
  <2>1. CASE AsyncStart(a)
    BY <2>1 DEF AsyncStart
  <2>2. CASE AsyncAcquire(a)
    <3>1. PICK f \in Engines : owner[f] = NoOwner /\ owner' = [owner EXCEPT ![f] = a]
      BY <2>2 DEF AsyncAcquire, Free
    <3>2. \A d \in Calls, q \in Rules : <<d, q>> # NoOwner
      BY NoOwnerAssumption DEF Holders
    <3>3. \A b \in AsyncCalls : b # NoOwner
      BY NoOwnerAssumption DEF Holders
    <3>4. task' = task /\ async' = [async EXCEPT ![a] = "run"] /\ async[a] = "acquire"
      BY <2>2 DEF AsyncAcquire
    <3> QED
      BY <3>1, <3>2, <3>3, <3>4
  <2>3. CASE AsyncTimeout(a)
    BY <2>3 DEF AsyncTimeout
  <2>4. CASE AsyncExecute(a)
    BY <2>4 DEF AsyncExecute
  <2>5. CASE AsyncRelease(a)
    BY <2>5 DEF AsyncRelease, GiveBack
  <2> QED
    BY <1>4, <2>1, <2>2, <2>3, <2>4, <2>5 DEF AsyncStep
<1>5. CASE Done \/ UNCHANGED vars
  BY <1>0, <1>5 DEF Done, vars
<1>6. CASE \E c \in Calls : Start(c) \/ CallStep(c)
  BY <1>0, <1>1, <1>2, <1>6
<1>7. CASE \E c \in Calls, r \in Rules : TaskStep(c, r)
  BY <1>0, <1>3, <1>7
<1>8. CASE \E a \in AsyncCalls : AsyncStart(a) \/ AsyncStep(a)
  BY <1>0, <1>4, <1>8
<1>9. CASE \E c \in Calls, r \in Rules : ChildStep(c, r)
  BY <1>0, <1>9 DEF ChildStep, ChildResult
<1> QED
  BY <1>5, <1>6, <1>7, <1>8, <1>9 DEF Next

(* NoEngineIsLost: a task that fails, times out or throws gives its engine *)
(* back to the workflow's pool like any other.                             *)
THEOREM EnginesComeBack == Spec => []NoEngineIsLost
<1>1. Init => NoEngineIsLost
  BY DEF Init, NoEngineIsLost
<1> QED
  BY <1>1, TypeCorrect, EngineStep, PTL DEF Spec

(* No task is started again once its future is collected. *)
LEMMA CollectedStays ==
  ASSUME TaskInv, [Next]_vars, NEW d \in Calls, NEW q \in Rules, task[d][q] = "collected"
  PROVE  task'[d][q] = "collected" /\ outcome'[d][q] = outcome[d][q]
<1> USE DEF TaskInv, TypeOK
<1>1. ASSUME NEW c \in Calls, CallStep(c)
      PROVE  task'[d][q] = "collected" /\ outcome'[d][q] = outcome[d][q]
  <2>1. CASE Launch(c)
    BY <2>1 DEF Launch, Batch, Pending
  <2>4. CASE LaunchFails(c)
    BY <2>4 DEF LaunchFails, Batch, Pending
  <2>2. CASE \E r \in Rules : Collect(c, r)
    BY <2>2 DEF Collect
  <2>3. CASE (\E r \in Rules : Rethrow(c, r)) \/ Unwind(c) \/ NextLevel(c) \/ Return(c)
    BY <2>3 DEF Rethrow, Unwind, NextLevel, Return
  <2> QED BY <1>1, <2>1, <2>2, <2>3, <2>4 DEF CallStep
<1>2. ASSUME NEW c \in Calls, NEW r \in Rules, TaskStep(c, r)
      PROVE  task'[d][q] = "collected" /\ outcome'[d][q] = outcome[d][q]
  <2>1. /\ task[c][r] # "collected"
        /\ \E w \in {"check", "execute", "release", "ready"} : task' = [task EXCEPT ![c][r] = w]
        /\ outcome' = outcome \/ \E o \in Outcomes : outcome' = [outcome EXCEPT ![c][r] = o]
    BY <1>2 DEF TaskStep, Acquire, AcquireTimeout, DependencyHolds, DependencyFails,
       Execute, ExecuteThrows, Release, Outcomes
  <2> QED BY <2>1
<1>3. ASSUME \/ \E c \in Calls : Start(c)
             \/ \E c \in Calls, r \in Rules : ChildStep(c, r)
             \/ \E a \in AsyncCalls : AsyncStart(a) \/ AsyncStep(a)
             \/ Done \/ UNCHANGED vars
      PROVE  UNCHANGED <<task, outcome>>
  BY <1>3 DEF Start, ChildStep, ChildResult, AsyncStart, AsyncStep, AsyncAcquire,
     AsyncTimeout, AsyncExecute, AsyncRelease, Done, vars
<1> QED BY <1>1, <1>2, <1>3 DEF Next

(* A rule that has run stays so, and one that has not begins only where    *)
(* its task finds the dependency in the context.                           *)
LEMMA HasRunStep ==
  ASSUME TaskInv, [Next]_vars, NEW d \in Calls, NEW q \in Rules
  PROVE  /\ HasRun(d, q) => HasRun(d, q)'
         /\ HasRun(d, q)' => HasRun(d, q) \/ DependencyHolds(d, q)
<1> USE DEF TaskInv, TypeOK, OutcomeIsLast, HasRun
<1>1. ASSUME NEW c \in Calls, CallStep(c)
      PROVE  /\ outcome' = outcome
             /\ task[d][q] = "execute" <=> task'[d][q] = "execute"
  <2>1. CASE Launch(c)
    BY <2>1 DEF Launch, Batch, Pending
  <2>4. CASE LaunchFails(c)
    BY <2>4 DEF LaunchFails, Batch, Pending
  <2>2. ASSUME NEW r \in Rules, Collect(c, r)
        PROVE  /\ outcome' = outcome
               /\ task[d][q] = "execute" <=> task'[d][q] = "execute"
    BY <2>2 DEF Collect
  <2>3. CASE (\E r \in Rules : Rethrow(c, r)) \/ Unwind(c) \/ NextLevel(c) \/ Return(c)
    BY <2>3 DEF Rethrow, Unwind, NextLevel, Return
  <2> QED BY <1>1, <2>1, <2>2, <2>3, <2>4 DEF CallStep
<1>2. ASSUME NEW c \in Calls, NEW r \in Rules, TaskStep(c, r)
      PROVE  /\ HasRun(d, q) => HasRun(d, q)'
             /\ HasRun(d, q)' => HasRun(d, q) \/ DependencyHolds(d, q)
  <2>1. CASE Acquire(c, r)
    BY <2>1 DEF Acquire
  <2>7. CASE Release(c, r)
    BY <2>7 DEF Release
  <2>2. CASE AcquireTimeout(c, r)
    BY <2>2 DEF AcquireTimeout
  <2>3. CASE DependencyHolds(c, r)
    <3>1. CASE c = d /\ r = q
      BY <2>3, <3>1 DEF DependencyHolds
    <3>2. CASE ~(c = d /\ r = q)
      BY <2>3, <3>2 DEF DependencyHolds
    <3> QED BY <3>1, <3>2
  <2>4. CASE DependencyFails(c, r)
    BY <2>4 DEF DependencyFails
  <2>5. ASSUME NEW o \in {"success", "failure"}, Execute(c, r, o)
        PROVE  HasRun(d, q) <=> HasRun(d, q)'
    BY <2>5 DEF Execute
  <2>6. CASE ExecuteThrows(c, r)
    BY <2>6 DEF ExecuteThrows
  <2> QED BY <1>2, <2>1, <2>2, <2>3, <2>4, <2>5, <2>6, <2>7 DEF TaskStep
<1>3. ASSUME \/ \E c \in Calls : Start(c)
             \/ \E c \in Calls, r \in Rules : ChildStep(c, r)
             \/ \E a \in AsyncCalls : AsyncStart(a) \/ AsyncStep(a)
             \/ Done \/ UNCHANGED vars
      PROVE  UNCHANGED <<task, outcome>>
  BY <1>3 DEF Start, ChildStep, ChildResult, AsyncStart, AsyncStep, AsyncAcquire,
     AsyncTimeout, AsyncExecute, AsyncRelease, Done, vars
<1> QED BY <1>1, <1>2, <1>3 DEF Next

(* Who writes a success under a key has run: a rule for itself, at the end *)
(* of Rule::execute or from its future, or a parent for a rule below it.   *)
LEMMA WriterStep ==
  TaskInv /\ TaskInv' /\ SuccessHasAWriter /\ [Next]_vars => SuccessHasAWriter'
<1> SUFFICES ASSUME TaskInv, TaskInv', SuccessHasAWriter, [Next]_vars,
                    NEW d \in Calls, NEW k \in Keys, context'[d][k] = "success"
             PROVE  \E q \in Writers(k) : HasRun(d, q)'
  BY DEF SuccessHasAWriter, Writers
<1>1. \A q \in Writers(k) : q \in Rules /\ (HasRun(d, q) => HasRun(d, q)')
  BY HasRunStep DEF Writers
<1>2. CASE context[d][k] = "success"
  BY <1>1, <1>2 DEF SuccessHasAWriter
<1>3. CASE context[d][k] # "success"
  <2>3. ASSUME NEW c \in Calls, NEW r \in Rules, ChildStep(c, r)
        PROVE  \E q \in Writers(k) : HasRun(d, q)'
    <3>1. PICK m \in Keys, o \in {"success", "failure"} :
            /\ r \in Writers(m) /\ task[c][r] = "execute"
            /\ context' = [context EXCEPT ![c][m] = o]
      BY <2>3, ChildWrites DEF TaskInv
    <3>2. d = c /\ k = m
      BY <1>3, <3>1 DEF TaskInv, TypeOK
    <3> QED BY <1>1, <3>1, <3>2 DEF HasRun
  <2> USE DEF TaskInv, TypeOK
  <2>1. ASSUME NEW c \in Calls, NEW r \in Rules, Collect(c, r)
        PROVE  \E q \in Writers(k) : HasRun(d, q)'
    <3>1. d = c /\ k = r /\ outcome[c][r] = "success"
      BY <1>3, <2>1 DEF Collect, CollectedContext
    <3> QED BY <1>1, <3>1 DEF HasRun, Writers
  <2>2. ASSUME NEW c \in Calls, NEW r \in Rules, NEW o \in {"success", "failure"},
               Execute(c, r, o)
        PROVE  \E q \in Writers(k) : HasRun(d, q)'
    <3>1. context' = [context EXCEPT ![c][r] = o] \/ context' = context
      BY <2>2 DEF Execute
    <3>2. d = c /\ k = r /\ HasRun(c, r)
      BY <1>3, <2>2, <3>1 DEF Execute, HasRun
    <3> QED BY <1>1, <3>2 DEF Writers
  <2>4. ASSUME \/ \E c \in Calls :
                    \/ Start(c) \/ Launch(c) \/ LaunchFails(c) \/ Unwind(c) \/ NextLevel(c)
                    \/ Return(c) \/ \E r \in Rules : Rethrow(c, r)
               \/ \E c \in Calls, r \in Rules :
                    \/ Acquire(c, r) \/ AcquireTimeout(c, r) \/ DependencyHolds(c, r)
                    \/ DependencyFails(c, r) \/ ExecuteThrows(c, r) \/ Release(c, r)
               \/ \E a \in AsyncCalls : AsyncStart(a) \/ AsyncStep(a)
               \/ Done \/ UNCHANGED vars
        PROVE  context' = context
    BY <2>4 DEF Start, Launch, LaunchFails, Unwind, NextLevel, Return, Rethrow, Acquire,
       AcquireTimeout, DependencyHolds, DependencyFails, ExecuteThrows, Release, AsyncStart,
       AsyncStep, AsyncAcquire, AsyncTimeout, AsyncExecute, AsyncRelease, Done, vars
  <2> HIDE DEF TaskInv, TypeOK
  <2> QED BY <1>3, <2>1, <2>2, <2>3, <2>4 DEF Next, CallStep, TaskStep
<1> QED BY <1>2, <1>3

(* The context's successes have a writer in every behaviour. *)
LEMMA WriterInvariant == Spec => []SuccessHasAWriter
<1>1. Init => SuccessHasAWriter
  BY DEF Init, SuccessHasAWriter
<1> QED BY <1>1, TaskInvariant, WriterStep, PTL DEF Spec

(* Where a task finds its dependency, somebody wrote it, and the rule of   *)
(* an earlier level is settled if no child rule writes its key.            *)
LEMMA FoundInContext ==
  ASSUME TaskInv, SuccessHasAWriter, NEW c \in Calls, NEW r \in Rules,
         DependencyHolds(c, r), DependsOn[r] # NoDep
  PROVE  /\ \E q \in Writers(DependsOn[r]) : HasRun(c, q)
         /\ DependsOn[r] \notin ChildNames =>
              /\ DependsOn[r] \in Rules
              /\ outcome[c][DependsOn[r]] = "success"
              /\ task[c][DependsOn[r]] = "collected"
<1>1. DependsOn[r] \in Keys /\ context[c][DependsOn[r]] = "success" /\ task[c][r] = "check"
  BY DEF DependencyHolds, DependencySucceeded
<1>2. \E q \in Writers(DependsOn[r]) : HasRun(c, q)
  BY <1>1 DEF SuccessHasAWriter
<1>3. ASSUME DependsOn[r] \notin ChildNames
      PROVE  /\ DependsOn[r] \in Rules
             /\ outcome[c][DependsOn[r]] = "success"
             /\ task[c][DependsOn[r]] = "collected"
  <2>1. DependsOn[r] \in Rules
    BY <1>1, <1>3 DEF Keys
  <2>2. outcome[c][DependsOn[r]] = "success"
    BY <1>1, <1>3, <2>1 DEF TaskInv, ContextAgrees
  <2>3. task[c][DependsOn[r]] \in {"release", "ready", "collected"}
    BY <2>1, <2>2 DEF TaskInv, OutcomeIsLast
  <2>4. LevelOf[r] = level[c] /\ LevelOf[DependsOn[r]] < LevelOf[r]
    BY <1>1, <2>1, DependsOnAssumption DEF TaskInv, TaskLevels
  <2>5. LevelOf[DependsOn[r]] # level[c]
    BY <2>1, <2>4, LevelAssumption DEF TaskInv, TypeOK
  <2> QED BY <2>1, <2>2, <2>3, <2>5 DEF TaskInv, TaskLevels
<1> QED BY <1>2, <1>3

(* Inductive with TaskInv: what a task has found stays, since a collected  *)
(* future keeps its outcome.                                               *)
LEMMA DependencyStep ==
  TaskInv /\ SuccessHasAWriter /\ DependencyCameFirst /\ [Next]_vars => DependencyCameFirst'
<1> SUFFICES ASSUME TaskInv, SuccessHasAWriter, DependencyCameFirst, [Next]_vars,
                    NEW c \in Calls, NEW r \in Rules, DependsOn[r] # NoDep, HasRun(c, r)'
             PROVE  /\ \E q \in Writers(DependsOn[r]) : HasRun(c, q)'
                    /\ DependsOn[r] \notin ChildNames =>
                         /\ DependsOn[r] \in Rules
                         /\ outcome'[c][DependsOn[r]] = "success"
                         /\ task'[c][DependsOn[r]] = "collected"
  BY DEF DependencyCameFirst, Writers
<1>1. HasRun(c, r) \/ DependencyHolds(c, r)
  BY HasRunStep
<1>2. /\ \E q \in Writers(DependsOn[r]) : HasRun(c, q)
      /\ DependsOn[r] \notin ChildNames =>
           /\ DependsOn[r] \in Rules
           /\ outcome[c][DependsOn[r]] = "success"
           /\ task[c][DependsOn[r]] = "collected"
  BY <1>1, FoundInContext DEF DependencyCameFirst
<1>3. \A q \in Writers(DependsOn[r]) : HasRun(c, q) => HasRun(c, q)'
  BY HasRunStep DEF Writers
<1>4. ASSUME NEW q \in Rules, task[c][q] = "collected"
      PROVE  task'[c][q] = "collected" /\ outcome'[c][q] = outcome[c][q]
  BY <1>4, CollectedStays
<1> QED BY <1>2, <1>3, <1>4

(* DependencyCameFirst: in every call, a rule that runs had its dependency *)
(* written to the context before, by the rule itself and its collected     *)
(* success if no child rule has its key.                                   *)
THEOREM DependenciesFirst == Spec => []DependencyCameFirst
<1>1. Init => DependencyCameFirst
  BY DEF Init, DependencyCameFirst, HasRun
<1> QED
  BY <1>1, TaskInvariant, WriterInvariant, DependencyStep, PTL DEF Spec

(* A rule of an earlier level than a decided one never gets a new outcome. *)
LEMMA RefusedStep ==
  TaskInv /\ TaskInv' /\ RefusedForAReason /\ [Next]_vars => RefusedForAReason'
<1> SUFFICES ASSUME TaskInv, TaskInv', RefusedForAReason, [Next]_vars
             PROVE RefusedForAReason'
  OBVIOUS
<1> USE LevelAssumption, DependsOnAssumption
    DEF RefusedForAReason, TaskInv, TypeOK, TaskLevels, OutcomeIsLast, ContextAgrees
<1>1. ASSUME NEW c \in Calls, Start(c) \/ CallStep(c) PROVE UNCHANGED outcome
  BY <1>1 DEF Start, CallStep, Launch, LaunchFails, Collect, Rethrow, Unwind, NextLevel, Return
<1>2. ASSUME NEW c \in Calls, NEW r \in Rules, TaskStep(c, r) PROVE RefusedForAReason'
  <2>1. CASE Acquire(c, r) \/ DependencyHolds(c, r) \/ Release(c, r)
    BY <2>1 DEF Acquire, DependencyHolds, Release
  <2>2. CASE AcquireTimeout(c, r)
    BY <2>2 DEF AcquireTimeout
  <2>3. CASE DependencyFails(c, r)
    <3>1. DependsOn[r] \in Rules => context[c][DependsOn[r]] # "success"
      BY <2>3 DEF DependencyFails, DependencySucceeded, Keys
    <3>2. LevelOf[r] = level[c]
      BY <2>3 DEF DependencyFails
    <3>3. DependsOn[r] \in Rules => LevelOf[DependsOn[r]] < level[c]
      BY <3>2
    <3>4. DependsOn[r] \in Rules => task[c][DependsOn[r]] \in {"none", "collected"}
      BY <3>3
    <3>5. DependsOn[r] \in Rules \ ChildNames => outcome[c][DependsOn[r]] # "success"
      BY <3>1, <3>4
    <3>6. outcome' = [outcome EXCEPT ![c][r] = "dependencyFailed"]
      BY <2>3 DEF DependencyFails
    <3> QED
      BY <3>5, <3>6
  <2>4. ASSUME NEW o \in {"success", "failure"}, Execute(c, r, o) PROVE RefusedForAReason'
    BY <2>4 DEF Execute
  <2>5. CASE ExecuteThrows(c, r)
    BY <2>5 DEF ExecuteThrows
  <2> QED
    BY <1>2, <2>1, <2>2, <2>3, <2>4, <2>5 DEF TaskStep
<1>3. ASSUME NEW a \in AsyncCalls, AsyncStart(a) \/ AsyncStep(a) PROVE UNCHANGED outcome
  BY <1>3 DEF AsyncStart, AsyncStep, AsyncAcquire, AsyncTimeout, AsyncExecute, AsyncRelease
<1>4. ASSUME Done \/ UNCHANGED vars \/ \E c \in Calls, r \in Rules : ChildStep(c, r)
      PROVE UNCHANGED outcome
  BY <1>4 DEF Done, vars, ChildStep, ChildResult
<1>5. CASE UNCHANGED outcome
  BY <1>5
<1> QED
  BY <1>1, <1>2, <1>3, <1>4, <1>5 DEF Next

(* RefusedForAReason: no dependent is refused whose dependency succeeds in *)
(* the same call, if no child rule has the dependency's key.               *)
THEOREM NoSpuriousRefusal == Spec => []RefusedForAReason
<1>1. Init => RefusedForAReason
  BY DEF Init, RefusedForAReason
<1> QED
  BY <1>1, TaskInvariant, RefusedStep, PTL DEF Spec

(* A level with pending rules has a batch: its first rule is in it. *)
LEMMA BatchNonempty ==
  ASSUME NEW c \in Calls, Pending(c) # {}
  PROVE Batch(c) # {}
<1>1. Pending(c) \subseteq Nat
  <2>1. Rules \subseteq Nat
    BY NAssumption DEF Rules
  <2>2. Pending(c) \subseteq Active
    BY DEF Pending
  <2> QED
    BY <2>1, <2>2, ActiveAssumption
<1>2. PICK r \in Pending(c) : \A q \in Pending(c) : ~(<<q, r>> \in OpToRel(<, Nat))
  BY <1>1, NatLessThanWellFounded, WFMin
<1>3. \A q \in Pending(c) : ~(q < r)
  BY <1>1, <1>2 DEF OpToRel
<1>4. {q \in Pending(c) : q < r} = {}
  BY <1>3
<1>5. Cardinality({q \in Pending(c) : q < r}) = 0
  BY <1>4, FS_EmptySet
<1>6. MaxConcurrency \in Nat /\ MaxConcurrency # 0
  BY EnginesAssumption, FS_CardinalityType, FS_EmptySet DEF MaxConcurrency
<1> QED
  BY <1>5, <1>6 DEF Batch

(* The results of a call are the collected rules, each once and in the     *)
(* order of their levels.                                                  *)
ResultsAreCollected ==
  \A c \in Calls :
    /\ \A i \in DOMAIN results[c] : task[c][results[c][i]] = "collected"
    /\ \A r \in Rules : task[c][r] = "collected" =>
         \E i \in DOMAIN results[c] : results[c][i] = r
    /\ \A i, j \in DOMAIN results[c] : i < j =>
         /\ results[c][i] # results[c][j]
         /\ LevelOf[results[c][i]] <= LevelOf[results[c][j]]

(* The levels that are behind have no active rule left to launch. *)
LevelsAreDone ==
  \A c \in Calls :
    /\ phase[c] \in {"batch", "collect"} =>
         \A r \in Active : LevelOf[r] < level[c] => task[c][r] # "none"
    /\ phase[c] = "returned" => \A r \in Active : task[c][r] # "none"

ReportInv == ResultsAreCollected /\ LevelsAreDone

(* get() pushes a rule of the current level that no earlier get() pushed. *)
LEMMA CollectStep ==
  ASSUME TaskInv, TaskInv', ReportInv, NEW c \in Calls, NEW r \in Rules, Collect(c, r)
  PROVE ResultsAreCollected'
<1> DEFINE s == results[c]
           t == Append(s, r)
<1>1. /\ s \in Seq(Rules)
      /\ results' = [results EXCEPT ![c] = t]
      /\ task' = [task EXCEPT ![c][r] = "collected"]
      /\ results \in [Calls -> Seq(Rules)]
      /\ task[c][r] = "ready"
  BY DEF Collect, TaskInv, TypeOK
<1>2. /\ Len(s) \in Nat /\ DOMAIN s = 1..Len(s)
      /\ DOMAIN t = 1..(Len(s) + 1)
      /\ t[Len(s) + 1] = r
      /\ \A i \in DOMAIN s : t[i] = s[i] /\ i \in DOMAIN t
      /\ \A i \in DOMAIN s : s[i] \in Rules
  BY <1>1
<1>3. \A i \in DOMAIN s : task[c][s[i]] = "collected" /\ LevelOf[s[i]] <= level[c] /\ s[i] # r
  BY <1>1, <1>2 DEF ReportInv, ResultsAreCollected, TaskInv, TaskLevels
<1>4. LevelOf[r] = level[c]
  BY <1>1 DEF TaskInv, TaskLevels
<1> SUFFICES ASSUME NEW d \in Calls
             PROVE /\ \A i \in DOMAIN results'[d] : task'[d][results'[d][i]] = "collected"
                   /\ \A q \in Rules : task'[d][q] = "collected" =>
                        \E i \in DOMAIN results'[d] : results'[d][i] = q
                   /\ \A i, j \in DOMAIN results'[d] : i < j =>
                        /\ results'[d][i] # results'[d][j]
                        /\ LevelOf[results'[d][i]] <= LevelOf[results'[d][j]]
  BY DEF ResultsAreCollected
<1>5. CASE d # c
  <2>1. task'[d] = task[d] /\ results'[d] = results[d]
    BY <1>1, <1>5 DEF TaskInv, TypeOK
  <2> QED
    BY <2>1 DEF ReportInv, ResultsAreCollected
<1>6. CASE d = c
  <2>1. results'[d] = t
    BY <1>1, <1>6
  <2>2. /\ task'[c][r] = "collected"
        /\ \A q \in Rules : q # r => task'[c][q] = task[c][q]
    BY <1>1 DEF TaskInv, TypeOK
  <2> HIDE DEF s, t
  <2>3. \A i \in DOMAIN t : i = Len(s) + 1 \/ i \in DOMAIN s
    BY <1>2
  <2>4. \A i \in DOMAIN t : task'[c][t[i]] = "collected"
    BY <1>2, <1>3, <2>2, <2>3
  <2>5. \A q \in Rules : task[c][q] = "collected" => \E i \in DOMAIN s : s[i] = q
    BY DEF s, ReportInv, ResultsAreCollected
  <2>6. \A q \in Rules : task'[c][q] = "collected" => \E i \in DOMAIN t : t[i] = q
    BY <1>2, <2>2, <2>5
  <2>7. \A i, j \in DOMAIN s : i < j => s[i] # s[j] /\ LevelOf[s[i]] <= LevelOf[s[j]]
    BY DEF s, ReportInv, ResultsAreCollected
  <2>8. ASSUME NEW i \in DOMAIN t, NEW j \in DOMAIN t, i < j
        PROVE t[i] # t[j] /\ LevelOf[t[i]] <= LevelOf[t[j]]
    <3>1. i \in DOMAIN s
      BY <1>2, <2>8
    <3>2. CASE j \in DOMAIN s
      BY <1>2, <2>7, <2>8, <3>1, <3>2
    <3>3. CASE j = Len(s) + 1
      BY <1>2, <1>3, <1>4, <3>1, <3>3
    <3> QED
      BY <2>3, <3>2, <3>3
  <2> QED
    BY <1>6, <2>1, <2>4, <2>6, <2>8
<1> QED
  BY <1>5, <1>6

(* A step that neither collects a task nor pushes a result. *)
LEMMA ResultsKept ==
  ASSUME TypeOK, TypeOK', ResultsAreCollected, UNCHANGED results,
         \A c \in Calls, r \in Rules :
           task[c][r] = "collected" <=> task'[c][r] = "collected"
  PROVE ResultsAreCollected'
<1>1. \A c \in Calls : \A i \in DOMAIN results[c] : results[c][i] \in Rules
  BY DEF TypeOK
<1> QED
  BY <1>1 DEF ResultsAreCollected

(* A level is left, and the call returns, only when no rule is pending. *)
LEMMA ReportStep == TaskInv /\ TaskInv' /\ ReportInv /\ [Next]_vars => ReportInv'
<1> SUFFICES ASSUME TaskInv, TaskInv', ReportInv, [Next]_vars PROVE ReportInv'
  OBVIOUS
<1>0. Active \subseteq Rules
  BY ActiveAssumption
<1> DEFINE KeepsCollected == \A d \in Calls, q \in Rules :
             task[d][q] = "collected" <=> task'[d][q] = "collected"
<1>a. ASSUME KeepsCollected, UNCHANGED results PROVE ResultsAreCollected'
  BY <1>a, ResultsKept DEF TaskInv, ReportInv
<1> USE LevelAssumption DEF TaskInv, TypeOK
<1>1. ASSUME NEW c \in Calls, Start(c) PROVE ReportInv'
  <2>1. KeepsCollected /\ UNCHANGED results
    BY <1>1 DEF Start
  <2>2. LevelsAreDone'
    BY <1>0, <1>1 DEF Start, ReportInv, LevelsAreDone
  <2> QED
    BY <1>a, <2>1, <2>2 DEF ReportInv
<1>2. ASSUME NEW c \in Calls, CallStep(c) PROVE ReportInv'
  <2>1. CASE Launch(c)
    <3>1. KeepsCollected /\ UNCHANGED results
      BY <2>1 DEF Launch, Batch, Pending
    <3>2. LevelsAreDone'
      BY <1>0, <2>1 DEF Launch, ReportInv, LevelsAreDone
    <3> QED
      BY <1>a, <3>1, <3>2 DEF ReportInv
  <2>2. CASE LaunchFails(c)
    <3>1. KeepsCollected /\ UNCHANGED results
      BY <2>2 DEF LaunchFails, Batch, Pending
    <3>2. LevelsAreDone'
      BY <1>0, <2>2 DEF LaunchFails, ReportInv, LevelsAreDone
    <3> QED
      BY <1>a, <3>1, <3>2 DEF ReportInv
  <2>3. ASSUME NEW r \in Rules, Collect(c, r) PROVE ReportInv'
    <3>1. LevelsAreDone'
      BY <1>0, <2>3 DEF Collect, ReportInv, LevelsAreDone
    <3> QED
      BY <2>3, <3>1, CollectStep DEF ReportInv
  <2>4. CASE (\E r \in Rules : Rethrow(c, r)) \/ Unwind(c)
    <3>1. KeepsCollected /\ UNCHANGED results
      BY <2>4 DEF Rethrow, Unwind
    <3>2. /\ UNCHANGED <<level, task>>
          /\ phase' = [phase EXCEPT ![c] = "unwind"] \/ phase' = [phase EXCEPT ![c] = "threw"]
      BY <2>4 DEF Rethrow, Unwind
    <3>3. LevelsAreDone'
      BY <3>2 DEF ReportInv, LevelsAreDone
    <3> QED
      BY <1>a, <3>1, <3>3 DEF ReportInv
  <2>5. CASE NextLevel(c)
    <3>1. KeepsCollected /\ UNCHANGED results
      BY <2>5 DEF NextLevel
    <3>2. Pending(c) = {}
      BY <2>5, BatchNonempty DEF NextLevel
    <3>3. \A r \in Active : LevelOf[r] <= level[c] => task[c][r] # "none"
      BY <1>0, <2>5, <3>2 DEF NextLevel, Pending, ReportInv, LevelsAreDone
    <3>4. LevelsAreDone'
      BY <1>0, <2>5, <3>3 DEF NextLevel, ReportInv, LevelsAreDone
    <3> QED
      BY <1>a, <3>1, <3>4 DEF ReportInv
  <2>6. CASE Return(c)
    <3>1. KeepsCollected /\ UNCHANGED results
      BY <2>6 DEF Return
    <3>2. Pending(c) = {}
      BY <2>6, BatchNonempty DEF Return
    <3>3. \A r \in Rules : LevelOf[r] <= level[c]
      BY <2>6 DEF Return, LaterLevels
    <3>4. \A r \in Active : task[c][r] # "none"
      BY <1>0, <2>6, <3>2, <3>3 DEF Return, Pending, ReportInv, LevelsAreDone
    <3>5. LevelsAreDone'
      BY <1>0, <2>6, <3>4 DEF Return, ReportInv, LevelsAreDone
    <3> QED
      BY <1>a, <3>1, <3>5 DEF ReportInv
  <2> QED
    BY <1>2, <2>1, <2>2, <2>3, <2>4, <2>5, <2>6 DEF CallStep
<1>3. ASSUME NEW c \in Calls, NEW r \in Rules, TaskStep(c, r) PROVE ReportInv'
  <2>1. /\ UNCHANGED <<phase, level, results>>
        /\ task[c][r] \notin {"none", "collected"}
        /\ \E w \in {"check", "execute", "release", "ready"} : task' = [task EXCEPT ![c][r] = w]
    BY <1>3 DEF TaskStep, Acquire, AcquireTimeout, DependencyHolds, DependencyFails,
                Execute, ExecuteThrows, Release
  <2>2. KeepsCollected
    BY <2>1
  <2>3. \A d \in Calls, q \in Rules : task[d][q] # "none" => task'[d][q] # "none"
    BY <2>1
  <2>4. LevelsAreDone'
    BY <1>0, <2>1, <2>3 DEF ReportInv, LevelsAreDone
  <2> QED
    BY <1>a, <2>1, <2>2, <2>4 DEF ReportInv
<1>4. ASSUME NEW a \in AsyncCalls, AsyncStart(a) \/ AsyncStep(a)
      PROVE UNCHANGED <<phase, level, results, task>>
  BY <1>4 DEF AsyncStart, AsyncStep, AsyncAcquire, AsyncTimeout, AsyncExecute, AsyncRelease
<1>5. ASSUME Done \/ UNCHANGED vars \/ \E c \in Calls, r \in Rules : ChildStep(c, r)
      PROVE UNCHANGED <<phase, level, results, task>>
  BY <1>5 DEF Done, vars, ChildStep, ChildResult
<1>6. CASE UNCHANGED <<phase, level, results, task>>
  BY <1>6 DEF ReportInv, ResultsAreCollected, LevelsAreDone
<1> QED
  BY <1>1, <1>2, <1>3, <1>4, <1>5, <1>6 DEF Next

(* ReportsEveryRule: executeParallel returns a result for every active     *)
(* rule, exactly one, dependencies before dependents.                      *)
THEOREM EveryRuleIsReported == Spec => []ReportsEveryRule
<1>1. Init => ReportInv
  BY DEF Init, ReportInv, ResultsAreCollected, LevelsAreDone
<1>2. TaskInv /\ ReportInv => ReportsEveryRule
  <2> SUFFICES ASSUME TaskInv, ReportInv, NEW c \in Calls, phase[c] = "returned"
               PROVE \A r \in Active : \E i \in DOMAIN results[c] : results[c][i] = r
    BY DEF ReportsEveryRule, ReportInv, ResultsAreCollected
  <2>1. \A r \in Active : r \in Rules /\ task[c][r] = "collected"
    BY ActiveAssumption DEF TaskInv, Settled, ReportInv, LevelsAreDone
  <2> QED
    BY <2>1 DEF ReportInv, ResultsAreCollected
<1> QED
  BY <1>1, <1>2, TaskInvariant, ReportStep, PTL DEF Spec

(* In executeParallel a rule runs after its dependency and is refused only *)
(* over one that did not succeed, for any number of calls and engines and  *)
(* whatever keys the child rules write.                                    *)
THEOREM DependenciesDecide == Spec => []DependencyDecides
BY DependenciesFirst, NoSpuriousRefusal, PTL DEF DependencyDecides

(* No path of executeParallel, with exceptions and timeouts, leaves a task *)
(* running behind its call or an engine out of the pool.                   *)
THEOREM NothingStays == Spec => []NothingIsLeftBehind
BY TasksEndFirst, EnginesComeBack, PTL DEF NothingIsLeftBehind

-----------------------------------------------------------------------------
(* The batches and the engines. *)

(* At most as many futures are open as there are engines. *)
BatchFits == \A c \in Calls : Cardinality(Uncollected(c)) <= MaxConcurrency

(* Nobody holds two engines. *)
OneEngineEach ==
  \A e, f \in Engines : owner[e] = owner[f] /\ owner[e] # NoOwner => e = f

(* A set of rules that is not empty has a last one. *)
LEMMA LastRule ==
  ASSUME NEW S \in SUBSET Rules, S # {}
  PROVE  \E r \in S : \A q \in S : q <= r
<1> DEFINE back == {k \in Nat : \E r \in S : k = N - r}
<1>1. N \in Nat /\ \A r \in S : r \in Nat /\ N - r \in Nat
  BY NAssumption DEF Rules
<1>2. PICK a \in S : TRUE
  OBVIOUS
<1>3. N - a \in back
  BY <1>1, <1>2
<1>4. PICK m \in back : \A k \in back : <<k, m>> \notin OpToRel(<, Nat)
  BY <1>3, NatLessThanWellFounded, WFMin
<1>5. \A k \in back : ~(k < m)
  BY <1>4 DEF OpToRel
<1>6. PICK r \in S : m = N - r
  OBVIOUS
<1>7. ASSUME NEW q \in S PROVE q <= r
  <2>1. N - q \in back
    BY <1>1
  <2> QED BY <1>1, <1>5, <1>6, <2>1
<1> QED BY <1>6, <1>7

(* The subsets of the rules are finite. *)
LEMMA RulesFinite ==
  ASSUME NEW S \in SUBSET Rules PROVE IsFiniteSet(S) /\ Cardinality(S) \in Nat
<1>1. IsFiniteSet(Rules)
  BY NAssumption, FS_Interval DEF Rules
<1>2. IsFiniteSet(S)
  BY <1>1, FS_Subset
<1> QED BY <1>2, FS_CardinalityType

(* A batch has at most one rule for each engine: the rules before its last *)
(* one are fewer than the engines.                                         *)
LEMMA BatchSize ==
  ASSUME NEW c \in Calls
  PROVE  Batch(c) \in SUBSET Rules /\ Cardinality(Batch(c)) <= MaxConcurrency
<1>1. Batch(c) \in SUBSET Rules /\ Pending(c) \in SUBSET Rules
  BY ActiveAssumption DEF Batch, Pending
<1>2. MaxConcurrency \in Nat
  BY EnginesAssumption, FS_CardinalityType DEF MaxConcurrency
<1>3. CASE Batch(c) = {}
  BY <1>2, <1>3, FS_EmptySet
<1>4. CASE Batch(c) # {}
  <2>1. PICK r \in Batch(c) : \A q \in Batch(c) : q <= r
    BY <1>1, <1>4, LastRule
  <2> DEFINE before == {q \in Pending(c) : q < r}
             others == Batch(c) \ {r}
  <2>2. others \subseteq before
    BY <1>1, <2>1, NAssumption DEF Batch, Rules
  <2>3. Cardinality(before) < MaxConcurrency
    BY <2>1 DEF Batch
  <2>4. IsFiniteSet(before) /\ Cardinality(before) \in Nat /\ IsFiniteSet(Batch(c))
        /\ Cardinality(Batch(c)) \in Nat
    <3>1. before \in SUBSET Rules
      BY <1>1
    <3> HIDE DEF before
    <3> QED BY <1>1, <3>1, RulesFinite
  <2> HIDE DEF before
  <2>5. Cardinality(others) <= Cardinality(before)
    BY <2>2, <2>4, FS_Subset
  <2>6. Cardinality(others) = Cardinality(Batch(c)) - 1
    BY <2>1, <2>4, FS_RemoveElement
  <2> QED BY <1>1, <1>2, <2>3, <2>4, <2>5, <2>6
<1> QED BY <1>1, <1>3, <1>4

(* A batch is launched only when all futures are collected, and from then  *)
(* on they become fewer.                                                   *)
LEMMA BatchFitsStep == TaskInv /\ BatchFits /\ [Next]_vars => BatchFits'
<1> SUFFICES ASSUME TaskInv, BatchFits, [Next]_vars, NEW c \in Calls
             PROVE  Cardinality(Uncollected(c)') <= MaxConcurrency
  BY DEF BatchFits, MaxConcurrency, Uncollected
<1> USE DEF TaskInv, TypeOK
<1>1. MaxConcurrency \in Nat
  BY EnginesAssumption, FS_CardinalityType DEF MaxConcurrency
<1>2. ASSUME NEW T \in SUBSET Rules, Uncollected(c)' \subseteq T,
             Cardinality(T) <= MaxConcurrency
      PROVE  Cardinality(Uncollected(c)') <= MaxConcurrency
  <2>1. IsFiniteSet(T) /\ Cardinality(T) \in Nat
    BY RulesFinite
  <2>2. Uncollected(c)' \in SUBSET Rules
    BY <1>2
  <2>3. Cardinality(Uncollected(c)') \in Nat
    BY <2>2, RulesFinite
  <2>4. Cardinality(Uncollected(c)') <= Cardinality(T)
    BY <1>2, <2>1, FS_Subset
  <2> QED BY <1>1, <1>2, <2>1, <2>3, <2>4
<1>3. Uncollected(c) \in SUBSET Rules /\ Cardinality(Uncollected(c)) <= MaxConcurrency
  BY DEF BatchFits, Uncollected
<1>4. Uncollected(c)' \subseteq Uncollected(c) \/ Uncollected(c)' \subseteq Batch(c)
  <2>1. ASSUME NEW d \in Calls, Launch(d) \/ LaunchFails(d)
        PROVE  Uncollected(c)' \subseteq Uncollected(c) \/ Uncollected(c)' \subseteq Batch(c)
    <3>1. CASE d = c
      <4>1. \A r \in Rules : task[c][r] \in {"none", "collected"}
        BY <2>1, <3>1 DEF Settled, Launch, LaunchFails
      <4>2. \A r \in Rules : r \notin Batch(c) => task'[c][r] = task[c][r]
        BY <2>1, <3>1 DEF Launch, LaunchFails
      <4> QED BY <4>1, <4>2 DEF Uncollected
    <3>2. CASE d # c
      BY <2>1, <3>2 DEF Launch, LaunchFails, Uncollected
    <3> QED BY <3>1, <3>2
  <2>2. ASSUME NEW d \in Calls, NEW r \in Rules, Collect(d, r)
        PROVE  Uncollected(c)' \subseteq Uncollected(c)
    BY <2>2 DEF Collect, Uncollected
  <2>3. ASSUME NEW d \in Calls, NEW r \in Rules, TaskStep(d, r)
        PROVE  Uncollected(c)' \subseteq Uncollected(c)
    <3>1. /\ task[d][r] \notin {"none", "collected"}
          /\ \E st \in {"check", "ready", "execute", "release"} :
               task' = [task EXCEPT ![d][r] = st]
      BY <2>3 DEF TaskStep, Acquire, AcquireTimeout, DependencyHolds, DependencyFails,
         Execute, ExecuteThrows, Release
    <3> QED BY <3>1 DEF Uncollected
  <2>4. ASSUME \/ \E d \in Calls : \/ Start(d) \/ Unwind(d) \/ NextLevel(d) \/ Return(d)
                                   \/ \E r \in Rules : Rethrow(d, r)
               \/ \E a \in AsyncCalls : AsyncStart(a) \/ AsyncStep(a)
               \/ \E d \in Calls, r \in Rules : ChildStep(d, r)
               \/ Done \/ UNCHANGED vars
        PROVE  task' = task
    BY <2>4 DEF ChildStep, ChildResult, Start, Unwind, NextLevel, Return, Rethrow, AsyncStart, AsyncStep,
       AsyncAcquire, AsyncTimeout, AsyncExecute, AsyncRelease, Done, vars
  <2> QED BY <2>1, <2>2, <2>3, <2>4 DEF Next, CallStep, Uncollected
<1> QED BY <1>2, <1>3, <1>4, BatchSize

(* Who takes an engine has none yet. *)
LEMMA OneEngineStep ==
  TypeOK /\ NoEngineIsLost /\ OneEngineEach /\ [Next]_vars => OneEngineEach'
<1> SUFFICES ASSUME TypeOK, NoEngineIsLost, OneEngineEach, [Next]_vars
             PROVE  OneEngineEach'
  OBVIOUS
<1> USE DEF TypeOK
<1>1. ASSUME NEW h, \A e \in Engines : owner[e] # h,
             \E e \in Free : owner' = [owner EXCEPT ![e] = h]
      PROVE  OneEngineEach'
  BY <1>1 DEF OneEngineEach, Free
<1>2. ASSUME NEW h, GiveBack(h) PROVE OneEngineEach'
  BY <1>2 DEF OneEngineEach, GiveBack
<1>3. ASSUME NEW c \in Calls, NEW r \in Rules, Acquire(c, r) PROVE OneEngineEach'
  <2>1. \A e \in Engines : owner[e] # <<c, r>>
    <3> SUFFICES ASSUME NEW e \in Engines, owner[e] = <<c, r>> PROVE FALSE
      OBVIOUS
    <3>1. <<c, r>> # NoOwner /\ <<c, r>> \notin AsyncCalls
      BY NoOwnerAssumption, HoldersAssumption DEF Holders
    <3>2. PICK d \in Calls, q \in Rules :
            owner[e] = <<d, q>> /\ task[d][q] \in {"check", "execute", "release"}
      <4> HIDE DEF TypeOK
      <4> QED BY <3>1 DEF NoEngineIsLost
    <3>3. d = c /\ q = r
      BY <3>2
    <3> QED BY <1>3, <3>2, <3>3 DEF Acquire
  <2> QED BY <1>1, <1>3, <2>1 DEF Acquire
<1>4. ASSUME NEW a \in AsyncCalls, AsyncAcquire(a) PROVE OneEngineEach'
  <2>1. \A e \in Engines : owner[e] # a
    <3> SUFFICES ASSUME NEW e \in Engines, owner[e] = a PROVE FALSE
      OBVIOUS
    <3>1. a # NoOwner /\ \A d \in Calls, q \in Rules : a # <<d, q>>
      BY NoOwnerAssumption, HoldersAssumption DEF Holders
    <3>2. async[a] \in {"run", "release"}
      <4> HIDE DEF TypeOK
      <4> QED BY <3>1 DEF NoEngineIsLost
    <3> QED BY <1>4, <3>2 DEF AsyncAcquire
  <2> QED BY <1>1, <1>4, <2>1 DEF AsyncAcquire
<1>5. ASSUME NEW c \in Calls, NEW r \in Rules, Release(c, r) PROVE OneEngineEach'
  BY <1>2, <1>5 DEF Release
<1>6. ASSUME NEW a \in AsyncCalls, AsyncRelease(a) PROVE OneEngineEach'
  BY <1>2, <1>6 DEF AsyncRelease
<1>7. ASSUME \/ \E c \in Calls : Start(c) \/ CallStep(c)
             \/ \E c \in Calls, r \in Rules :
                  \/ AcquireTimeout(c, r) \/ DependencyHolds(c, r) \/ DependencyFails(c, r)
                  \/ ExecuteThrows(c, r) \/ ChildStep(c, r)
                  \/ \E o \in {"success", "failure"} : Execute(c, r, o)
             \/ \E a \in AsyncCalls : AsyncStart(a) \/ AsyncTimeout(a) \/ AsyncExecute(a)
             \/ Done \/ UNCHANGED vars
      PROVE  owner' = owner
  BY <1>7 DEF Start, CallStep, Launch, LaunchFails, Collect, Rethrow, Unwind, NextLevel,
     Return, AcquireTimeout, DependencyHolds, DependencyFails, Execute, ExecuteThrows,
     ChildStep, ChildResult, AsyncStart, AsyncTimeout, AsyncExecute, Done, vars
<1>8. CASE owner' = owner
  BY <1>8 DEF OneEngineEach
<1> QED BY <1>3, <1>4, <1>5, <1>6, <1>7, <1>8 DEF Next, TaskStep, AsyncStep

(* With an engine for each sibling and none for the task that waits, the   *)
(* engines would be fewer than the batch is allowed to be.                 *)
LEMMA NotBySiblings ==
  ASSUME TaskInv, NoEngineIsLost, BatchFits, OneEngineEach,
         NEW c \in Calls, NEW r \in Rules, task[c][r] = "acquire"
  PROVE  \E e \in Engines : owner[e] \notin {<<c, q>> : q \in Rules}
<1> SUFFICES ASSUME \A e \in Engines : owner[e] \in {<<c, q>> : q \in Rules} PROVE FALSE
  OBVIOUS
<1> DEFINE sibling == [e \in Engines |-> owner[e][2]]
           others == Uncollected(c) \ {r}
<1>1. \A e \in Engines : owner[e] = <<c, sibling[e]>> /\ sibling[e] \in Rules
  OBVIOUS
<1>2. \A e \in Engines : sibling[e] \in others
  <2> SUFFICES ASSUME NEW e \in Engines
               PROVE  sibling[e] \in Uncollected(c) /\ sibling[e] # r
    OBVIOUS
  <2>1. <<c, sibling[e]>> # NoOwner /\ <<c, sibling[e]>> \notin AsyncCalls
    BY <1>1, NoOwnerAssumption, HoldersAssumption DEF Holders
  <2>2. PICK d \in Calls, q \in Rules :
          owner[e] = <<d, q>> /\ task[d][q] \in {"check", "execute", "release"}
    BY <1>1, <2>1 DEF NoEngineIsLost
  <2>3. d = c /\ q = sibling[e]
    BY <1>1, <2>2
  <2> HIDE DEF sibling
  <2> QED BY <1>1, <2>2, <2>3 DEF Uncollected
<1>3. sibling \in Injection(Engines, others)
  <2>1. \A e, f \in Engines : sibling[e] = sibling[f] => e = f
    <3> SUFFICES ASSUME NEW e \in Engines, NEW f \in Engines, sibling[e] = sibling[f]
                 PROVE  e = f
      OBVIOUS
    <3>1. owner[e] = owner[f] /\ owner[e] # NoOwner
      BY <1>1, NoOwnerAssumption DEF Holders
    <3> QED BY <3>1 DEF OneEngineEach
  <2> QED BY <1>2, <2>1 DEF Injection, IsInjective
<1>4. r \in Uncollected(c) /\ Uncollected(c) \in SUBSET Rules
  BY DEF Uncollected
<1>5. IsFiniteSet(Uncollected(c)) /\ Cardinality(Uncollected(c)) \in Nat
  BY <1>4, RulesFinite
<1>6. IsFiniteSet(others) /\ Cardinality(others) = Cardinality(Uncollected(c)) - 1
  BY <1>4, <1>5, FS_RemoveElement
<1> HIDE DEF others, sibling
<1>7. Cardinality(Engines) <= Cardinality(others)
  BY <1>3, <1>6, FS_Injection
<1>8. Cardinality(Uncollected(c)) <= Cardinality(Engines) /\ Cardinality(Engines) \in Nat
  BY EnginesAssumption, FS_CardinalityType DEF BatchFits, MaxConcurrency
<1> QED BY <1>5, <1>6, <1>7, <1>8

(* StarvedOnlyByOthers: executeParallel never launches so many tasks that  *)
(* one of them finds the pool emptied by its own batch, for any number of  *)
(* calls, rules and engines.                                               *)
THEOREM NeverStarvedByItself == Spec => []StarvedOnlyByOthers
<1>1. Init => BatchFits /\ OneEngineEach
  <2>1. ASSUME Init PROVE BatchFits
    <3>1. \A c \in Calls : Uncollected(c) = {}
      BY <2>1 DEF Init, Uncollected
    <3>2. MaxConcurrency \in Nat
      BY EnginesAssumption, FS_CardinalityType DEF MaxConcurrency
    <3> QED BY <3>1, <3>2, FS_EmptySet DEF BatchFits
  <2> QED BY <2>1 DEF Init, OneEngineEach
<1>2. TaskInv => TypeOK
  BY DEF TaskInv
<1>3. TaskInv /\ NoEngineIsLost /\ BatchFits /\ OneEngineEach => StarvedOnlyByOthers
  BY NotBySiblings DEF StarvedOnlyByOthers
<1> QED BY <1>1, <1>2, <1>3, TaskInvariant, EnginesComeBack, BatchFitsStep, OneEngineStep, PTL
        DEF Spec
=============================================================================
