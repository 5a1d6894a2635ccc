------------------------------- MODULE MCAsync -------------------------------
(* What runs beside the caller's thread: the asynchronous workflow with its  *)
(* thread pool, the pool by itself under tasks that enqueue tasks, the       *)
(* context that rules share, and the executor that gives a function a thread *)
(* and a time.  part says which of them a behaviour is about; the others     *)
(* stay as they begin.                                                       *)
(*                                                                           *)
(* Three rules: a chain over two levels, a skipped dependency, two rules of  *)
(* one name, two rules of one id and a cycle, refused and, in a workflow     *)
(* that was changed after it was validated, let through, and a cycle behind  *)
(* a shared name, which validate does not see.                               *)
EXTENDS AsyncWorkflow, RuleContext, TimeoutExecutor

VARIABLE part

MCRules == 1 .. 3
MCTasks == Clients \X MCRules
Flow(id, name, dep, active, validated) ==
  [id |-> id, name |-> name, dep |-> dep, active |-> active, validated |-> validated]
abc == <<"a", "b", "c">>
All == <<TRUE, TRUE, TRUE>>
Independent == Flow(<<1, 2, 3>>, abc, <<NoName, NoName, NoName>>, <<TRUE, TRUE, FALSE>>, FALSE)
MCWorkflows ==
  { Independent,
    Flow(<<1, 2, 3>>, abc, <<NoName, "a", "a">>, <<TRUE, TRUE, FALSE>>, FALSE),
    Flow(<<1, 2, 3>>, abc, <<NoName, "a", "b">>, <<FALSE, TRUE, TRUE>>, FALSE),
    Flow(<<1, 2, 3>>, <<"a", "a", "c">>, <<NoName, NoName, "a">>, All, FALSE),
    Flow(<<1, 2, 2>>, abc, <<NoName, NoName, "a">>, All, TRUE),
    Flow(<<1, 2, 2>>, abc, <<NoName, NoName, "a">>, All, FALSE),
    Flow(<<1, 2, 3>>, abc, <<NoName, "b", "b">>, All, TRUE),
    Flow(<<1, 2, 3>>, abc, <<NoName, "c", "b">>, All, FALSE),
    Flow(<<1, 2, 3>>, <<"a", "b", "b">>, <<"b", NoName, "a">>, All, FALSE) }
MCAssignmentPairs == {<<"a", "b">>, <<"b", "c">>}

flowVars == <<callVars, engines, borrowed, answer>>
asyncVars == <<vars, contextVars, timeoutVars, part>>

AsyncInit ==
  /\ Init /\ ContextInit /\ TimeoutInit
  /\ part \in {"workflow", "pool", "context", "timeout"}
  /\ part # "workflow" => wf = Independent

Workflow1 == part = "workflow" /\ Next /\ UNCHANGED <<contextVars, timeoutVars, part>>
Pool1 == part = "pool" /\ PoolNext /\ UNCHANGED <<flowVars, contextVars, timeoutVars, part>>
Context1 == part = "context" /\ ContextNext /\ UNCHANGED <<vars, timeoutVars, part>>
Timeout1 == part = "timeout" /\ TimeoutNext /\ UNCHANGED <<vars, contextVars, part>>

AsyncNext == Workflow1 \/ Pool1 \/ Context1 \/ Timeout1

(* The fairness of the part that a behaviour is about (Fairness and          *)
(* PoolFairness with part in the actions, and a destructor that goes on).    *)
(* Where nothing is assigned or called, the others' asks for no step.        *)
AsyncFairness ==
  /\ \A c \in Clients : WF_vars(part = "workflow" /\ CallerStep(c))
  /\ \A w \in Workers :
       /\ WF_vars(part = "workflow" /\ WorkerStep(w))
       /\ WF_poolVars(part = "pool" /\ Seek(w)) /\ WF_poolVars(part = "pool" /\ Finish(w))
       /\ SF_poolVars(Steal(w))
  /\ \A p \in Producers : WF_poolVars(part = "pool" /\ \E w \in Workers : Push(p, w))
  /\ WF_poolVars(Join)
  /\ ContextFairness /\ TimeoutFairness

AsyncSpec == AsyncInit /\ [][AsyncNext]_asyncVars /\ AsyncFairness

(* What threads share beside the workflow stays whole: a copied context is   *)
(* of one moment, and a cancelled call stays its own affair.                 *)
SharedStateHolds == CopyIsOneMoment /\ TimeoutsAreOwn

(* Accepted tasks run, the destructor of the pool returns, assignments       *)
(* between contexts end, and a function that was timed out hears of it.      *)
EverythingEnds == AcceptedTaskRuns /\ StopEnds /\ AssignmentEnds /\ CancelIsSeen
=============================================================================
