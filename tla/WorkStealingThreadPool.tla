----------------------- MODULE WorkStealingThreadPool -----------------------
(***************************************************************************)
(* WorkStealingThreadPool: one queue and one thread per worker.  A worker  *)
(* takes the newest task of its own queue, or else the oldest task of a    *)
(* queue picked at random.  enqueue looks at stop_ first and pushes later, *)
(* so the destructor can begin between the two.  A task may itself call    *)
(* enqueue on the pool that runs it.                                       *)
(***************************************************************************)
EXTENDS Integers, Sequences, FiniteSets

CONSTANTS
  numThreads,  \* the constructor's argument
  Tasks,       \* the tasks anybody may enqueue, each once
  Clients,     \* threads outside of the pool that call enqueue
  NoTask       \* the absent task

ASSUME NumThreadsAssumption == numThreads \in Nat
ASSUME NoTaskAssumption == NoTask \notin Tasks

(* The constructor starts at least one worker. *)
Workers == 1 .. (IF numThreads = 0 THEN 1 ELSE numThreads)

VARIABLES
  localQueues,  \* localQueues[w]: tasks, oldest first
  stop,         \* stop_
  wpc,          \* wpc[w]: where worker w is in workerLoop
  stopping,     \* stopping[w]: what w read from stop_ in this round
  task,         \* task[w]: the task w took
  scan,         \* scan[w]: the queue w looks at next before it leaves
  push,         \* push[p]: the task whose push is ahead of p in enqueue
  status        \* status[t]: what became of task t

poolVars == <<localQueues, stop, wpc, stopping, task, scan, push, status>>

Producers == Clients \cup Workers

PoolTypeOK ==
  /\ localQueues \in [Workers -> Seq(Tasks)]
  /\ stop \in {"running", "stop", "joined"}
  /\ wpc \in [Workers -> {"load", "pop", "steal", "run", "scan", "exit"}]
  /\ stopping \in [Workers -> BOOLEAN]
  /\ task \in [Workers -> Tasks \cup {NoTask}]
  /\ scan \in [Workers -> 1 .. Cardinality(Workers)]
  /\ push \in [Producers -> Tasks \cup {NoTask}]
  /\ status \in [Tasks -> {"new", "checked", "queued", "late", "refused",
                           "running", "done"}]

PoolInit ==
  /\ localQueues = [w \in Workers |-> <<>>]
  /\ stop = "running"
  /\ wpc = [w \in Workers |-> "load"]
  /\ stopping = [w \in Workers |-> FALSE]
  /\ task = [w \in Workers |-> NoTask]
  /\ scan = [w \in Workers |-> 1]
  /\ push = [p \in Producers |-> NoTask]
  /\ status = [t \in Tasks |-> "new"]

-----------------------------------------------------------------------------
(* enqueue, first half: p reads stop_ and throws if shutdown has begun. *)
CheckStop(p, t) ==
  /\ status[t] = "new" /\ push[p] = NoTask
  /\ IF stop # "running"
       THEN status' = [status EXCEPT ![t] = "refused"] /\ UNCHANGED push
       ELSE /\ status' = [status EXCEPT ![t] = "checked"]
            /\ push' = [push EXCEPT ![p] = t]
  /\ UNCHANGED <<localQueues, stop, wpc, stopping, task, scan>>

(* SimpleWorkStealingQueue: push at the back, pop the back, steal the      *)
(* front, all under its mutex.                                             *)
PushBack(q, t) == Append(q, t)
Back(q) == q[Len(q)]
PopBack(q) == SubSeq(q, 1, Len(q) - 1)
Front(q) == q[1]
StealFront(q) == SubSeq(q, 2, Len(q))

(* enqueue, second half: the push to the queue w the generator picked.  A   *)
(* push by an outside thread after the destructor began is marked late.     *)
Push(p, w) ==
  /\ push[p] # NoTask
  /\ localQueues' = [localQueues EXCEPT ![w] = PushBack(@, push[p])]
  /\ status' = [status EXCEPT ![push[p]] =
       IF p \in Clients /\ stop # "running" THEN "late" ELSE "queued"]
  /\ push' = [push EXCEPT ![p] = NoTask]
  /\ UNCHANGED <<stop, wpc, stopping, task, scan>>

-----------------------------------------------------------------------------
(* workerLoop.  Each round reads stop_ before it looks for work. *)
LoadStop(w) ==
  /\ wpc[w] = "load"
  /\ stopping' = [stopping EXCEPT ![w] = (stop # "running")]
  /\ wpc' = [wpc EXCEPT ![w] = "pop"]
  /\ UNCHANGED <<localQueues, stop, task, scan, push, status>>

Got(w, t, q, rest) ==
  /\ task' = [task EXCEPT ![w] = t]
  /\ localQueues' = [localQueues EXCEPT ![q] = rest]
  /\ status' = [status EXCEPT ![t] = "running"]
  /\ wpc' = [wpc EXCEPT ![w] = "run"]
  /\ UNCHANGED <<stop, stopping, scan, push>>

Pop(w) ==
  /\ wpc[w] = "pop"
  /\ IF localQueues[w] = <<>>
       THEN /\ wpc' = [wpc EXCEPT ![w] = "steal"]
            /\ UNCHANGED <<localQueues, stop, stopping, task, scan, push, status>>
       ELSE Got(w, Back(localQueues[w]), w, PopBack(localQueues[w]))

(* One of the random attempts meets a queue with work. *)
Steal(w) ==
  /\ wpc[w] = "steal"
  /\ \E v \in Workers \ {w} :
       /\ localQueues[v] # <<>>
       /\ Got(w, Front(localQueues[v]), v, StealFront(localQueues[v]))

(* A bug: a worker without work never leaves. *)
StealMissSleeps(w) ==
  /\ wpc[w] = "steal"
  /\ wpc' = [wpc EXCEPT ![w] = "load"]
  /\ UNCHANGED <<localQueues, stop, stopping, task, scan, push, status>>

(* No attempt met one: the victims are random, so work elsewhere does not  *)
(* prevent this.  A worker that saw stop_ now looks at every queue, the    *)
(* others sleep and start again.                                           *)
StealMiss(w) ==
  /\ wpc[w] = "steal"
  /\ wpc' = [wpc EXCEPT ![w] = IF stopping[w] THEN "scan" ELSE "load"]
  /\ scan' = [scan EXCEPT ![w] = 1]
  /\ UNCHANGED <<localQueues, stop, stopping, task, push, status>>

(* The queues are looked at one by one, each under its own mutex. *)
Scan(w) ==
  /\ wpc[w] = "scan"
  /\ IF localQueues[scan[w]] # <<>>
       THEN wpc' = [wpc EXCEPT ![w] = "load"] /\ UNCHANGED scan
       ELSE IF scan[w] = Cardinality(Workers)
              THEN wpc' = [wpc EXCEPT ![w] = "exit"] /\ UNCHANGED scan
              ELSE scan' = [scan EXCEPT ![w] = @ + 1] /\ UNCHANGED wpc
  /\ UNCHANGED <<localQueues, stop, stopping, task, push, status>>

(* The task returned or threw (what it throws is logged and dropped). *)
Finish(w) ==
  /\ wpc[w] = "run" /\ push[w] = NoTask
  /\ status' = [status EXCEPT ![task[w]] = "done"]
  /\ task' = [task EXCEPT ![w] = NoTask]
  /\ wpc' = [wpc EXCEPT ![w] = "load"]
  /\ UNCHANGED <<localQueues, stop, stopping, scan, push>>

(* What a worker does between two tasks. *)
Seek(w) == LoadStop(w) \/ Pop(w) \/ Steal(w) \/ StealMiss(w) \/ Scan(w)

-----------------------------------------------------------------------------
(* The destructor: stop_ is set, then every worker is joined. *)
BeginStop ==
  /\ stop = "running"
  /\ stop' = "stop"
  /\ UNCHANGED <<localQueues, wpc, stopping, task, scan, push, status>>

Join ==
  /\ stop = "stop"
  /\ \A w \in Workers : wpc[w] = "exit"
  /\ stop' = "joined"
  /\ UNCHANGED <<localQueues, wpc, stopping, task, scan, push, status>>

-----------------------------------------------------------------------------
(* The pool on its own: clients and running tasks enqueue what they like.  *)
PoolNext ==
  \/ \E c \in Clients, t \in Tasks : CheckStop(c, t)
  \/ \E w \in Workers, t \in Tasks : wpc[w] = "run" /\ CheckStop(w, t)
  \/ \E p \in Producers, w \in Workers : Push(p, w)
  \/ \E w \in Workers : Seek(w) \/ Finish(w)
  \/ BeginStop \/ Join

(* Threads that can run do.  SF on Steal: the victims are drawn afresh and  *)
(* independently in every attempt of every round.                           *)
PoolFairness ==
  /\ \A w \in Workers : WF_poolVars(Seek(w)) /\ WF_poolVars(Finish(w))
  /\ \A w \in Workers : SF_poolVars(Steal(w))
  /\ \A p \in Producers : WF_poolVars(\E w \in Workers : Push(p, w))
  /\ WF_poolVars(Join)

-----------------------------------------------------------------------------
Occurrences(t) ==
  Cardinality({w \in Workers : task[w] = t})
  + Cardinality(UNION {{<<w, i>> : i \in {n \in DOMAIN localQueues[w] : localQueues[w][n] = t}} :
                         w \in Workers})

(* An accepted task is in one place until it ran, whichever of pop and     *)
(* steal takes it, and it never comes back.                                *)
NoTaskTwice ==
  \A t \in Tasks :
    Occurrences(t) = (IF status[t] \in {"queued", "late", "running"} THEN 1 ELSE 0)

(* Workers drain every queue before they leave: once the destructor has    *)
(* joined them, the only tasks without a result are those an outside       *)
(* thread pushed after it had begun (enqueue checks and pushes in two      *)
(* steps).  Tasks enqueued by tasks during the shutdown are not among them. *)
JoinedMeansDrained ==
  stop = "joined" =>
    \A t \in Tasks : status[t] \notin {"queued", "running"}

(* A task that enqueue accepted is run, during a shutdown too. *)
AcceptedTaskRuns ==
  \A t \in Tasks : (status[t] = "queued") ~> (status[t] = "done")

(* The destructor returns. *)
StopEnds == (stop = "stop") ~> (stop = "joined")
=============================================================================
