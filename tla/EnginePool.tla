----------------------------- MODULE EnginePool -----------------------------
(***************************************************************************)
(* fastrules::EnginePool, the pool of LuaEngine clones that parallel and    *)
(* asynchronous execution draw from: a Treiber stack whose head is an       *)
(* std::atomic<std::shared_ptr<EngineNode>>.                                *)
(*                                                                          *)
(* Each shared access is one action, so every interleaving of loads and     *)
(* compare-and-swaps is explored.  A node's address can be given out again  *)
(* by make_shared as soon as no shared_ptr refers to it (Live below): the   *)
(* reference counts are what stands between this stack and the ABA problem. *)
(*                                                                          *)
(* Memory orders are not modelled: head_ is the only atomic, and what a     *)
(* successful CAS publishes is ordered by its release/acquire pair.         *)
(***************************************************************************)
CONSTANTS
  Threads,    \* the threads that call push, pop and tryPop
  Engines,    \* the engines whose pointers the pool stores
  Nodes,      \* the addresses make_shared<EngineNode> can return
  NULL        \* nullptr

ASSUME NullAssumption == NULL \notin Nodes /\ NULL \notin Engines

VARIABLES
  head,       \* head_
  next,       \* next[n]: EngineNode::next
  engine,     \* engine[n]: EngineNode::engine
  pc,         \* where thread t is inside an operation
  op,         \* which operation: "push", "pop", "tryPop" or "none"
  current,    \* the local variable current
  nxt,        \* the shared_ptr copy of current->next passed to the CAS
  node,       \* the local variable node of push
  expired,    \* whether tryPop's deadline has passed
  held        \* held[t]: the engines thread t has for itself

vars == <<head, next, engine, pc, op, current, nxt, node, expired, held>>

Ptr == Nodes \cup {NULL}
Locations == {"idle", "pushCas", "load", "readNext", "popCas"}

(***************************************************************************)
(* Reachability.  ReachFrom(nx, R) is the least set of nodes that contains *)
(* R and is closed under the next pointers nx.                             *)
(***************************************************************************)
ClosedUnder(nx, S) == \A m \in S : nx[m] \in S \cup {NULL}

ReachFrom(nx, R) ==
  {n \in Nodes : \A S \in SUBSET Nodes :
                   R \subseteq S /\ ClosedUnder(nx, S) => n \in S}

Stack == ReachFrom(next, {head} \ {NULL})

(* The nodes some shared_ptr still refers to, directly or through a chain. *)
Roots ==
  ({head} \cup UNION {{current[t], nxt[t], node[t]} : t \in Threads}) \ {NULL}
Live == ReachFrom(next, Roots)

Pushing(t) == IF pc[t] = "pushCas" THEN {engine[node[t]]} ELSE {}

TypeOK ==
  /\ head \in Ptr
  /\ next \in [Nodes -> Ptr]
  /\ engine \in [Nodes -> Engines \cup {NULL}]
  /\ pc \in [Threads -> Locations]
  /\ op \in [Threads -> {"none", "push", "pop", "tryPop"}]
  /\ current \in [Threads -> Ptr]
  /\ nxt \in [Threads -> Ptr]
  /\ node \in [Threads -> Ptr]
  /\ expired \in [Threads -> BOOLEAN]
  /\ held \in [Threads -> SUBSET Engines]

(* An empty pool, and the thread of Workflow::compile with all its engines. *)
Init ==
  /\ head = NULL
  /\ next = [n \in Nodes |-> NULL]
  /\ engine = [n \in Nodes |-> NULL]
  /\ pc = [t \in Threads |-> "idle"]
  /\ op = [t \in Threads |-> "none"]
  /\ current = [t \in Threads |-> NULL]
  /\ nxt = [t \in Threads |-> NULL]
  /\ node = [t \in Threads |-> NULL]
  /\ expired = [t \in Threads |-> FALSE]
  /\ \E t \in Threads :
       held = [u \in Threads |-> IF u = t THEN Engines ELSE {}]

(* Leaving an operation destroys the locals and their references. *)
Return(t) ==
  /\ pc' = [pc EXCEPT ![t] = "idle"]
  /\ current' = [current EXCEPT ![t] = NULL]
  /\ nxt' = [nxt EXCEPT ![t] = NULL]
  /\ node' = [node EXCEPT ![t] = NULL]
  /\ op' = [op EXCEPT ![t] = "none"]
  /\ expired' = [expired EXCEPT ![t] = FALSE]

(***************************************************************************)
(* push: allocate a node, load the head, and swing the head to the node.   *)
(***************************************************************************)
(* A bug: reuse of addresses that only another thread's locals refer to, as *)
(* raw pointers in place of shared_ptr would allow.                         *)
FreshNodesRawPointers ==
  Nodes \ ReachFrom(next, ({head} \cup {node[t] : t \in Threads}) \ {NULL})

(* The addresses make_shared may return. *)
FreshNodes == Nodes \ Live

PushBegin(t, e) ==
  /\ pc[t] = "idle"
  /\ e \in held[t]
  /\ \E n \in FreshNodes :
       /\ node' = [node EXCEPT ![t] = n]
       /\ engine' = [engine EXCEPT ![n] = e]
       /\ next' = [next EXCEPT ![n] = head]
  /\ current' = [current EXCEPT ![t] = head]
  /\ held' = [held EXCEPT ![t] = @ \ {e}]
  /\ pc' = [pc EXCEPT ![t] = "pushCas"]
  /\ op' = [op EXCEPT ![t] = "push"]
  /\ UNCHANGED <<head, nxt, expired>>

PushCasSucceeds(t) ==
  /\ pc[t] = "pushCas"
  /\ head = current[t]
  /\ head' = node[t]
  /\ Return(t)
  /\ UNCHANGED <<next, engine, held>>

(* A bug: the expected value is not refreshed, so the CAS can never succeed. *)
PushCasFailsStale(t) ==
  /\ pc[t] = "pushCas"
  /\ next' = [next EXCEPT ![node[t]] = head]
  /\ UNCHANGED <<head, engine, pc, op, current, nxt, node, expired, held>>

(* A failed CAS stores the head it saw in current; the loop body then links *)
(* the node to it again.                                                    *)
PushCasFails(t) ==
  /\ pc[t] = "pushCas"
  /\ current' = [current EXCEPT ![t] = head]
  /\ next' = [next EXCEPT ![node[t]] = head]
  /\ UNCHANGED <<head, engine, pc, op, nxt, node, expired, held>>

(***************************************************************************)
(* pop and tryPop: load the head, read its next pointer, swing the head.   *)
(***************************************************************************)
PopBegin(t, o) ==
  /\ pc[t] = "idle"
  /\ pc' = [pc EXCEPT ![t] = "load"]
  /\ op' = [op EXCEPT ![t] = o]
  /\ UNCHANGED <<head, next, engine, current, nxt, node, expired, held>>

Load(t) ==
  /\ pc[t] = "load"
  /\ head # NULL
  /\ current' = [current EXCEPT ![t] = head]
  /\ pc' = [pc EXCEPT ![t] = "readNext"]
  /\ UNCHANGED <<head, next, engine, op, nxt, node, expired, held>>

(* pop returns nullptr at once; tryPop only when its deadline has passed,   *)
(* and otherwise spins (a step that changes nothing).                       *)
LoadEmpty(t) ==
  /\ pc[t] = "load"
  /\ head = NULL
  /\ op[t] = "tryPop" => expired[t]
  /\ Return(t)
  /\ UNCHANGED <<head, next, engine, held>>

ReadNext(t) ==
  /\ pc[t] = "readNext"
  /\ nxt' = [nxt EXCEPT ![t] = next[current[t]]]
  /\ pc' = [pc EXCEPT ![t] = "popCas"]
  /\ UNCHANGED <<head, next, engine, op, current, node, expired, held>>

(* A bug: the head is stored without being compared. *)
PopStoreBlindly(t) ==
  /\ pc[t] = "popCas"
  /\ head' = nxt[t]
  /\ held' = [held EXCEPT ![t] = @ \cup {engine[current[t]]}]
  /\ Return(t)
  /\ UNCHANGED <<next, engine>>

PopCasSucceeds(t) ==
  /\ pc[t] = "popCas"
  /\ head = current[t]
  /\ head' = nxt[t]
  /\ held' = [held EXCEPT ![t] = @ \cup {engine[current[t]]}]
  /\ Return(t)
  /\ UNCHANGED <<next, engine>>

(* The expected value is overwritten by the head, then the head is loaded   *)
(* again.                                                                   *)
PopCasFails(t) ==
  /\ pc[t] = "popCas"
  /\ current' = [current EXCEPT ![t] = head]
  /\ nxt' = [nxt EXCEPT ![t] = NULL]
  /\ pc' = [pc EXCEPT ![t] = "load"]
  /\ UNCHANGED <<head, next, engine, op, node, expired, held>>

(* steady_clock passes the deadline of a tryPop. *)
DeadlinePasses(t) ==
  /\ pc[t] # "idle"
  /\ op[t] = "tryPop"
  /\ ~expired[t]
  /\ expired' = [expired EXCEPT ![t] = TRUE]
  /\ UNCHANGED <<head, next, engine, pc, op, current, nxt, node, held>>

(* A thread inside an operation takes its next step. *)
Step(t) ==
  \/ PushCasSucceeds(t)
  \/ PushCasFails(t)
  \/ Load(t)
  \/ LoadEmpty(t)
  \/ ReadNext(t)
  \/ PopCasSucceeds(t)
  \/ PopCasFails(t)

Next ==
  \E t \in Threads :
    \/ \E e \in Engines : PushBegin(t, e)
    \/ \E o \in {"pop", "tryPop"} : PopBegin(t, o)
    \/ Step(t)
    \/ DeadlinePasses(t)

Spec == Init /\ [][Next]_vars

(* Every started operation keeps taking steps, and time passes.             *)
Fairness ==
  \A t \in Threads : WF_vars(Step(t)) /\ WF_vars(DeadlinePasses(t))

FairSpec == Spec /\ Fairness

(***************************************************************************)
(* Properties                                                              *)
(***************************************************************************)
Owned(t) == held[t] \cup Pushing(t)

(* No LuaEngine is ever in the hands of two threads, in two nodes of the   *)
(* stack, or lost: each engine is either with exactly one thread (taken,   *)
(* or on its way back inside push) or in exactly one node of the stack.    *)
OneOwner ==
  /\ \A t, u \in Threads : t # u => Owned(t) \cap Owned(u) = {}
  /\ \A t \in Threads : held[t] \cap Pushing(t) = {}
  /\ \A m, n \in Stack : engine[m] = engine[n] => m = n
  /\ \A e \in Engines :
       (\E n \in Stack : engine[n] = e) <=> (\A t \in Threads : e \notin Owned(t))

(* The lock-free stack implements the abstract pool: a push takes effect    *)
(* at its successful CAS, a pop at its own, and nothing else is visible.    *)
Abs == INSTANCE EnginePoolSpec
         WITH free  <- {engine[n] : n \in Stack},
              owned <- [t \in Threads |-> Owned(t)]
ImplementsPool == Abs!AbstractSpec

(* Lock freedom, as the header's "Lock-free stack" claims: unless all       *)
(* operations are over for good, operations keep completing, even when      *)
(* every thread retries for ever.  A compare_exchange_weak that fails on an *)
(* equal head for ever is left out.                                         *)
Completes(t) == pc[t] # "idle" /\ pc'[t] = "idle"
FailsSpuriously(t) == pc[t] = "popCas" /\ head = current[t] /\ pc'[t] = "load"
LockFree ==
  \/ <>[](\A t \in Threads : pc[t] = "idle")
  \/ []<><<\E t \in Threads : Completes(t)>>_vars
  \/ []<><<\E t \in Threads : FailsSpuriously(t)>>_vars
=============================================================================
