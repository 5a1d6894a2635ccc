-------------------------- MODULE EnginePoolProofs --------------------------
(***************************************************************************)
(* For any number of threads, engines and nodes, no LuaEngine is ever      *)
(* handed to two threads or lost, and the lock-free stack implements the   *)
(* abstract pool.  The stack is the least set of nodes that holds the head *)
(* and is closed under next; the lemmas below use only that it is least,   *)
(* so no induction over the length of the stack is needed.                 *)
(***************************************************************************)
EXTENDS EnginePool, TLAPS

(***************************************************************************)
(* Reachability                                                            *)
(***************************************************************************)

(* What ReachFrom computes contains its roots. *)
LEMMA ReachRoots ==
  ASSUME NEW nx, NEW R \in SUBSET Nodes
  PROVE  R \subseteq ReachFrom(nx, R)
BY DEF ReachFrom

(* It is closed under the next pointers. *)
LEMMA ReachClosed ==
  ASSUME NEW nx \in [Nodes -> Ptr], NEW R
  PROVE  ClosedUnder(nx, ReachFrom(nx, R))
<1> SUFFICES ASSUME NEW m \in ReachFrom(nx, R), nx[m] # NULL
             PROVE  nx[m] \in ReachFrom(nx, R)
  BY DEF ClosedUnder
<1>1. m \in Nodes /\ nx[m] \in Nodes
  BY DEF ReachFrom, Ptr
<1>2. ASSUME NEW S \in SUBSET Nodes, R \subseteq S, ClosedUnder(nx, S)
      PROVE  nx[m] \in S
  BY <1>2 DEF ReachFrom, ClosedUnder
<1> QED BY <1>1, <1>2 DEF ReachFrom

(* It is the least such set. *)
LEMMA ReachLeast ==
  ASSUME NEW nx, NEW R, NEW S \in SUBSET Nodes,
         R \subseteq S, ClosedUnder(nx, S)
  PROVE  ReachFrom(nx, R) \subseteq S
BY DEF ReachFrom

(* More roots reach more. *)
LEMMA ReachMonotone ==
  ASSUME NEW nx, NEW Q, NEW R, R \subseteq Q
  PROVE  ReachFrom(nx, R) \subseteq ReachFrom(nx, Q)
BY DEF ReachFrom

(* Rewriting next pointers of unreachable nodes changes nothing. *)
LEMMA ReachSame ==
  ASSUME NEW nx \in [Nodes -> Ptr], NEW ny \in [Nodes -> Ptr],
         NEW R \in SUBSET Nodes,
         \A m \in ReachFrom(nx, R) : ny[m] = nx[m]
  PROVE  ReachFrom(ny, R) = ReachFrom(nx, R)
<1> DEFINE A == ReachFrom(nx, R)
           B == ReachFrom(ny, R)
<1>0. A \in SUBSET Nodes /\ B \in SUBSET Nodes
  BY DEF ReachFrom
<1>1. ClosedUnder(nx, A) /\ ClosedUnder(ny, B) /\ R \subseteq A /\ R \subseteq B
  BY ReachClosed, ReachRoots
<1>2. ClosedUnder(ny, A)
  BY <1>1 DEF ClosedUnder
<1> HIDE DEF A, B
<1>3. B \subseteq A
  BY <1>0, <1>1, <1>2, ReachLeast DEF B
<1>4. \A m \in A : ny[m] = nx[m]
  BY DEF A
<1>5. ClosedUnder(nx, B)
  BY <1>1, <1>3, <1>4 DEF ClosedUnder
<1>6. A \subseteq B
  BY <1>0, <1>1, <1>5, ReachLeast DEF A
<1> QED BY <1>3, <1>6 DEF A, B

(* Linking a node in front of the head adds that node to the stack. *)
LEMMA ReachPush ==
  ASSUME NEW nx \in [Nodes -> Ptr], NEW n \in Nodes
  PROVE  ReachFrom(nx, {n}) = {n} \cup ReachFrom(nx, {nx[n]} \ {NULL})
<1> DEFINE A == ReachFrom(nx, {nx[n]} \ {NULL})
           B == ReachFrom(nx, {n})
<1>0. /\ {nx[n]} \ {NULL} \in SUBSET Nodes
      /\ {n} \in SUBSET Nodes
  BY DEF Ptr
<1>1. A \in SUBSET Nodes /\ B \in SUBSET Nodes
  BY DEF ReachFrom
<1>2. /\ ClosedUnder(nx, A) /\ {nx[n]} \ {NULL} \subseteq A
      /\ ClosedUnder(nx, B) /\ {n} \subseteq B
  BY <1>0, ReachClosed, ReachRoots
<1> HIDE DEF A, B
<1>3. ClosedUnder(nx, {n} \cup A) /\ {n} \cup A \in SUBSET Nodes
  BY <1>1, <1>2 DEF ClosedUnder
<1>4. B \subseteq {n} \cup A
  BY <1>3, ReachLeast DEF B
<1>5. {nx[n]} \ {NULL} \subseteq B
  BY <1>2 DEF ClosedUnder
<1>6. A \subseteq B
  BY <1>1, <1>2, <1>5, ReachLeast DEF A
<1> QED BY <1>2, <1>4, <1>6 DEF A, B

(***************************************************************************)
(* The inductive invariant                                                 *)
(***************************************************************************)

(* No node of the stack is reachable from its own successor. *)
Acyclic == \A n \in Stack : n \notin ReachFrom(next, {next[n]} \ {NULL})

(* The node of a push is that push's alone until its CAS publishes it. *)
PrivateNodes ==
  \A t \in Threads : pc[t] = "pushCas" =>
    /\ node[t] \in Nodes \ Stack
    /\ next[node[t]] = current[t]
    /\ engine[node[t]] \in Engines
    /\ \A u \in Threads : current[u] # node[t] /\ (u # t => node[u] # node[t])

(* The successor a pop is about to install is that of the node it holds. *)
PopLocals ==
  \A t \in Threads :
    /\ pc[t] \in {"readNext", "popCas"} => current[t] \in Nodes
    /\ pc[t] = "popCas" => nxt[t] = next[current[t]]

StackEngines == \A n \in Stack : engine[n] \in Engines

IInv == TypeOK /\ Acyclic /\ PrivateNodes /\ PopLocals /\ StackEngines /\ OneOwner

(* The invariant holds when the pool is empty. *)
LEMMA InitIInv == Init => IInv
<1> SUFFICES ASSUME Init PROVE IInv
  OBVIOUS
<1> USE NullAssumption
<1>1. TypeOK
  BY DEF Init, TypeOK, Ptr, Locations
<1>2. Stack = {}
  BY DEF Init, Stack, ReachFrom, ClosedUnder
<1>3. Acyclic /\ PrivateNodes /\ PopLocals /\ StackEngines
  BY <1>2 DEF Init, Acyclic, PrivateNodes, PopLocals, StackEngines
<1>4. OneOwner
  BY <1>2 DEF Init, OneOwner, Owned, Pushing
<1> QED BY <1>1, <1>3, <1>4 DEF IInv

(* Type correctness is preserved by every step. *)
LEMMA NextTypeOK == IInv /\ [Next]_vars => TypeOK'
<1> SUFFICES ASSUME IInv, [Next]_vars PROVE TypeOK'
  OBVIOUS
<1> USE DEF IInv, TypeOK, Locations, Return
<1>1. ASSUME NEW t \in Threads, NEW e \in Engines, PushBegin(t, e) PROVE TypeOK'
  BY <1>1 DEF PushBegin, FreshNodes, Ptr
<1>2. ASSUME NEW t \in Threads, NEW o \in {"pop", "tryPop"}, PopBegin(t, o)
      PROVE TypeOK'
  BY <1>2 DEF PopBegin
<1>3. ASSUME NEW t \in Threads, PushCasSucceeds(t) PROVE TypeOK'
  BY <1>3 DEF PushCasSucceeds, Ptr
<1>4. ASSUME NEW t \in Threads, PushCasFails(t) PROVE TypeOK'
  BY <1>4 DEF PushCasFails, Ptr
<1>5. ASSUME NEW t \in Threads, Load(t) \/ LoadEmpty(t) PROVE TypeOK'
  BY <1>5, ZenonT(30) DEF Load, LoadEmpty, Ptr
<1>6. ASSUME NEW t \in Threads, ReadNext(t) PROVE TypeOK'
  BY <1>6 DEF ReadNext, PopLocals, Ptr
<1>7. ASSUME NEW t \in Threads, PopCasSucceeds(t) PROVE TypeOK'
  <2>0. {head} \ {NULL} = {current[t]} /\ {current[t]} \in SUBSET Nodes
    BY <1>7, NullAssumption DEF PopCasSucceeds, PopLocals
  <2>1. current[t] \in Stack
    BY <2>0, ReachRoots DEF Stack
  <2> QED BY <1>7, <2>1 DEF PopCasSucceeds, StackEngines, Ptr
<1>8. ASSUME NEW t \in Threads, PopCasFails(t) PROVE TypeOK'
  BY <1>8 DEF PopCasFails, Ptr
<1>9. ASSUME NEW t \in Threads, DeadlinePasses(t) PROVE TypeOK'
  BY <1>9 DEF DeadlinePasses
<1>10. CASE UNCHANGED vars
  BY <1>10 DEF vars
<1> QED
  BY <1>1, <1>2, <1>3, <1>4, <1>5, <1>6, <1>7, <1>8, <1>9, <1>10
     DEF Next, Step

(* What each step does to the set of nodes in the stack. *)
LEMMA FreshIsUnreachable ==
  ASSUME IInv, NEW n \in FreshNodes
  PROVE  /\ n \in Nodes \ Stack
         /\ n # head
         /\ \A u \in Threads : n # current[u] /\ n # nxt[u] /\ n # node[u]
<1>1. Roots \in SUBSET Nodes
  BY DEF Roots, IInv, TypeOK, Ptr
<1>2. Roots \subseteq Live /\ Stack \subseteq Live
  BY <1>1, ReachRoots, ReachMonotone DEF Live, Stack, Roots
<1> QED BY <1>2, NullAssumption DEF FreshNodes, Roots

(* push may relink a node that is not in the stack (engine_pool.hpp:136). *)
LEMMA RelinkPrivate ==
  ASSUME IInv, head' = head, NEW n \in Nodes \ Stack,
         next' = [next EXCEPT ![n] = head]
  PROVE  Stack' = Stack /\ Acyclic'
<1>1. next \in [Nodes -> Ptr] /\ next' \in [Nodes -> Ptr]
  BY DEF IInv, TypeOK
<1>2. \A m \in Stack : next'[m] = next[m] /\ next[m] \in Ptr
  BY <1>1 DEF Stack, ReachFrom
<1>3. {head} \ {NULL} \in SUBSET Nodes
  BY DEF IInv, TypeOK, Ptr
<1>4. Stack' = Stack
  <2>1. \A m \in ReachFrom(next, {head} \ {NULL}) : next'[m] = next[m]
    BY <1>2 DEF Stack
  <2>2. ReachFrom(next', {head} \ {NULL}) = ReachFrom(next, {head} \ {NULL})
    BY <1>1, <1>3, <2>1, ReachSame, ZenonT(30)
  <2> QED BY <2>2 DEF Stack
<1>5. ASSUME NEW m \in Stack
      PROVE  m \notin ReachFrom(next', {next'[m]} \ {NULL})
  <2>1. ClosedUnder(next, Stack)
    BY <1>1, ReachClosed DEF Stack
  <2>2. Stack \in SUBSET Nodes
    BY DEF Stack, ReachFrom
  <2> DEFINE R == {next[m]} \ {NULL}
  <2>3. R \subseteq Stack /\ R \in SUBSET Nodes
    BY <2>1, <2>2 DEF ClosedUnder
  <2> HIDE DEF R
  <2>4. ReachFrom(next, R) \subseteq Stack
    BY <2>1, <2>2, <2>3, ReachLeast
  <2>5. \A k \in ReachFrom(next, R) : next'[k] = next[k]
    BY <1>2, <2>4
  <2>6. ReachFrom(next', R) = ReachFrom(next, R)
    BY <1>1, <2>3, <2>5, ReachSame
  <2> QED BY <2>6, <1>2 DEF IInv, Acyclic, R
<1> QED BY <1>4, <1>5 DEF Acyclic

(* A successful CAS of push adds exactly its node to the stack. *)
LEMMA PushGrowsStack ==
  ASSUME IInv, NEW t \in Threads, PushCasSucceeds(t)
  PROVE  Stack' = {node[t]} \cup Stack /\ Acyclic'
<1>1. /\ node[t] \in Nodes \ Stack /\ next[node[t]] = head
      /\ head' = node[t] /\ next' = next
  BY DEF IInv, PrivateNodes, PushCasSucceeds
<1>2. next \in [Nodes -> Ptr]
  BY DEF IInv, TypeOK
<1>3. Stack' = ReachFrom(next, {node[t]})
  BY <1>1, NullAssumption DEF Stack
<1>4. Stack' = {node[t]} \cup Stack
  BY <1>1, <1>2, <1>3, ReachPush DEF Stack
<1>5. \A n \in Stack' : n \notin ReachFrom(next, {next[n]} \ {NULL})
  BY <1>1, <1>4 DEF IInv, Acyclic, Stack
<1> QED BY <1>1, <1>4, <1>5 DEF Acyclic

(* A successful CAS of pop removes exactly the old head. *)
LEMMA PopShrinksStack ==
  ASSUME IInv, NEW t \in Threads, PopCasSucceeds(t)
  PROVE  /\ current[t] = head /\ head \in Stack
         /\ Stack' = Stack \ {head} /\ Acyclic'
<1>1. /\ current[t] = head /\ head \in Nodes
      /\ head' = next[head] /\ next' = next
  BY DEF IInv, PopLocals, PopCasSucceeds
<1>2. next \in [Nodes -> Ptr]
  BY DEF IInv, TypeOK
<1>3. Stack = ReachFrom(next, {head})
  BY <1>1, NullAssumption DEF Stack
<1>4. Stack = {head} \cup Stack'
  BY <1>1, <1>2, <1>3, ReachPush DEF Stack
<1>5. head \notin Stack'
  BY <1>1, <1>4 DEF IInv, Acyclic, Stack
<1>6. \A n \in Stack' : n \notin ReachFrom(next, {next[n]} \ {NULL})
  BY <1>4 DEF IInv, Acyclic
<1> QED BY <1>1, <1>4, <1>5, <1>6 DEF Acyclic

(***************************************************************************)
(* Each action preserves the rest of the invariant                         *)
(***************************************************************************)
Locality == PrivateNodes /\ PopLocals /\ StackEngines

(* The head is never the private node of a push under way. *)
LEMMA HeadIsShared ==
  ASSUME IInv, NEW u \in Threads, pc[u] = "pushCas"
  PROVE  head # node[u]
<1>1. node[u] \in Nodes \ Stack
  BY DEF IInv, PrivateNodes
<1>2. head \in Nodes => head \in Stack
  BY ReachRoots, NullAssumption DEF Stack
<1> QED BY <1>1, <1>2

(* The start of push keeps the invariant: make_shared returns no live node. *)
LEMMA PushBeginStep ==
  ASSUME IInv, NEW t \in Threads, NEW e \in Engines, PushBegin(t, e)
  PROVE  Stack' = Stack /\ Acyclic' /\ Locality' /\ OneOwner'
<1> PICK n \in FreshNodes :
      /\ node' = [node EXCEPT ![t] = n]
      /\ engine' = [engine EXCEPT ![n] = e]
      /\ next' = [next EXCEPT ![n] = head]
  BY DEF PushBegin
<1>1. /\ n \in Nodes \ Stack
      /\ n # head
      /\ \A u \in Threads : n # current[u] /\ n # nxt[u] /\ n # node[u]
  BY FreshIsUnreachable
<1>2. Stack' = Stack /\ Acyclic'
  BY <1>1, RelinkPrivate DEF PushBegin
<1>3. Stack \subseteq Nodes
  BY DEF Stack, ReachFrom
<1>4. /\ TypeOK
      /\ PushBegin(t, e)
      /\ \A m \in Stack : engine'[m] = engine[m]
      /\ \A m \in Nodes : m # n => next'[m] = next[m] /\ engine'[m] = engine[m]
      /\ engine'[n] = e /\ next'[n] = head
  BY <1>1, <1>3 DEF IInv, TypeOK
<1>5. PrivateNodes'
  <2> SUFFICES ASSUME NEW u \in Threads, pc'[u] = "pushCas"
               PROVE  /\ node'[u] \in Nodes \ Stack
                      /\ next'[node'[u]] = current'[u]
                      /\ engine'[node'[u]] \in Engines
                      /\ \A v \in Threads :
                           current'[v] # node'[u] /\ (v # u => node'[v] # node'[u])
    BY <1>2 DEF PrivateNodes
  <2>1. CASE u = t
    BY <1>1, <1>4, <2>1 DEF TypeOK, PushBegin
  <2>2. CASE u # t
    BY <1>1, <1>4, <2>2, HeadIsShared DEF IInv, TypeOK, PrivateNodes, PushBegin
  <2> QED BY <2>1, <2>2
<1>6. PopLocals' /\ StackEngines'
  BY <1>1, <1>2, <1>3, <1>4
     DEF IInv, TypeOK, PopLocals, StackEngines, PushBegin, Ptr
<1>7. /\ Owned(t)' = Owned(t)
      /\ \A u \in Threads : u # t => Owned(u)' = Owned(u)
  <2>1. Owned(t)' = held[t]
    BY <1>4 DEF PushBegin, TypeOK, Owned, Pushing
  <2>2. Owned(t) = held[t]
    BY DEF PushBegin, Owned, Pushing
  <2>3. ASSUME NEW u \in Threads, u # t PROVE Owned(u)' = Owned(u)
    BY <1>1, <1>4, <2>3 DEF PushBegin, TypeOK, Owned, Pushing, IInv, PrivateNodes
  <2> QED BY <2>1, <2>2, <2>3
<1>8. \A u \in Threads : (held[u] \cap Pushing(u))' = {}
  <2>1. (held[t] \cap Pushing(t))' = {}
    BY <1>4 DEF PushBegin, TypeOK, Pushing
  <2>2. ASSUME NEW u \in Threads, u # t PROVE (held[u] \cap Pushing(u))' = {}
    BY <1>1, <1>4, <2>2 DEF PushBegin, TypeOK, Pushing, IInv, PrivateNodes, OneOwner
  <2> QED BY <2>1, <2>2
<1>9. OneOwner'
  BY <1>2, <1>4, <1>7, <1>8 DEF IInv, OneOwner
<1> QED BY <1>2, <1>5, <1>6, <1>9 DEF Locality

(* A failed CAS of push keeps the invariant. *)
LEMMA PushCasFailsStep ==
  ASSUME IInv, NEW t \in Threads, PushCasFails(t)
  PROVE  Stack' = Stack /\ Acyclic' /\ Locality' /\ OneOwner'
<1>1. node[t] \in Nodes \ Stack
  BY DEF IInv, PrivateNodes, PushCasFails
<1>2. Stack' = Stack /\ Acyclic'
  BY <1>1, RelinkPrivate DEF PushCasFails
<1>4. PrivateNodes'
  <2> SUFFICES ASSUME NEW u \in Threads, pc'[u] = "pushCas"
               PROVE  /\ node[u] \in Nodes \ Stack
                      /\ next'[node[u]] = current'[u]
                      /\ engine[node[u]] \in Engines
                      /\ \A v \in Threads :
                           current'[v] # node[u] /\ (v # u => node[v] # node[u])
    BY <1>2 DEF PrivateNodes, PushCasFails
  <2>1. head # node[u]
    BY HeadIsShared DEF PushCasFails
  <2> QED BY <1>1, <2>1 DEF IInv, TypeOK, PrivateNodes, PushCasFails
<1>5. PopLocals' /\ StackEngines'
  BY <1>1, <1>2 DEF IInv, TypeOK, PopLocals, PrivateNodes, StackEngines, PushCasFails
<1>6. OneOwner'
  BY <1>2 DEF IInv, OneOwner, Owned, Pushing, PushCasFails
<1> QED BY <1>2, <1>4, <1>5, <1>6 DEF Locality

(* A successful CAS of push keeps the invariant. *)
LEMMA PushCasSucceedsStep ==
  ASSUME IInv, NEW t \in Threads, PushCasSucceeds(t)
  PROVE  Acyclic' /\ Locality' /\ OneOwner'
<1>1. Stack' = {node[t]} \cup Stack /\ Acyclic'
  BY PushGrowsStack
<1>2. /\ TypeOK /\ pc[t] = "pushCas"
      /\ node[t] \in Nodes \ Stack /\ engine[node[t]] \in Engines
      /\ engine' = engine /\ next' = next /\ held' = held
  BY DEF IInv, PrivateNodes, PushCasSucceeds
<1>3. PrivateNodes'
  BY <1>1, <1>2, NullAssumption
     DEF IInv, TypeOK, PrivateNodes, PushCasSucceeds, Return
<1>4. PopLocals' /\ StackEngines'
  BY <1>1, <1>2 DEF IInv, TypeOK, PopLocals, StackEngines, PushCasSucceeds, Return
<1>5. /\ Owned(t) = held[t] \cup {engine[node[t]]} /\ engine[node[t]] \notin held[t]
      /\ Owned(t)' = held[t] /\ Pushing(t)' = {}
      /\ \A u \in Threads : u # t => Owned(u)' = Owned(u) /\ Pushing(u)' = Pushing(u)
  BY <1>2 DEF IInv, TypeOK, OneOwner, Owned, Pushing, PushCasSucceeds, Return
<1>6. OneOwner'
  BY <1>1, <1>2, <1>5 DEF IInv, OneOwner
<1> QED BY <1>1, <1>3, <1>4, <1>6 DEF Locality

(* A successful CAS of pop keeps the invariant: the engine moves to the thread. *)
LEMMA PopCasSucceedsStep ==
  ASSUME IInv, NEW t \in Threads, PopCasSucceeds(t)
  PROVE  Acyclic' /\ Locality' /\ OneOwner'
<1>1. /\ current[t] = head /\ head \in Stack
      /\ Stack' = Stack \ {head} /\ Acyclic'
  BY PopShrinksStack
<1>2. /\ TypeOK /\ pc[t] = "popCas"
      /\ engine' = engine /\ next' = next
      /\ held' = [held EXCEPT ![t] = @ \cup {engine[head]}]
      /\ engine[head] \in Engines
  BY <1>1 DEF IInv, StackEngines, PopCasSucceeds
<1>3. PrivateNodes'
  BY <1>1, <1>2, NullAssumption
     DEF IInv, TypeOK, PrivateNodes, PopCasSucceeds, Return
<1>4. PopLocals' /\ StackEngines'
  BY <1>1, <1>2 DEF IInv, TypeOK, PopLocals, StackEngines, PopCasSucceeds, Return
<1>5. /\ Owned(t) = held[t] /\ Owned(t)' = held[t] \cup {engine[head]}
      /\ Pushing(t)' = {}
      /\ \A u \in Threads : u # t => /\ Owned(u)' = Owned(u)
                                   /\ Pushing(u)' = Pushing(u)
                                   /\ held'[u] = held[u]
  BY <1>2 DEF IInv, TypeOK, Owned, Pushing, PopCasSucceeds, Return
<1>6. OneOwner'
  BY <1>1, <1>2, <1>5 DEF IInv, OneOwner
<1> QED BY <1>1, <1>3, <1>4, <1>6 DEF Locality

(* The remaining actions touch only a thread's locals. *)
LEMMA LocalStep ==
  ASSUME IInv, NEW t \in Threads,
         \/ \E o \in {"pop", "tryPop"} : PopBegin(t, o)
         \/ Load(t) \/ LoadEmpty(t) \/ ReadNext(t)
         \/ PopCasFails(t) \/ DeadlinePasses(t)
  PROVE  Stack' = Stack /\ Acyclic' /\ Locality' /\ OneOwner'
<1> USE DEF PopBegin, Load, LoadEmpty, ReadNext, PopCasFails, DeadlinePasses, Return
<1>1. head' = head /\ next' = next /\ engine' = engine /\ held' = held
  OBVIOUS
<1>2. Stack' = Stack /\ Acyclic'
  BY <1>1 DEF IInv, Stack, Acyclic
<1>3. head \in Stack \/ head = NULL
  BY ReachRoots DEF Stack, IInv, TypeOK, Ptr
<1>4. PrivateNodes'
  BY <1>1, <1>2, <1>3, NullAssumption DEF IInv, TypeOK, PrivateNodes
<1>5. PopLocals' /\ StackEngines'
  BY <1>1, <1>2 DEF IInv, TypeOK, PopLocals, StackEngines, Ptr
<1>6. \A u \in Threads : Owned(u)' = Owned(u) /\ Pushing(u)' = Pushing(u)
  BY <1>1 DEF IInv, TypeOK, Owned, Pushing
<1>7. OneOwner'
  BY <1>1, <1>2, <1>6 DEF IInv, OneOwner
<1> QED BY <1>2, <1>4, <1>5, <1>7 DEF Locality

(* Every step of every thread keeps the invariant. *)
LEMMA NextIInv == IInv /\ [Next]_vars => IInv'
<1> SUFFICES ASSUME IInv, [Next]_vars PROVE IInv'
  OBVIOUS
<1>1. TypeOK'
  BY NextTypeOK
<1>2. ASSUME NEW t \in Threads, NEW e \in Engines, PushBegin(t, e) PROVE IInv'
  BY <1>1, <1>2, PushBeginStep DEF IInv, Locality
<1>3. ASSUME NEW t \in Threads, PushCasSucceeds(t) PROVE IInv'
  BY <1>1, <1>3, PushCasSucceedsStep DEF IInv, Locality
<1>4. ASSUME NEW t \in Threads, PushCasFails(t) PROVE IInv'
  BY <1>1, <1>4, PushCasFailsStep DEF IInv, Locality
<1>5. ASSUME NEW t \in Threads, PopCasSucceeds(t) PROVE IInv'
  BY <1>1, <1>5, PopCasSucceedsStep DEF IInv, Locality
<1>6. ASSUME NEW t \in Threads,
             \/ \E o \in {"pop", "tryPop"} : PopBegin(t, o)
             \/ Load(t) \/ LoadEmpty(t) \/ ReadNext(t)
             \/ PopCasFails(t) \/ DeadlinePasses(t)
      PROVE IInv'
  BY <1>1, <1>6, LocalStep DEF IInv, Locality
<1>7. CASE UNCHANGED vars
  <2>1. Stack' = Stack /\ Acyclic'
    BY <1>7 DEF vars, Stack, Acyclic, IInv
  <2>2. PrivateNodes' /\ PopLocals' /\ StackEngines'
    BY <1>7, <2>1 DEF vars, IInv, PrivateNodes, PopLocals, StackEngines
  <2>3. OneOwner'
    BY <1>7, <2>1 DEF vars, IInv, OneOwner, Owned, Pushing
  <2> QED BY <1>1, <2>1, <2>2, <2>3 DEF IInv
<1> QED
  BY <1>2, <1>3, <1>4, <1>5, <1>6, <1>7 DEF Next, Step

(***************************************************************************)
(* The theorems                                                            *)
(***************************************************************************)

(* Every variable of the pool keeps its type: in particular pop never adds *)
(* a nullptr or a node without an engine to what a thread holds.           *)
THEOREM TypeCorrect == Spec => []TypeOK
<1>1. IInv => TypeOK
  BY DEF IInv
<1> QED BY InitIInv, NextIInv, <1>1, PTL DEF Spec

(* push, pop and tryPop never give an engine to two threads, never store   *)
(* it twice and never lose it, whatever the interleaving, whatever         *)
(* addresses make_shared reuses and whether or not a CAS fails spuriously. *)
THEOREM EnginesHaveOneOwner == Spec => []OneOwner
<1>1. IInv => OneOwner
  BY DEF IInv
<1> QED BY InitIInv, NextIInv, <1>1, PTL DEF Spec

(* The Treiber stack implements the abstract pool of EnginePoolSpec. *)
THEOREM PoolRefinement == Spec => ImplementsPool
<1>1. Init => Abs!SpecInit
  <2> SUFFICES ASSUME Init PROVE Abs!SpecInit
    OBVIOUS
  <2>1. Stack = {}
    BY NullAssumption DEF Init, Stack, ReachFrom, ClosedUnder
  <2>2. PICK t \in Threads : held = [u \in Threads |-> IF u = t THEN Engines ELSE {}]
    BY DEF Init
  <2>3. [u \in Threads |-> Owned(u)] = held
    BY <2>2 DEF Init, Owned, Pushing
  <2> QED BY <2>1, <2>2, <2>3 DEF Abs!SpecInit
<1>2. IInv /\ [Next]_vars => [Abs!SpecNext]_(Abs!specVars)
  <2> SUFFICES ASSUME IInv, [Next]_vars PROVE [Abs!SpecNext]_(Abs!specVars)
    OBVIOUS
  <2>1. ASSUME NEW t \in Threads, NEW e \in Engines, PushBegin(t, e)
        PROVE  UNCHANGED Abs!specVars
    <3>1. Stack' = Stack /\ OneOwner'
      BY <2>1, PushBeginStep
    <3>2. PICK n \in FreshNodes :
            /\ node' = [node EXCEPT ![t] = n]
            /\ engine' = [engine EXCEPT ![n] = e]
      BY <2>1 DEF PushBegin
    <3>3. n \in Nodes \ Stack /\ \A u \in Threads : n # node[u]
      BY FreshIsUnreachable
    <3>4. \A m \in Stack : engine'[m] = engine[m]
      BY <3>2, <3>3 DEF IInv, TypeOK, Stack, ReachFrom
    <3>5. \A u \in Threads : Owned(u)' = Owned(u)
      BY <2>1, <3>2, <3>3
         DEF IInv, TypeOK, PushBegin, Owned, Pushing, PrivateNodes
    <3> QED BY <3>1, <3>4, <3>5 DEF Abs!specVars
  <2>2. ASSUME NEW t \in Threads, PushCasSucceeds(t)
        PROVE  Abs!Put(t, engine[node[t]])
    <3>1. Stack' = {node[t]} \cup Stack
      BY <2>2, PushGrowsStack
    <3>2. /\ TypeOK /\ pc[t] = "pushCas" /\ engine' = engine /\ held' = held
          /\ engine[node[t]] \in Engines /\ engine[node[t]] \notin held[t]
      BY <2>2 DEF IInv, PrivateNodes, PushCasSucceeds, OneOwner, Pushing
    <3>3. /\ Owned(t) = held[t] \cup {engine[node[t]]} /\ Owned(t)' = held[t]
          /\ \A u \in Threads : u # t => Owned(u)' = Owned(u)
      BY <2>2, <3>2 DEF TypeOK, Owned, Pushing, PushCasSucceeds, Return
    <3>4. Owned(t)' = Owned(t) \ {engine[node[t]]}
      BY <3>2, <3>3
    <3> QED BY <3>1, <3>2, <3>3, <3>4 DEF Abs!Put
  <2>3. ASSUME NEW t \in Threads, PopCasSucceeds(t)
        PROVE  Abs!Take(t, engine[head])
    <3>1. current[t] = head /\ head \in Stack /\ Stack' = Stack \ {head}
      BY <2>3, PopShrinksStack
    <3>2. /\ TypeOK /\ pc[t] = "popCas" /\ engine' = engine
          /\ held' = [held EXCEPT ![t] = @ \cup {engine[head]}]
      BY <2>3, <3>1 DEF IInv, PopCasSucceeds
    <3>3. /\ Owned(t)' = Owned(t) \cup {engine[head]}
          /\ \A u \in Threads : u # t => Owned(u)' = Owned(u)
      BY <2>3, <3>2 DEF TypeOK, Owned, Pushing, PopCasSucceeds, Return
    <3>4. {engine[n] : n \in Stack \ {head}} = {engine[n] : n \in Stack} \ {engine[head]}
      BY <3>1 DEF IInv, OneOwner
    <3> QED BY <3>1, <3>2, <3>3, <3>4 DEF Abs!Take
  <2>4. ASSUME NEW t \in Threads, PushCasFails(t)
        PROVE  UNCHANGED Abs!specVars
    <3>1. Stack' = Stack
      BY <2>4, PushCasFailsStep
    <3>2. \A u \in Threads : Owned(u)' = Owned(u)
      BY <2>4 DEF PushCasFails, Owned, Pushing
    <3> QED BY <2>4, <3>1, <3>2 DEF Abs!specVars, PushCasFails
  <2>5. ASSUME NEW t \in Threads,
               \/ \E o \in {"pop", "tryPop"} : PopBegin(t, o)
               \/ Load(t) \/ LoadEmpty(t) \/ ReadNext(t)
               \/ PopCasFails(t) \/ DeadlinePasses(t)
        PROVE  UNCHANGED Abs!specVars
    <3> USE DEF PopBegin, Load, LoadEmpty, ReadNext, PopCasFails, DeadlinePasses, Return
    <3>1. Stack' = Stack
      BY <2>5, LocalStep
    <3>2. engine' = engine /\ held' = held
      BY <2>5
    <3>3. \A u \in Threads : Owned(u)' = Owned(u)
      BY <2>5, <3>2 DEF IInv, TypeOK, Owned, Pushing
    <3> QED BY <3>1, <3>2, <3>3 DEF Abs!specVars
  <2>6. CASE UNCHANGED vars
    BY <2>6 DEF vars, Abs!specVars, Stack, Owned, Pushing
  <2>7. ASSUME NEW t \in Threads, PushCasSucceeds(t) \/ PopCasSucceeds(t)
        PROVE  Abs!SpecNext
    <3>1. CASE PushCasSucceeds(t)
      <4>1. engine[node[t]] \in Engines
        BY <3>1 DEF IInv, PrivateNodes, PushCasSucceeds
      <4>2. Abs!Put(t, engine[node[t]])
        BY <2>2, <3>1
      <4> QED BY <4>1, <4>2 DEF Abs!SpecNext, Abs!Put, Abs!Take
    <3>2. CASE PopCasSucceeds(t)
      <4>1. engine[head] \in Engines
        BY <3>2, PopShrinksStack DEF IInv, StackEngines
      <4>2. Abs!Take(t, engine[head])
        BY <2>3, <3>2
      <4> QED BY <4>1, <4>2 DEF Abs!SpecNext, Abs!Put, Abs!Take
    <3> QED BY <2>7, <3>1, <3>2
  <2> QED
    BY <2>1, <2>4, <2>5, <2>6, <2>7 DEF Next, Step
<1> QED
  BY InitIInv, NextIInv, <1>1, <1>2, PTL DEF Spec, ImplementsPool, Abs!AbstractSpec
=============================================================================
