--------------------------- MODULE EnginePoolSpec ---------------------------
(***************************************************************************)
(* What EnginePool promises to its callers, without its lock-free stack: a *)
(* set of free engines from which a thread takes one engine for itself and *)
(* to which it gives that engine back.  A LuaEngine is not thread-safe, so *)
(* "for itself" is the whole point of the class.                           *)
(***************************************************************************)
CONSTANTS
  Threads,  \* the threads that call push, pop and tryPop
  Engines   \* the LuaEngine clones of Workflow::enginePoolStorage_

VARIABLES
  free,     \* the engines the pool can hand out
  owned     \* owned[t]: the engines thread t has taken and not given back

specVars == <<free, owned>>

SpecTypeOK ==
  /\ free \in SUBSET Engines
  /\ owned \in [Threads -> SUBSET Engines]

(* The pool starts empty and one thread owns every engine: Workflow::compile *)
(* creates the clones and then pushes them.                                  *)
SpecInit ==
  /\ free = {}
  /\ \E t \in Threads :
       owned = [u \in Threads |-> IF u = t THEN Engines ELSE {}]

(* push(e) takes effect. *)
Put(t, e) ==
  /\ e \in owned[t]
  /\ free' = free \cup {e}
  /\ owned' = [owned EXCEPT ![t] = @ \ {e}]

(* pop() or tryPop() takes effect and returns e. *)
Take(t, e) ==
  /\ e \in free
  /\ free' = free \ {e}
  /\ owned' = [owned EXCEPT ![t] = @ \cup {e}]

SpecNext == \E t \in Threads, e \in Engines : Put(t, e) \/ Take(t, e)

AbstractSpec == SpecInit /\ [][SpecNext]_specVars
=============================================================================
