-------------------------- MODULE DependencyLevels --------------------------
(***************************************************************************)
(* Workflow::buildDependencyLevels: Kahn's algorithm over the rules of a   *)
(* workflow, one pass of its while loop per step.  A rule is its position  *)
(* in Workflow::rules; its name and the name it depends on are data.  The  *)
(* in-degree of a rule is bumped once if any rule carries the name it      *)
(* depends on, and dropped once for each rule of a level that carries it.  *)
(*                                                                         *)
(* A level is the set of rules with the same number in levelOf: its order, *)
(* by priority and then position, belongs to the executions that use it.   *)
(***************************************************************************)
EXTENDS Integers, FiniteSets

CONSTANTS
  N,        \* rules.size()
  Names,    \* rule names, the empty one included
  NoDep     \* dependsOnRuleName without a value

ASSUME NAssumption == N \in Nat
ASSUME NoDepAssumption == NoDep \notin Names

VARIABLES
  name,       \* name[r]: Rule::name
  dep,        \* dep[r]: Rule::dependsOnRuleName
  phase,      \* "count", "loop", and then "returned" or "threw"
  ruleMap,    \* the rules not yet placed in a level
  inDegree,   \* inDegree[r]
  levels,     \* levels.size()
  levelOf     \* levelOf[r]: the level r was placed in, 0 before that

vars == <<name, dep, phase, ruleMap, inDegree, levels, levelOf>>

Rules == 1..N

TypeOK ==
  /\ name \in [Rules -> Names]
  /\ dep \in [Rules -> Names \cup {NoDep}]
  /\ phase \in {"count", "loop", "returned", "threw"}
  /\ ruleMap \in SUBSET Rules
  /\ inDegree \in [Rules -> Int]
  /\ levels \in Nat
  /\ levelOf \in [Rules -> 0..levels]

(* The rules that carry the name r depends on. *)
Providers(r) == {d \in Rules : name[d] = dep[r]}

Init ==
  /\ name \in [Rules -> Names]
  /\ dep \in [Rules -> Names \cup {NoDep}]
  /\ phase = "count"
  /\ ruleMap = Rules
  /\ inDegree = [r \in Rules |-> 0]
  /\ levels = 0
  /\ levelOf = [r \in Rules |-> 0]

(* A bug: a dependency on a rule listed later is not counted. *)
CountBackwardOnly ==
  /\ phase = "count"
  /\ phase' = "loop"
  /\ inDegree' = [r \in Rules |-> IF \E d \in Providers(r) : d <= r THEN 1 ELSE 0]
  /\ UNCHANGED <<name, dep, ruleMap, levels, levelOf>>

(* The loop that counts dependencies stops at the first rule that matches. *)
CountDependencies ==
  /\ phase = "count"
  /\ phase' = "loop"
  /\ inDegree' = [r \in Rules |-> IF Providers(r) # {} THEN 1 ELSE 0]
  /\ UNCHANGED <<name, dep, ruleMap, levels, levelOf>>

Ready == {r \in ruleMap : inDegree[r] = 0}

(* A bug: one decrement too many. *)
DecrementTwice(r) == inDegree[r] - 2 * Cardinality(Providers(r) \cap Ready)

(* Every rule of the level carrying the name takes one off. *)
Decrement(r) == inDegree[r] - Cardinality(Providers(r) \cap Ready)

TakeLevel ==
  /\ phase = "loop"
  /\ Ready # {}
  /\ levels' = levels + 1
  /\ levelOf' = [r \in Rules |-> IF r \in Ready THEN levels + 1 ELSE levelOf[r]]
  /\ ruleMap' = ruleMap \ Ready
  /\ inDegree' = [r \in Rules |-> IF r \in ruleMap \ Ready THEN Decrement(r)
                                                           ELSE inDegree[r]]
  /\ UNCHANGED <<name, dep, phase>>

(* A bug: the empty level is not noticed and the loop goes round again. *)
SpinAtEmptyLevel ==
  /\ phase = "loop"
  /\ ruleMap # {}
  /\ Ready = {}
  /\ UNCHANGED vars

(* throw RuleValidationException("Circular dependency detected in workflow") *)
ThrowCircular ==
  /\ phase = "loop"
  /\ ruleMap # {}
  /\ Ready = {}
  /\ phase' = "threw"
  /\ UNCHANGED <<name, dep, ruleMap, inDegree, levels, levelOf>>

ReturnLevels ==
  /\ phase = "loop"
  /\ ruleMap = {}
  /\ phase' = "returned"
  /\ UNCHANGED <<name, dep, ruleMap, inDegree, levels, levelOf>>

Done == phase \in {"returned", "threw"} /\ UNCHANGED vars

Next == CountDependencies \/ TakeLevel \/ ThrowCircular \/ ReturnLevels \/ Done

Spec == Init /\ [][Next]_vars

(* The loop is sequential code: it keeps running. *)
FairSpec == Spec /\ WF_vars(Next)

(***************************************************************************)
(* Properties                                                              *)
(***************************************************************************)

(* No name that is depended on is carried by two rules. *)
Unambiguous == \A r \in Rules : \A d, e \in Providers(r) : d = e

(* A set of rules each of which waits for a rule of the set: what a cycle  *)
(* of dependencies is, without speaking of paths.                          *)
Circular(S) == S # {} /\ \A r \in S : Providers(r) \cap S # {}

(* Every placed rule sits exactly one level after the rule it depends on,  *)
(* and in the first level when it depends on none: dependencies come first *)
(* and no rule waits longer than they require.                             *)
LevelsAreTight ==
  Unambiguous =>
    \A r \in Rules : levelOf[r] # 0 =>
      /\ \A d \in Providers(r) : levelOf[d] # 0 /\ levelOf[r] = levelOf[d] + 1
      /\ Providers(r) = {} => levelOf[r] = 1

(* The exception of an empty level is thrown only where rules really wait  *)
(* for each other, when names are unambiguous.                             *)
ThrowsOnlyOnCycle ==
  Unambiguous /\ phase = "threw" => \E S \in SUBSET Rules : Circular(S)

(* A workflow with a cycle never gets an execution order, whether or not   *)
(* validate() saw the cycle (rules is a public field and may change).      *)
CycleIsReported ==
  Unambiguous /\ phase = "returned" =>
    /\ \A S \in SUBSET Rules : ~Circular(S)
    /\ \A r \in Rules : levelOf[r] # 0

(* The while loop ends for every workflow, cyclic or not. *)
Terminates == <>(phase \in {"returned", "threw"})

(* "The workflow detects circular dependencies during validation"          *)
(* (workflow.hpp:87): an order that is asked for after validate() passed   *)
(* is never refused as circular.  validate() lets two rules share a name.  *)
AcyclicIsNeverRefused ==
  phase = "threw" => \E S \in SUBSET Rules : Circular(S)

(* With unambiguous names exactly the workflows with a cycle are refused:  *)
(* no false alarm, and no order for rules that wait for each other.        *)
RefusesExactlyCycles == ThrowsOnlyOnCycle /\ CycleIsReported
=============================================================================
