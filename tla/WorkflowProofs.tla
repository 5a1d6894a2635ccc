--------------------------- MODULE WorkflowProofs ---------------------------
(***************************************************************************)
(* buildDependencyLevels is correct for every workflow whose dependencies  *)
(* name at most one rule each: its levels are exactly as deep as the       *)
(* dependencies require, it refuses a workflow only when rules wait for    *)
(* each other, and it never orders a workflow in which they do.  The       *)
(* callers that execute such an order in one thread run a rule only when   *)
(* it is due.                                                              *)
(***************************************************************************)
EXTENDS DependencyLevels, SequentialWorkflow, FiniteSetTheorems, SequenceTheorems,
  WellFoundedInduction, TLAPS

-----------------------------------------------------------------------------
(* Workflow::buildDependencyLevels *)

(* A rule still in the map counts whether its dependency is there too. *)
InDegreeCounts ==
  Unambiguous /\ phase # "count" =>
    \A r \in ruleMap :
      inDegree[r] = IF Providers(r) \cap ruleMap # {} THEN 1 ELSE 0

(* After the first level, a rule still in the map depends on one that is   *)
(* there too or was placed in the level just taken.                        *)
Frontier ==
  Unambiguous /\ levels # 0 =>
    \A r \in ruleMap : \E d \in Providers(r) : d \in ruleMap \/ levelOf[d] = levels

(* No rule of a cycle ever leaves the map. *)
CyclesStay == Unambiguous => \A S \in SUBSET Rules : Circular(S) => S \subseteq ruleMap

Phases ==
  /\ phase = "count" => levels = 0
  /\ levels = 0 => ruleMap = Rules
  /\ phase = "threw" => ruleMap # {} /\ Ready = {}
  /\ phase = "returned" => ruleMap = {}
  /\ \A r \in Rules : r \in ruleMap <=> levelOf[r] = 0

IInv ==
  /\ TypeOK /\ Phases /\ InDegreeCounts /\ Frontier /\ CyclesStay /\ LevelsAreTight

(* The entry of buildDependencyLevels establishes the invariant. *)
LEMMA InitIInv == Init => IInv
<1> SUFFICES ASSUME Init PROVE IInv
  OBVIOUS
<1>1. TypeOK /\ Phases
  BY DEF Init, TypeOK, Phases, Rules
<1>2. InDegreeCounts /\ Frontier /\ CyclesStay /\ LevelsAreTight
  BY DEF Init, InDegreeCounts, Frontier, CyclesStay, LevelsAreTight
<1> QED BY <1>1, <1>2 DEF IInv

(* How often the in-degree of a rule is decremented in one pass is a number. *)
LEMMA CardinalityOfInt ==
  ASSUME NEW r \in Rules PROVE Cardinality(Providers(r) \cap Ready) \in Nat
<1>1. IsFiniteSet(Rules)
  BY NAssumption, FS_Interval DEF Rules
<1>2. IsFiniteSet(Providers(r) \cap Ready)
  BY <1>1, FS_Subset DEF Providers
<1> QED BY <1>2, FS_CardinalityType

(* Taking a level, where all the work is. *)
LEMMA TakeLevelStep ==
  ASSUME IInv, TakeLevel
  PROVE  IInv'
<1> USE DEF IInv
<1>0. /\ \A r \in Rules : Providers(r)' = Providers(r)
      /\ Unambiguous' = Unambiguous
      /\ \A S : Circular(S)' = Circular(S)
  BY DEF TakeLevel, Providers, Unambiguous, Circular
<1>1. TypeOK'
  <2>1. \A r \in Rules : Decrement(r) \in Int
    BY CardinalityOfInt DEF TypeOK, Decrement
  <2>2. inDegree' \in [Rules -> Int]
    BY <2>1 DEF TakeLevel, TypeOK
  <2>3. levelOf' \in [Rules -> 0..levels']
    BY DEF TakeLevel, TypeOK
  <2> QED BY <2>2, <2>3 DEF TakeLevel, TypeOK
<1>2. Phases'
  <2>1. Ready \subseteq ruleMap /\ ruleMap \subseteq Rules /\ levels \in Nat
    BY DEF Ready, TypeOK
  <2>2. \A r \in Rules : r \in ruleMap' <=> levelOf'[r] = 0
    BY <2>1 DEF TakeLevel, Phases, TypeOK
  <2> QED BY <2>1, <2>2 DEF TakeLevel, Phases
<1> SUFFICES ASSUME Unambiguous
             PROVE  InDegreeCounts' /\ Frontier' /\ CyclesStay' /\ LevelsAreTight'
  BY <1>0, <1>1, <1>2 DEF InDegreeCounts, Frontier, CyclesStay, LevelsAreTight
<1>3. ASSUME NEW r \in ruleMap
      PROVE  /\ r \in Ready <=> Providers(r) \cap ruleMap = {}
             /\ r \notin Ready => inDegree[r] = 1
  BY DEF InDegreeCounts, Ready, TakeLevel
<1>4. InDegreeCounts'
  <2> SUFFICES ASSUME NEW r \in ruleMap \ Ready
               PROVE  Decrement(r) = IF Providers(r) \cap (ruleMap \ Ready) # {} THEN 1 ELSE 0
    BY <1>0 DEF InDegreeCounts, TakeLevel, TypeOK
  <2>1. inDegree[r] = 1 /\ Providers(r) \cap ruleMap # {}
    BY <1>3
  <2>2. PICK d \in Rules : Providers(r) = {d} /\ d \in ruleMap
    BY <2>1 DEF Unambiguous, Providers, TypeOK
  <2>3. CASE d \in Ready
    <3>1. Providers(r) \cap Ready = {d} /\ Providers(r) \cap (ruleMap \ Ready) = {}
      BY <2>2, <2>3
    <3>2. Cardinality({d}) = 1
      BY FS_Singleton
    <3> QED BY <2>1, <3>1, <3>2 DEF Decrement
  <2>4. CASE d \notin Ready
    <3>1. Providers(r) \cap Ready = {} /\ Providers(r) \cap (ruleMap \ Ready) # {}
      BY <2>2, <2>4
    <3>2. Cardinality({}) = 0
      BY FS_EmptySet
    <3> QED BY <2>1, <3>1, <3>2 DEF Decrement
  <2> QED BY <2>3, <2>4
<1>5. Frontier'
  <2> SUFFICES ASSUME NEW r \in ruleMap \ Ready
               PROVE  \E d \in Providers(r) : d \in ruleMap \ Ready \/ levelOf'[d] = levels + 1
    BY <1>0 DEF Frontier, TakeLevel, TypeOK
  <2>1. PICK d \in Providers(r) : d \in ruleMap
    BY <1>3
  <2> QED BY <2>1 DEF TakeLevel, TypeOK, Providers
<1>6. CyclesStay'
  <2> SUFFICES ASSUME NEW S \in SUBSET Rules, Circular(S), NEW r \in S
               PROVE  r \in ruleMap \ Ready
    BY <1>0 DEF CyclesStay, TakeLevel
  <2>1. S \subseteq ruleMap
    BY DEF CyclesStay
  <2>2. Providers(r) \cap ruleMap # {}
    BY <2>1 DEF Circular
  <2> QED BY <1>3, <2>1, <2>2
<1>7. LevelsAreTight'
  <2> SUFFICES ASSUME NEW r \in Rules, levelOf'[r] # 0
               PROVE  /\ \A d \in Providers(r) : /\ levelOf'[d] # 0
                                                 /\ levelOf'[r] = levelOf'[d] + 1
                      /\ Providers(r) = {} => levelOf'[r] = 1
    BY <1>0 DEF LevelsAreTight
  <2>0. /\ Ready \subseteq ruleMap /\ Providers(r) \subseteq Rules
        /\ \A q \in Ready : levelOf'[q] = levels + 1
        /\ \A q \in Rules \ Ready : levelOf'[q] = levelOf[q]
    BY DEF Ready, Providers, TakeLevel, TypeOK
  <2>1. CASE r \in Ready
    <3>1. Providers(r) \cap ruleMap = {}
      BY <1>3, <2>0, <2>1
    <3>2. CASE levels = 0
      BY <2>0, <2>1, <3>1, <3>2 DEF Phases
    <3>3. CASE levels # 0
      <4>1. PICK d \in Providers(r) : levelOf[d] = levels
        BY <2>0, <2>1, <3>1, <3>3 DEF Frontier
      <4>2. \A e \in Providers(r) : e = d
        BY DEF Unambiguous
      <4>3. d \notin Ready
        BY <2>0, <3>1, <4>1
      <4> QED BY <2>0, <2>1, <3>3, <4>1, <4>2, <4>3 DEF TypeOK
    <3> QED BY <3>2, <3>3
  <2>2. CASE r \notin Ready
    <3>1. levelOf[r] # 0 /\ levelOf'[r] = levelOf[r]
      BY <2>0, <2>2
    <3>2. \A d \in Providers(r) : levelOf[d] # 0 /\ d \notin Ready
      BY <2>0, <3>1 DEF LevelsAreTight, Phases
    <3> QED BY <2>0, <3>1, <3>2 DEF LevelsAreTight
  <2> QED BY <2>1, <2>2
<1> QED BY <1>4, <1>5, <1>6, <1>7

(* Every step of the loop keeps the invariant. *)
LEMMA NextIInv == IInv /\ [Next]_vars => IInv'
<1> SUFFICES ASSUME IInv, [Next]_vars PROVE IInv'
  OBVIOUS
<1>1. CASE CountDependencies
  <2>1. TypeOK'
    BY <1>1 DEF IInv, TypeOK, CountDependencies
  <2>2. Phases'
    BY <1>1 DEF IInv, Phases, CountDependencies
  <2>3. ruleMap = Rules /\ levels = 0 /\ \A r \in Rules : Providers(r) \subseteq Rules
    BY <1>1 DEF IInv, Phases, CountDependencies, Providers
  <2>4. InDegreeCounts'
    BY <1>1, <2>3 DEF CountDependencies, InDegreeCounts, Providers, Unambiguous
  <2>5. Frontier' /\ CyclesStay' /\ LevelsAreTight'
    BY <1>1, <2>3 DEF IInv, CountDependencies, Frontier, CyclesStay, LevelsAreTight,
                      Providers, Unambiguous, Circular
  <2> QED BY <2>1, <2>2, <2>4, <2>5 DEF IInv
<1>2. CASE TakeLevel
  BY <1>2, TakeLevelStep
<1>3. CASE ThrowCircular \/ ReturnLevels \/ UNCHANGED vars
  <2>1. UNCHANGED <<name, dep, ruleMap, inDegree, levels, levelOf>>
    BY <1>3 DEF ThrowCircular, ReturnLevels, vars
  <2>2. TypeOK' /\ Phases'
    BY <1>3, <2>1 DEF IInv, TypeOK, Phases, ThrowCircular, ReturnLevels, vars, Ready
  <2>3. phase' = phase \/ phase = "loop"
    BY <1>3 DEF ThrowCircular, ReturnLevels, vars
  <2>4. InDegreeCounts'
    BY <2>1, <2>3 DEF IInv, InDegreeCounts, Providers, Unambiguous
  <2>5. Frontier' /\ CyclesStay' /\ LevelsAreTight'
    BY <2>1 DEF IInv, Frontier, CyclesStay, LevelsAreTight, Providers, Unambiguous,
                Circular
  <2> QED BY <2>2, <2>4, <2>5 DEF IInv
<1> QED BY <1>1, <1>2, <1>3 DEF Next, Done

(* The variables of the loop keep their types; an in-degree may turn        *)
(* negative (when two rules share a name), which Int allows.                *)
THEOREM TypeCorrect == Spec => []TypeOK
<1>1. IInv => TypeOK
  BY DEF IInv
<1> QED BY InitIInv, NextIInv, <1>1, PTL DEF Spec

(* In every workflow of any size, each rule is placed exactly one level     *)
(* after the rule it depends on.                                            *)
THEOREM TightLevels == Spec => []LevelsAreTight
<1>1. IInv => LevelsAreTight
  BY DEF IInv
<1> QED BY InitIInv, NextIInv, <1>1, PTL DEF Spec

(* "Circular dependency detected in workflow" is thrown only where rules    *)
(* wait for each other.                                                     *)
THEOREM NoFalseAlarm == Spec => []ThrowsOnlyOnCycle
<1>1. IInv => ThrowsOnlyOnCycle
  <2> SUFFICES ASSUME IInv, Unambiguous, phase = "threw"
               PROVE  Circular(ruleMap) /\ ruleMap \in SUBSET Rules
    BY DEF ThrowsOnlyOnCycle
  <2>1. \A r \in ruleMap : inDegree[r] # 0
    BY DEF IInv, Phases, Ready
  <2>2. \A r \in ruleMap : Providers(r) \cap ruleMap # {}
    BY <2>1 DEF IInv, InDegreeCounts
  <2> QED BY <2>2 DEF IInv, Phases, TypeOK, Circular
<1> QED BY InitIInv, NextIInv, <1>1, PTL DEF Spec

(* A workflow in which rules wait for each other is never given an order,   *)
(* and one that is given an order has every rule in it.                     *)
THEOREM NoCycleIsOrdered == Spec => []CycleIsReported
<1>1. IInv => CycleIsReported
  BY DEF IInv, CycleIsReported, CyclesStay, Phases, Circular
<1> QED BY InitIInv, NextIInv, <1>1, PTL DEF Spec

(* buildDependencyLevels throws when, and only when, rules are left that   *)
(* wait for each other: for every dependency graph with unambiguous names. *)
THEOREM ExactlyCycles == Spec => []RefusesExactlyCycles
BY NoFalseAlarm, NoCycleIsOrdered, PTL DEF RefusesExactlyCycles

-----------------------------------------------------------------------------
(* Workflow::execute, executeWithTrace and executeStreaming *)

(* No rule that a top-level rule depends on is below another rule as well. *)
(* Without this an execution of the rule as a child overwrites, under the  *)
(* same name in the RuleContext, the result that its dependents look up.   *)
DependedOn == {r \in TopLevel : \E t \in TopLevel : DependsOn[t] = r}
DependenciesAreNoChildren ==
  \A r \in AllRules : \A i \in DOMAIN Children[r] : Children[r][i] \notin DependedOn

(* The outermost execution is that of the rule the loop has come to, the   *)
(* others are executions of children, and all but the last wait for one.   *)
StackInv ==
  /\ stack # << >> => api # "idle" /\ idx \in DOMAIN Order /\ stack[1].rule = Order[idx]
  /\ \A i \in DOMAIN stack : i < Len(stack) => stack[i].step = "children"
  /\ \A i \in DOMAIN stack : i > 1 => stack[i].rule \notin DependedOn

(* The context never says more of a dependency than the report does, and   *)
(* for the callers that put results into it, no less.                      *)
ContextInv ==
  \A d \in DependedOn :
    /\ context[d] = "success" => report[d] = "success"
    /\ api \in {"trace", "stream"} /\ report[d] = "success" => context[d] = "success"

(* Rules that the loop has not passed are not reported, and the rule that  *)
(* is being executed was due.                                              *)
LoopInv ==
  /\ \A j \in DOMAIN Order : j >= idx => report[Order[j]] = "none"
  /\ stack # << >> /\ DependsOn[Order[idx]] \in TopLevel =>
       report[DependsOn[Order[idx]]] = "success"

SequentialInv ==
  /\ SequentialTypeOK /\ StackInv /\ ParentWaitsForChildren
  /\ ContextInv /\ LoopInv /\ RunsAfterSuccess /\ TracedSkipsForAReason

(* The innermost execution and the ones below it on the stack. *)
LEMMA TopFrame ==
  ASSUME stack \in Seq(Frames), stack # << >>
  PROVE  /\ Len(stack) \in Nat \ {0} /\ DOMAIN stack = 1..Len(stack)
         /\ Top \in Frames
         /\ Below \in Seq(Frames) /\ Len(Below) = Len(stack) - 1
         /\ \A i \in 1..(Len(stack) - 1) : Below[i] = stack[i]
<1>1. Len(stack) \in Nat /\ Len(stack) # 0 /\ DOMAIN stack = 1..Len(stack)
  BY EmptySeq, LenProperties
<1>2. Top \in Frames
  BY <1>1, ElementOfSeq DEF Top
<1>3. /\ Below \in Seq(Frames) /\ Len(Below) = Len(stack) - 1
      /\ \A i \in 1..(Len(stack) - 1) : Below[i] = stack[i]
  BY <1>1, SubSeqProperties DEF Below
<1> QED BY <1>1, <1>2, <1>3

(* A step within Rule::execute changes the innermost execution alone. *)
LEMMA GoToStack ==
  ASSUME stack \in Seq(Frames), stack # << >>, NEW step \in Steps, GoTo(step)
  PROVE  /\ stack' \in Seq(Frames) /\ stack' # << >> /\ Len(stack') = Len(stack)
         /\ \A i \in 1..(Len(stack) - 1) : stack'[i] = stack[i]
         /\ stack'[Len(stack)] = [Top EXCEPT !.step = step]
<1>0. /\ Len(stack) \in Nat \ {0} /\ DOMAIN stack = 1..Len(stack)
      /\ Top \in Frames
      /\ Below \in Seq(Frames) /\ Len(Below) = Len(stack) - 1
      /\ \A i \in 1..(Len(stack) - 1) : Below[i] = stack[i]
  BY TopFrame
<1> DEFINE f == [Top EXCEPT !.step = step]
<1>1. f \in Frames
  BY <1>0 DEF Frames
<1>2. stack' = Append(Below, f)
  BY DEF GoTo
<1>01. Below \in Seq(Frames)
  BY <1>0
<1> HIDE DEF f
<1>3. /\ Append(Below, f) \in Seq(Frames) /\ Append(Below, f) # << >>
      /\ Len(Append(Below, f)) = Len(Below) + 1
      /\ \A i \in 1..Len(Below) : Append(Below, f)[i] = Below[i]
      /\ Append(Below, f)[Len(Below) + 1] = f
  BY <1>01, <1>1, AppendProperties
<1>4. stack'[Len(stack)] = f
  BY <1>0, <1>2, <1>3
<1>5. \A i \in 1..(Len(stack) - 1) : stack'[i] = stack[i]
  BY <1>0, <1>2, <1>3
<1>6. stack' \in Seq(Frames) /\ stack' # << >> /\ Len(stack') = Len(stack)
  BY <1>0, <1>2, <1>3
<1> QED BY <1>4, <1>5, <1>6 DEF f

(* A return drops the innermost execution and tells the one below. *)
LEMMA ReturnStack ==
  ASSUME stack \in Seq(Frames), stack # << >>, Len(stack) # 1, NEW v \in Verdicts,
         stack' = [Below EXCEPT ![Len(Below)].childResults = Append(@, v)]
  PROVE  /\ stack' \in Seq(Frames) /\ stack' # << >> /\ Len(stack') = Len(stack) - 1
         /\ \A i \in 1..(Len(stack) - 1) :
              stack'[i].rule = stack[i].rule /\ stack'[i].step = stack[i].step
<1>0. /\ Len(stack) \in Nat \ {0} /\ DOMAIN stack = 1..Len(stack)
      /\ Top \in Frames
      /\ Below \in Seq(Frames) /\ Len(Below) = Len(stack) - 1
      /\ \A i \in 1..(Len(stack) - 1) : Below[i] = stack[i]
  BY TopFrame
<1>1. /\ Len(stack) \in Nat /\ Len(stack) > 1
      /\ Below \in Seq(Frames) /\ Len(Below) = Len(stack) - 1
      /\ DOMAIN Below = 1..(Len(stack) - 1)
      /\ \A i \in 1..(Len(stack) - 1) : Below[i] = stack[i]
  BY <1>0, LenProperties
<1> DEFINE g == Below[Len(Below)]
           h == [g EXCEPT !.childResults = Append(@, v)]
<1>2. g \in Frames
  BY <1>1, ElementOfSeq
<1>3. h \in Frames /\ h.rule = g.rule /\ h.step = g.step
  BY <1>2, AppendProperties DEF Frames
<1>4. stack' = [Below EXCEPT ![Len(Below)] = h]
  BY <1>1
<1> HIDE DEF h, g
<1>5. stack' \in Seq(Frames) /\ Len(stack') = Len(Below)
  BY <1>1, <1>3, <1>4, ExceptSeq
<1>6. \A i \in 1..(Len(stack) - 1) :
        stack'[i].rule = Below[i].rule /\ stack'[i].step = Below[i].step
  BY <1>1, <1>3, <1>4 DEF g
<1>7. stack' # << >>
  BY <1>1, <1>5, EmptySeq
<1> QED BY <1>1, <1>5, <1>6, <1>7

ContextValues == [AllRules -> Verdicts \cup {"none"}]

(* What the loop over the order knows of the rule it has come to. *)
LEMMA CurrentRule ==
  ASSUME SequentialInv, idx \in DOMAIN Order
  PROVE  /\ idx \in Nat /\ idx <= Len(Order) /\ Order[idx] \in TopLevel
         /\ report[Order[idx]] = "none"
         /\ \A r \in TopLevel : r # Order[idx] => r \in AllRules
         /\ Order[idx] \in AllRules
<1>1. Order \in Seq(AllRules)
  BY OrderAssumption
<1>2. Len(Order) \in Nat /\ DOMAIN Order = 1..Len(Order)
  BY <1>1, LenProperties
<1>3. \A i \in DOMAIN Order : Order[i] \in AllRules
  BY <1>1, <1>2, ElementOfSeq
<1> QED BY <1>2, <1>3 DEF SequentialInv, LoopInv, TopLevel

(* Order[idx] gets its report: what holds of the other rules stays. *)
LEMMA ReportStep ==
  ASSUME SequentialInv, idx \in DOMAIN Order, NEW v, v # "none",
         report' = [report EXCEPT ![Order[idx]] = v], idx' = idx + 1
  PROVE  /\ \A j \in DOMAIN Order : j >= idx' => report'[Order[j]] = "none"
         /\ report'[Order[idx]] = v
         /\ \A r \in AllRules : r # Order[idx] => report'[r] = report[r]
         /\ \A r \in TopLevel : r # Order[idx] /\ DependsOn[r] = Order[idx] => report[r] = "none"
<1>1. Order \in Seq(AllRules) /\ Len(Order) \in Nat /\ DOMAIN Order = 1..Len(Order)
  BY OrderAssumption, LenProperties
<1>2. /\ idx \in Nat /\ Order[idx] \in AllRules
      /\ \A r \in TopLevel : r # Order[idx] => r \in AllRules
  BY CurrentRule
<1>3. \A i \in DOMAIN Order : Order[i] \in AllRules
  BY <1>1, ElementOfSeq
<1>4. report'[Order[idx]] = v /\ \A r \in AllRules : r # Order[idx] => report'[r] = report[r]
  BY <1>2 DEF SequentialInv, SequentialTypeOK
<1>5. ASSUME NEW j \in DOMAIN Order, j >= idx' PROVE report'[Order[j]] = "none"
  <2>1. j # idx /\ j >= idx
    BY <1>1, <1>2, <1>5
  <2>2. Order[j] # Order[idx]
    BY <2>1, OrderAssumption
  <2> QED BY <1>3, <1>4, <2>1, <2>2 DEF SequentialInv, LoopInv
<1>6. ASSUME NEW r \in TopLevel, r # Order[idx], DependsOn[r] = Order[idx]
      PROVE  report[r] = "none"
  <2>1. PICK k \in DOMAIN Order : r = Order[k]
    BY DEF TopLevel
  <2>2. idx < k
    BY <1>6, <2>1, OrderAssumption
  <2>3. k >= idx
    BY <1>1, <1>2, <2>2
  <2> QED BY <2>1, <2>3 DEF SequentialInv, LoopInv
<1> QED BY <1>4, <1>5, <1>6

(* Rule::execute returns to the loop of the workflow. *)
LEMMA ReturnToLoop ==
  ASSUME SequentialInv, stack # << >>, Len(stack) = 1,
         NEW v \in Verdicts, NEW ctx \in ContextValues,
         \A d \in DependedOn : d # Top.rule => ctx[d] = context[d],
         ctx[Top.rule] \in {v, context[Top.rule]},
         Return(v, ctx), api' = api, cache' \in [AllRules -> {"none", "success", "failure"}]
  PROVE  SequentialInv'
<1> DEFINE r == Order[idx]
<1>1. /\ idx \in DOMAIN Order /\ Top.rule = r /\ idx \in Nat /\ idx <= Len(Order)
      /\ r \in TopLevel /\ r \in AllRules /\ report[r] = "none"
  BY CurrentRule DEF SequentialInv, StackInv, Top
<1>2. /\ stack' = << >> /\ idx' = idx + 1
      /\ report' = [report EXCEPT ![r] = v]
      /\ context' = IF api = "execute" THEN ctx ELSE [ctx EXCEPT ![r] = v]
  BY <1>1 DEF Return, CallerContext
<1>3. /\ \A j \in DOMAIN Order : j >= idx' => report'[Order[j]] = "none"
      /\ report'[r] = v
      /\ \A q \in AllRules : q # r => report'[q] = report[q]
      /\ \A q \in TopLevel : q # r /\ DependsOn[q] = r => report[q] = "none"
  BY <1>1, <1>2, ReportStep DEF Verdicts
<1>4. \A q \in TopLevel : q \in AllRules
  BY <1>1, CurrentRule
<1> HIDE DEF r
<1>5. SequentialTypeOK'
  <2>1. context' \in ContextValues
    BY <1>1, <1>2 DEF ContextValues
  <2>2. idx' \in 1..(Len(Order) + 1)
    BY <1>1, <1>2, OrderAssumption, LenProperties
  <2>3. report' \in [AllRules -> Verdicts \cup {"none", "dependencyFailed"}]
    BY <1>2 DEF SequentialInv, SequentialTypeOK
  <2>4. stack' \in Seq(Frames)
    BY <1>2, EmptySeq
  <2> QED BY <2>1, <2>2, <2>3, <2>4 DEF SequentialInv, SequentialTypeOK, ContextValues
<1>6. StackInv' /\ ParentWaitsForChildren'
  BY <1>2 DEF StackInv, ParentWaitsForChildren
<1>7. ContextInv'
  <2> SUFFICES ASSUME NEW d \in DependedOn
               PROVE  /\ context'[d] = "success" => report'[d] = "success"
                      /\ api' \in {"trace", "stream"} /\ report'[d] = "success"
                           => context'[d] = "success"
    BY DEF ContextInv
  <2>0. d \in AllRules /\ (context[d] = "success" => report[d] = "success")
        /\ (api \in {"trace", "stream"} /\ report[d] = "success" => context[d] = "success")
    BY <1>4 DEF DependedOn, SequentialInv, ContextInv
  <2>1. CASE d = r
    BY <1>1, <1>2, <1>3, <2>0, <2>1 DEF ContextValues
  <2>2. CASE d # r
    BY <1>1, <1>2, <1>3, <2>0, <2>2 DEF ContextValues
  <2> QED BY <2>1, <2>2
<1>8. LoopInv'
  BY <1>2, <1>3 DEF LoopInv
<1>9. RunsAfterSuccess'
  <2> SUFFICES ASSUME NEW q \in TopLevel, report'[q] \in Verdicts, DependsOn[q] \in TopLevel
               PROVE  report'[DependsOn[q]] = "success"
    BY DEF RunsAfterSuccess
  <2>1. report[DependsOn[q]] = "success"
    BY <1>1, <1>3, <1>4 DEF SequentialInv, LoopInv, RunsAfterSuccess, r
  <2> QED BY <2>1, <1>1, <1>3, <1>4
<1>10. TracedSkipsForAReason'
  <2> SUFFICES ASSUME api \in {"trace", "stream"}, NEW q \in TopLevel,
                      report'[q] = "dependencyFailed", DependsOn[q] \in TopLevel
               PROVE  report'[DependsOn[q]] # "success"
    BY DEF TracedSkipsForAReason, SkippedForAReason
  <2>1. q # r
    BY <1>3 DEF Verdicts
  <2>2. report[q] = "dependencyFailed" /\ DependsOn[q] # r
    BY <1>3, <1>4, <2>1
  <2>3. report[DependsOn[q]] # "success"
    BY <2>2 DEF SequentialInv, TracedSkipsForAReason, SkippedForAReason
  <2> QED BY <1>3, <1>4, <2>2, <2>3
<1> QED BY <1>5, <1>6, <1>7, <1>8, <1>9, <1>10 DEF SequentialInv

(* Rule::execute of a child returns to the execution of its parent. *)
LEMMA ReturnToParent ==
  ASSUME SequentialInv, stack # << >>, Len(stack) # 1,
         NEW v \in Verdicts, NEW ctx \in ContextValues,
         \A d \in DependedOn : d # Top.rule => ctx[d] = context[d],
         Return(v, ctx), api' = api, cache' \in [AllRules -> {"none", "success", "failure"}]
  PROVE  SequentialInv'
<1>0. stack \in Seq(Frames)
  BY DEF SequentialInv, SequentialTypeOK
<1>1. /\ stack' = [Below EXCEPT ![Len(Below)].childResults = Append(@, v)]
      /\ context' = ctx /\ report' = report /\ idx' = idx
  BY DEF Return
<1>2. /\ stack' \in Seq(Frames) /\ stack' # << >> /\ Len(stack') = Len(stack) - 1
      /\ \A i \in 1..(Len(stack) - 1) :
           stack'[i].rule = stack[i].rule /\ stack'[i].step = stack[i].step
  BY <1>0, <1>1, ReturnStack
<1>3. /\ Len(stack) \in Nat /\ Len(stack) > 1 /\ DOMAIN stack = 1..Len(stack)
      /\ DOMAIN stack' = 1..(Len(stack) - 1)
  BY <1>0, <1>2, TopFrame, LenProperties
<1>4. Top.rule \notin DependedOn
  BY <1>3 DEF SequentialInv, StackInv, Top
<1>5. SequentialTypeOK'
  BY <1>1, <1>2 DEF SequentialInv, SequentialTypeOK, ContextValues
<1>6. StackInv'
  <2>1. stack'[1].rule = stack[1].rule
    BY <1>2, <1>3
  <2>2. api' # "idle" /\ idx' \in DOMAIN Order /\ stack'[1].rule = Order[idx']
    BY <1>1, <2>1 DEF SequentialInv, StackInv
  <2>3. \A i \in DOMAIN stack' : i \in DOMAIN stack /\ i < Len(stack)
    BY <1>3
  <2>4. \A i \in DOMAIN stack' : /\ stack'[i].step = "children"
                                 /\ i > 1 => stack'[i].rule \notin DependedOn
    BY <1>2, <1>3, <2>3 DEF SequentialInv, StackInv
  <2> QED BY <2>2, <2>4 DEF StackInv
<1>7. \A i \in DOMAIN stack' : stack'[i].step = "children"
  BY <1>2, <1>3 DEF SequentialInv, StackInv
<1>8. ParentWaitsForChildren'
  BY <1>7 DEF ParentWaitsForChildren
<1>9. ContextInv'
  BY <1>1, <1>4 DEF SequentialInv, ContextInv
<1>10. LoopInv' /\ RunsAfterSuccess' /\ TracedSkipsForAReason'
  BY <1>1 DEF SequentialInv, LoopInv, RunsAfterSuccess, TracedSkipsForAReason, SkippedForAReason
<1> QED BY <1>5, <1>6, <1>8, <1>9, <1>10 DEF SequentialInv

(* A return from Rule::execute, to the loop or to a parent. *)
LEMMA ReturnInv ==
  ASSUME SequentialInv, stack # << >>, NEW v \in Verdicts, NEW ctx \in ContextValues,
         \A d \in DependedOn : d # Top.rule => ctx[d] = context[d],
         ctx[Top.rule] \in {v, context[Top.rule]},
         Return(v, ctx), api' = api, cache' \in [AllRules -> {"none", "success", "failure"}]
  PROVE  SequentialInv'
BY ReturnToLoop, ReturnToParent

(* A set of places in a sequence has a last one. *)
LEMMA LastPlace ==
  ASSUME NEW n \in Nat, NEW S \in SUBSET (1..n), S # {}
  PROVE  \E i \in S : \A j \in S : j <= i
<1> DEFINE back == {k \in Nat : \E i \in S : k = n - i}
<1>1. PICK a \in S : TRUE
  OBVIOUS
<1>2. n - a \in back
  BY <1>1
<1>3. PICK m \in back : \A k \in back : <<k, m>> \notin OpToRel(<, Nat)
  BY <1>2, NatLessThanWellFounded, WFMin
<1>4. \A k \in back : ~(k < m)
  BY <1>3 DEF OpToRel
<1>5. PICK i \in S : m = n - i
  OBVIOUS
<1>6. ASSUME NEW j \in S PROVE j <= i
  <2>1. n - j \in back
    OBVIOUS
  <2> QED BY <1>4, <1>5, <2>1
<1> QED BY <1>5, <1>6

(* Only children of the top frame's rule and the rule itself get a result  *)
(* when a rule is done with its children.                                  *)
LEMMA ChildContextType ==
  ASSUME SequentialInv, DependenciesAreNoChildren, ChildrenDone
  PROVE  /\ ChildContext \in ContextValues
         /\ \A d \in DependedOn : ChildContext[d] = context[d]
         /\ stack # << >> /\ Top.rule \in AllRules
<1>1. /\ stack \in Seq(Frames) /\ stack # << >> /\ context \in ContextValues
  BY DEF ChildrenDone, At, SequentialInv, SequentialTypeOK, ContextValues
<1>2. Top \in Frames
  BY <1>1, TopFrame
<1> DEFINE kids == Children[Top.rule]
           done == Top.childResults
<1>3. /\ Top.rule \in AllRules /\ done \in Seq(Verdicts) /\ kids \in Seq(AllRules)
      /\ Len(done) = Len(kids)
  BY <1>2, ChildrenAssumption DEF Frames, ChildrenDone
<1>4. DOMAIN done = DOMAIN kids /\ DOMAIN done = 1..Len(done) /\ Len(done) \in Nat
  BY <1>3, LenProperties
<1>5. \A i \in DOMAIN done : done[i] \in Verdicts
  BY <1>3, <1>4, ElementOfSeq
<1> DEFINE places(r) == {i \in DOMAIN done : kids[i] = r}
<1>6. \A r \in AllRules : places(r) = {} => ChildContext[r] = context[r]
  BY DEF ChildContext
<1>7. \A d \in DependedOn : ChildContext[d] = context[d]
  <2>1. \A d \in DependedOn : d \in AllRules
    BY OrderAssumption, LenProperties, ElementOfSeq DEF DependedOn, TopLevel
  <2>2. \A d \in DependedOn : places(d) = {}
    BY <1>3, <1>4 DEF DependenciesAreNoChildren
  <2> QED BY <1>6, <2>1, <2>2
<1>8. ASSUME NEW r \in AllRules, places(r) # {}
      PROVE  \E i \in places(r) : \A j \in places(r) : j <= i
  BY <1>4, <1>8, LastPlace
<1>9. \A r \in AllRules : places(r) # {} => ChildContext[r] \in Verdicts
  <2> SUFFICES ASSUME NEW r \in AllRules, places(r) # {} PROVE ChildContext[r] \in Verdicts
    OBVIOUS
  <2>1. (CHOOSE i \in places(r) : \A j \in places(r) : j <= i) \in places(r)
    BY <1>8
  <2>2. ChildContext[r] = done[CHOOSE i \in places(r) : \A j \in places(r) : j <= i]
    BY DEF ChildContext
  <2> QED BY <1>5, <2>1, <2>2
<1>10. ChildContext \in ContextValues
  <2>1. \A r \in AllRules : ChildContext[r] \in Verdicts \cup {"none"}
    BY <1>1, <1>6, <1>9 DEF ContextValues
  <2>2. ChildContext = [r \in AllRules |-> ChildContext[r]]
    BY DEF ChildContext
  <2> QED BY <2>1, <2>2 DEF ContextValues
<1> QED BY <1>1, <1>3, <1>7, <1>10

(* When all children passed, the context says so of each of them. *)
LEMMA ChildContextPassed ==
  ASSUME SequentialInv, ChildrenDone, ChildrenPassed
  PROVE  \A j \in DOMAIN Children[Top.rule] : ChildContext[Children[Top.rule][j]] = "success"
<1>1. /\ stack \in Seq(Frames) /\ stack # << >>
  BY DEF ChildrenDone, At, SequentialInv, SequentialTypeOK
<1>2. Top \in Frames
  BY <1>1, TopFrame
<1> DEFINE kids == Children[Top.rule]
           done == Top.childResults
<1>3. /\ done \in Seq(Verdicts) /\ kids \in Seq(AllRules) /\ Len(done) = Len(kids)
  BY <1>2, ChildrenAssumption DEF Frames, ChildrenDone
<1>4. DOMAIN done = DOMAIN kids /\ DOMAIN done = 1..Len(done) /\ Len(done) \in Nat
  BY <1>3, LenProperties
<1>5. SUFFICES ASSUME NEW n \in DOMAIN kids PROVE ChildContext[kids[n]] = "success"
  OBVIOUS
<1> DEFINE r == kids[n]
           places == {i \in DOMAIN done : kids[i] = r}
<1>6. r \in AllRules /\ n \in places
  BY <1>3, <1>4, ElementOfSeq
<1>7. \E i \in places : \A j \in places : j <= i
  BY <1>4, <1>6, LastPlace
<1>8. (CHOOSE i \in places : \A j \in places : j <= i) \in places
  BY <1>7
<1>9. ChildContext[r] = done[CHOOSE i \in places : \A j \in places : j <= i]
  BY <1>6 DEF ChildContext
<1> QED BY <1>8, <1>9 DEF ChildrenPassed

CacheValues == [AllRules -> {"none", "success", "failure"}]

(* The caller calls, its loop passes over a rule, begins one, or ends. *)
LEMMA LoopStep ==
  ASSUME SequentialInv,
         (\E a \in Apis : Call(a)) \/ SkipInactive \/ SkipDependent \/ ExecuteRule
           \/ EndCall \/ Abandon
  PROVE  SequentialInv'
<1>0. /\ Order \in Seq(AllRules) /\ Len(Order) \in Nat /\ DOMAIN Order = 1..Len(Order)
      /\ \A q \in TopLevel : q \in AllRules
      /\ \A d \in DependedOn : d \in TopLevel
  BY OrderAssumption, LenProperties, ElementOfSeq DEF TopLevel, DependedOn
<1>1. ASSUME NEW a \in Apis, Call(a) PROVE SequentialInv'
  <2>1. /\ \A r \in AllRules : context'[r] = "none" /\ report'[r] = "none"
        /\ idx' = 1 /\ stack' = stack /\ cache' = cache /\ api' = a
    BY <1>1 DEF Call
  <2>2. stack = << >>
    BY <1>1 DEF Call, SequentialInv, StackInv
  <2>3. SequentialTypeOK'
    BY <1>0, <1>1, <2>1 DEF Call, SequentialInv, SequentialTypeOK
  <2>4. StackInv' /\ ParentWaitsForChildren'
    BY <2>1, <2>2 DEF StackInv, ParentWaitsForChildren
  <2>5. ContextInv' /\ LoopInv' /\ RunsAfterSuccess' /\ TracedSkipsForAReason'
    BY <1>0, <2>1, <2>2, ElementOfSeq DEF ContextInv, LoopInv, RunsAfterSuccess,
       TracedSkipsForAReason, SkippedForAReason, Verdicts
  <2> QED BY <2>3, <2>4, <2>5 DEF SequentialInv
<1>2. CASE EndCall \/ Abandon
  <2>1. /\ api' = "idle" /\ stack = << >>
        /\ idx' = idx /\ context' = context /\ report' = report /\ cache' = cache
        /\ stack' = stack
    BY <1>2 DEF EndCall, Abandon
  <2>2. SequentialTypeOK' /\ StackInv' /\ ParentWaitsForChildren'
    BY <2>1 DEF SequentialInv, SequentialTypeOK, StackInv, ParentWaitsForChildren
  <2>3. ContextInv' /\ LoopInv' /\ RunsAfterSuccess' /\ TracedSkipsForAReason'
    BY <2>1 DEF SequentialInv, ContextInv, LoopInv, RunsAfterSuccess, TracedSkipsForAReason
  <2> QED BY <2>2, <2>3 DEF SequentialInv
<1>3. CASE SkipInactive
  <2>1. /\ stack = << >> /\ idx \in DOMAIN Order /\ idx' = idx + 1
        /\ api' = api /\ context' = context /\ report' = report /\ cache' = cache
        /\ stack' = stack
    BY <1>0, <1>3 DEF SkipInactive, InLoop, SequentialInv, SequentialTypeOK
  <2>2. SequentialTypeOK'
    BY <1>0, <2>1 DEF SequentialInv, SequentialTypeOK
  <2>5. StackInv' /\ ParentWaitsForChildren'
    BY <2>1 DEF StackInv, ParentWaitsForChildren
  <2>3. LoopInv'
    BY <1>0, <2>1 DEF SequentialInv, LoopInv
  <2>4. ContextInv' /\ RunsAfterSuccess' /\ TracedSkipsForAReason'
    BY <2>1 DEF SequentialInv, ContextInv, RunsAfterSuccess, TracedSkipsForAReason,
       SkippedForAReason
  <2> QED BY <2>2, <2>3, <2>4, <2>5 DEF SequentialInv
<1>4. CASE ExecuteRule
  <2> DEFINE r == Order[idx]
  <2>1. /\ stack = << >> /\ api # "idle" /\ idx \in DOMAIN Order /\ stack' = <<Frame(r)>>
        /\ idx' = idx /\ api' = api /\ context' = context /\ report' = report
        /\ cache' = cache /\ DependencyOK(r)
    BY <1>0, <1>4 DEF ExecuteRule, InLoop, SequentialInv, SequentialTypeOK
  <2>2. r \in AllRules /\ r \in TopLevel
    BY <2>1, CurrentRule
  <2>3. Frame(r) \in Frames /\ Frame(r).rule = r /\ Frame(r).step = "enter"
    BY <2>2, EmptySeq DEF Frame, Frames, Steps
  <2> HIDE DEF r
  <2>4. /\ stack' \in Seq(Frames) /\ DOMAIN stack' = 1..1 /\ Len(stack') = 1
        /\ stack'[1] = Frame(r) /\ stack' # << >>
    BY <2>1, <2>3
  <2>5. SequentialTypeOK' /\ StackInv' /\ ParentWaitsForChildren'
    BY <2>1, <2>3, <2>4 DEF SequentialInv, SequentialTypeOK, StackInv,
       ParentWaitsForChildren, r
  <2>6. DependsOn[r] \in TopLevel => report[DependsOn[r]] = "success"
    BY <1>0, <2>1, <2>2, DependencyAssumption
       DEF DependencyOK, SequentialInv, ContextInv, DependedOn
  <2>7. LoopInv'
    BY <2>1, <2>6 DEF SequentialInv, LoopInv, r
  <2>8. ContextInv' /\ RunsAfterSuccess' /\ TracedSkipsForAReason'
    BY <2>1 DEF SequentialInv, ContextInv, RunsAfterSuccess, TracedSkipsForAReason,
       SkippedForAReason
  <2> QED BY <2>5, <2>7, <2>8 DEF SequentialInv
<1>5. CASE SkipDependent
  <2> DEFINE r == Order[idx]
  <2>1. /\ stack = << >> /\ idx \in DOMAIN Order /\ idx' = idx + 1 /\ stack' = stack
        /\ report' = [report EXCEPT ![r] = "dependencyFailed"]
        /\ api' = api /\ context' = context /\ cache' = cache /\ ~DependencyOK(r)
    BY <1>0, <1>5 DEF SkipDependent, InLoop, SequentialInv, SequentialTypeOK
  <2>2. r \in AllRules /\ r \in TopLevel /\ report[r] = "none"
    BY <2>1, CurrentRule
  <2>3. /\ \A j \in DOMAIN Order : j >= idx' => report'[Order[j]] = "none"
        /\ report'[r] = "dependencyFailed"
        /\ \A q \in AllRules : q # r => report'[q] = report[q]
        /\ \A q \in TopLevel : q # r /\ DependsOn[q] = r => report[q] = "none"
    BY <2>1, ReportStep
  <2> HIDE DEF r
  <2>4. SequentialTypeOK'
    <3>1. Len(Order) \in Nat /\ DOMAIN Order = 1..Len(Order)
      BY OrderAssumption, LenProperties
    <3>2. idx' \in 1..(Len(Order) + 1)
      BY <2>1, <3>1
    <3> QED BY <1>0, <2>1, <3>2 DEF SequentialInv, SequentialTypeOK
  <2>9. StackInv' /\ ParentWaitsForChildren'
    BY <2>1 DEF StackInv, ParentWaitsForChildren
  <2>5. LoopInv'
    BY <2>1, <2>3 DEF LoopInv
  <2>6. ContextInv'
    BY <1>0, <2>1, <2>2, <2>3 DEF SequentialInv, ContextInv
  <2>7. RunsAfterSuccess'
    <3> SUFFICES ASSUME NEW q \in TopLevel, report'[q] \in Verdicts, DependsOn[q] \in TopLevel
                 PROVE  report'[DependsOn[q]] = "success"
      BY DEF RunsAfterSuccess
    <3>1. q # r /\ report[q] = report'[q]
      BY <1>0, <2>3 DEF Verdicts
    <3>2. report[DependsOn[q]] = "success"
      BY <3>1 DEF SequentialInv, RunsAfterSuccess
    <3> QED BY <1>0, <2>2, <2>3, <3>2
  <2>8. TracedSkipsForAReason'
    <3> SUFFICES ASSUME api \in {"trace", "stream"}, NEW q \in TopLevel,
                        report'[q] = "dependencyFailed", DependsOn[q] \in TopLevel
                 PROVE  report'[DependsOn[q]] # "success"
      BY <2>1 DEF TracedSkipsForAReason, SkippedForAReason
    <3>1. CASE q = r
      <4>1. DependsOn[r] \in DependedOn /\ DependsOn[r] \in AllRules
        BY <1>0, <2>2, <3>1 DEF DependedOn
      <4>2. context[DependsOn[r]] # "success"
        BY <2>1, <4>1 DEF DependencyOK
      <4>3. report[DependsOn[r]] # "success"
        BY <4>1, <4>2 DEF SequentialInv, ContextInv
      <4> QED BY <2>3, <3>1, <4>1, <4>3
    <3>2. CASE q # r
      <4>1. report[q] = "dependencyFailed"
        BY <1>0, <2>3, <3>2
      <4>2. report[DependsOn[q]] # "success"
        BY <4>1 DEF SequentialInv, TracedSkipsForAReason, SkippedForAReason
      <4> QED BY <1>0, <2>3, <4>2
    <3> QED BY <3>1, <3>2
  <2> QED BY <2>4, <2>5, <2>6, <2>7, <2>8, <2>9 DEF SequentialInv
<1> QED BY <1>1, <1>2, <1>3, <1>4, <1>5

(* Rule::execute gives a result and stores it. *)
LEMMA StoredStep ==
  ASSUME SequentialInv, stack # << >>, NEW v \in {"success", "failure"}, ReturnStored(v)
  PROVE  SequentialInv'
<1>1. Top.rule \in AllRules
  BY TopFrame DEF SequentialInv, SequentialTypeOK, Frames
<1> DEFINE ctx == [context EXCEPT ![Top.rule] = v]
<1>2. /\ ctx \in ContextValues /\ ctx[Top.rule] = v
      /\ \A d \in DependedOn : d # Top.rule => ctx[d] = context[d]
  BY <1>1 DEF SequentialInv, SequentialTypeOK, ContextValues, Verdicts
<1>3. cache' \in CacheValues /\ api' = api /\ Return(v, ctx)
  BY <1>1 DEF ReturnStored, SequentialInv, SequentialTypeOK, CacheValues
<1> HIDE DEF ctx
<1> QED BY <1>2, <1>3, ReturnInv DEF CacheValues, Verdicts

(* The ways out of Rule::execute. *)
LEMMA ReturnStep ==
  ASSUME SequentialInv, DependenciesAreNoChildren,
         \/ CacheHit \/ ReturnInactive \/ Refused \/ ChildFailed \/ ExpressionFails
         \/ \E v \in {"success", "failure"} : Finish(v)
  PROVE  SequentialInv'
<1>0. /\ context \in ContextValues /\ cache \in CacheValues /\ stack \in Seq(Frames)
  BY DEF SequentialInv, SequentialTypeOK, ContextValues, CacheValues
<1>1. CASE CacheHit
  <2>1. stack # << >> /\ cache' = cache /\ api' = api /\ Return(cache[Top.rule], context)
        /\ cache[Top.rule] # "none"
    BY <1>1 DEF CacheHit, At
  <2>2. Top.rule \in AllRules
    BY <1>0, <2>1, TopFrame DEF Frames
  <2>3. cache[Top.rule] \in Verdicts
    BY <1>0, <2>1, <2>2 DEF CacheValues, Verdicts
  <2> QED BY <1>0, <2>1, <2>3, ReturnInv DEF CacheValues
<1>2. CASE ReturnInactive
  <2>1. stack # << >> /\ cache' = cache /\ api' = api /\ Return("skipped", context)
    BY <1>2 DEF ReturnInactive, At
  <2> QED BY <1>0, <2>1, ReturnInv DEF CacheValues, Verdicts
<1>3. CASE Refused \/ ExpressionFails \/ \E v \in {"success", "failure"} : Finish(v)
  BY <1>3, StoredStep DEF Refused, Passes, ExpressionFails, Finish, At
<1>4. CASE ChildFailed
  <2>1. /\ ChildContext \in ContextValues /\ stack # << >> /\ Top.rule \in AllRules
        /\ \A d \in DependedOn : ChildContext[d] = context[d]
    BY <1>4, ChildContextType DEF ChildFailed
  <2> DEFINE ctx == [ChildContext EXCEPT ![Top.rule] = "failure"]
  <2>2. /\ ctx \in ContextValues /\ ctx[Top.rule] = "failure"
        /\ \A d \in DependedOn : d # Top.rule => ctx[d] = context[d]
    BY <2>1 DEF ContextValues, Verdicts
  <2>3. cache' \in CacheValues /\ api' = api /\ Return("failure", ctx)
    BY <1>0, <1>4, <2>1 DEF ChildFailed, CacheValues
  <2> HIDE DEF ctx
  <2> QED BY <2>1, <2>2, <2>3, ReturnInv DEF CacheValues, Verdicts
<1> QED BY <1>1, <1>2, <1>3, <1>4

(* The steps inside of Rule::execute, and the passing of time. *)
LEMMA InnerStep ==
  ASSUME SequentialInv, DependenciesAreNoChildren,
         EnterChildren \/ ExecuteChild \/ AllChildrenPass \/ ExpressionHolds
           \/ \E r \in AllRules : Expire(r)
  PROVE  SequentialInv'
<1>1. /\ api' = api /\ idx' = idx /\ report' = report
  BY DEF EnterChildren, ExecuteChild, AllChildrenPass, ExpressionHolds, Expire
<1>2. RunsAfterSuccess' /\ TracedSkipsForAReason'
  BY <1>1 DEF SequentialInv, RunsAfterSuccess, TracedSkipsForAReason, SkippedForAReason
<1>0. stack \in Seq(Frames) /\ context \in ContextValues /\ cache \in CacheValues
  BY DEF SequentialInv, SequentialTypeOK, ContextValues, CacheValues
<1>3. ASSUME NEW step \in Steps, GoTo(step), stack # << >>, cache' = cache,
             context' \in ContextValues, \A d \in DependedOn : context'[d] = context[d],
             step \in {"expression", "action"} =>
               \A j \in DOMAIN Children[Top.rule] :
                 context'[Children[Top.rule][j]] = "success"
      PROVE  SequentialInv'
  <2>1. /\ stack' \in Seq(Frames) /\ stack' # << >> /\ Len(stack') = Len(stack)
        /\ \A i \in 1..(Len(stack) - 1) : stack'[i] = stack[i]
        /\ stack'[Len(stack)] = [Top EXCEPT !.step = step]
    BY <1>0, <1>3, GoToStack
  <2>2. /\ Len(stack) \in Nat \ {0} /\ DOMAIN stack = 1..Len(stack) /\ Top \in Frames
    BY <1>0, <1>3, TopFrame
  <2>3. DOMAIN stack' = 1..Len(stack)
    BY <2>1, LenProperties
  <2>4. stack'[Len(stack)].rule = stack[Len(stack)].rule /\ stack'[Len(stack)].step = step
    BY <2>1, <2>2 DEF Top, Frames
  <2>5. \A i \in DOMAIN stack : i = Len(stack) \/ i \in 1..(Len(stack) - 1)
    BY <2>2
  <2>6. \A i \in DOMAIN stack : stack'[i].rule = stack[i].rule
    BY <2>1, <2>4, <2>5
  <2>7. SequentialTypeOK'
    BY <1>1, <1>3, <2>1 DEF SequentialInv, SequentialTypeOK, ContextValues
  <2>8. StackInv'
    <3>1. api' # "idle" /\ idx' \in DOMAIN Order /\ stack'[1].rule = Order[idx']
      BY <1>1, <1>3, <2>2, <2>6 DEF SequentialInv, StackInv
    <3>2. \A i \in DOMAIN stack' : i < Len(stack') => stack'[i].step = "children"
      BY <2>1, <2>2, <2>3, <2>5 DEF SequentialInv, StackInv
    <3>3. \A i \in DOMAIN stack' : i > 1 => stack'[i].rule \notin DependedOn
      BY <2>2, <2>3, <2>6 DEF SequentialInv, StackInv
    <3> QED BY <3>1, <3>2, <3>3 DEF StackInv
  <2>9. ParentWaitsForChildren'
    <3> SUFFICES ASSUME NEW i \in DOMAIN stack', stack'[i].step \in {"expression", "action"},
                        NEW j \in DOMAIN Children[stack'[i].rule]
                 PROVE  context'[Children[stack'[i].rule][j]] = "success"
      BY DEF ParentWaitsForChildren
    <3>1. i = Len(stack)
      BY <2>1, <2>2, <2>3, <2>5, <2>8 DEF StackInv
    <3> QED BY <1>3, <2>4, <3>1 DEF Top
  <2>10. ContextInv' /\ LoopInv'
    BY <1>1, <1>3 DEF SequentialInv, ContextInv, LoopInv
  <2> QED BY <1>2, <2>7, <2>8, <2>9, <2>10 DEF SequentialInv
<1>4. CASE EnterChildren
  BY <1>0, <1>3, <1>4 DEF EnterChildren, Passes, At, Steps
<1>5. CASE ExpressionHolds
  <2>1. stack # << >> /\ Top.step = "expression" /\ GoTo("action") /\ context' = context
        /\ cache' = cache
    BY <1>5 DEF ExpressionHolds, At
  <2>2. \A j \in DOMAIN Children[Top.rule] : context[Children[Top.rule][j]] = "success"
    <3>1. Len(stack) \in DOMAIN stack
      BY <1>0, <2>1, TopFrame DEF SequentialInv
    <3> QED BY <1>0, <2>1, <3>1 DEF SequentialInv, ParentWaitsForChildren, Top
  <2> QED BY <1>0, <1>3, <2>1, <2>2 DEF Steps
<1>6. CASE AllChildrenPass
  <2>1. ChildrenDone /\ ChildrenPassed /\ context' = ChildContext /\ GoTo("expression")
        /\ cache' = cache
    BY <1>6 DEF AllChildrenPass
  <2>2. /\ ChildContext \in ContextValues /\ stack # << >>
        /\ \A d \in DependedOn : ChildContext[d] = context[d]
    BY <2>1, ChildContextType
  <2>3. \A j \in DOMAIN Children[Top.rule] : ChildContext[Children[Top.rule][j]] = "success"
    BY <2>1, ChildContextPassed
  <2> QED BY <1>3, <2>1, <2>2, <2>3 DEF Steps
<1>7. CASE ExecuteChild
  <2> DEFINE n == Len(Top.childResults) + 1
             r == Children[Top.rule][n]
  <2>1. /\ stack # << >> /\ Top.step = "children" /\ context' = context /\ cache' = cache
        /\ Len(Top.childResults) < Len(Children[Top.rule])
        /\ stack' = Append(stack, Frame(r))
    BY <1>7 DEF ExecuteChild, At
  <2>2. /\ Len(stack) \in Nat \ {0} /\ DOMAIN stack = 1..Len(stack) /\ Top \in Frames
    BY <1>0, <2>1, TopFrame
  <2>3. Top.rule \in AllRules /\ Top.childResults \in Seq(Verdicts)
        /\ Children[Top.rule] \in Seq(AllRules)
    BY <2>2, ChildrenAssumption DEF Frames
  <2>4. n \in DOMAIN Children[Top.rule]
    BY <2>1, <2>3, LenProperties
  <2>5. r \in AllRules /\ r \notin DependedOn
    BY <2>3, <2>4, ElementOfSeq, LenProperties DEF DependenciesAreNoChildren
  <2>6. Frame(r) \in Frames /\ Frame(r).rule = r /\ Frame(r).step = "enter"
    BY <2>5, EmptySeq DEF Frame, Frames, Steps
  <2> HIDE DEF r, n
  <2> DEFINE f == Frame(r)
  <2> HIDE DEF f
  <2>7. /\ stack' \in Seq(Frames) /\ stack' # << >> /\ Len(stack') = Len(stack) + 1
        /\ \A i \in 1..Len(stack) : stack'[i] = stack[i]
        /\ stack'[Len(stack) + 1] = f
    <3>1. f \in Frames /\ stack' = Append(stack, f)
      BY <2>1, <2>6 DEF f
    <3> QED BY <1>0, <3>1, AppendProperties
  <2>8. DOMAIN stack' = 1..(Len(stack) + 1)
    BY <2>7, LenProperties
  <2>9. f.rule \notin DependedOn /\ f.step = "enter"
    BY <2>5, <2>6 DEF f
  <2>10. \A i \in DOMAIN stack' : i = Len(stack) + 1 \/ i \in 1..Len(stack)
    BY <2>2, <2>8
  <2>11. SequentialTypeOK'
    BY <1>1, <2>1, <2>7 DEF SequentialInv, SequentialTypeOK
  <2>12. StackInv'
    <3>1. api' # "idle" /\ idx' \in DOMAIN Order /\ stack'[1].rule = Order[idx']
      BY <1>1, <2>1, <2>2, <2>7 DEF SequentialInv, StackInv
    <3>2. ASSUME NEW i \in DOMAIN stack', i < Len(stack') PROVE stack'[i].step = "children"
      <4>1. i \in 1..Len(stack) /\ stack'[i] = stack[i]
        BY <2>2, <2>7, <2>10, <3>2
      <4>2. i = Len(stack) \/ i < Len(stack)
        BY <2>2, <4>1
      <4> QED BY <2>1, <2>2, <4>1, <4>2 DEF SequentialInv, StackInv, Top
    <3>3. \A i \in DOMAIN stack' : i > 1 => stack'[i].rule \notin DependedOn
      BY <2>2, <2>7, <2>9, <2>10 DEF SequentialInv, StackInv
    <3> QED BY <3>1, <3>2, <3>3 DEF StackInv
  <2>13. ParentWaitsForChildren'
    <3>1. \A i \in DOMAIN stack' : stack'[i].step \notin {"expression", "action"}
      BY <2>2, <2>7, <2>8, <2>9, <2>10, <2>12 DEF StackInv
    <3> QED BY <3>1 DEF ParentWaitsForChildren
  <2>14. ContextInv' /\ LoopInv'
    BY <1>1, <2>1 DEF SequentialInv, ContextInv, LoopInv
  <2> QED BY <1>2, <2>11, <2>12, <2>13, <2>14 DEF SequentialInv
<1>8. CASE \E r \in AllRules : Expire(r)
  <2>1. context' = context /\ stack' = stack /\ cache' \in CacheValues
    BY <1>0, <1>8 DEF Expire, CacheValues
  <2> QED BY <1>1, <1>2, <2>1 DEF SequentialInv, SequentialTypeOK, StackInv,
      ParentWaitsForChildren, ContextInv, LoopInv, CacheValues
<1> QED BY <1>4, <1>5, <1>6, <1>7, <1>8

(* A workflow that was not called yet. *)
LEMMA SequentialInitInv == SequentialInit => SequentialInv
<1> SUFFICES ASSUME SequentialInit PROVE SequentialInv
  OBVIOUS
<1>1. Order \in Seq(AllRules) /\ Len(Order) \in Nat /\ DOMAIN Order = 1..Len(Order)
      /\ \A i \in DOMAIN Order : Order[i] \in AllRules
  BY OrderAssumption, LenProperties, ElementOfSeq
<1>2. SequentialTypeOK
  BY <1>1, EmptySeq DEF SequentialInit, SequentialTypeOK
<1>3. StackInv /\ ParentWaitsForChildren
  BY DEF SequentialInit, StackInv, ParentWaitsForChildren
<1>4. ContextInv /\ LoopInv /\ RunsAfterSuccess /\ TracedSkipsForAReason
  BY <1>1 DEF SequentialInit, ContextInv, LoopInv, RunsAfterSuccess,
     TracedSkipsForAReason, SkippedForAReason, DependedOn, TopLevel, Verdicts
<1> QED BY <1>2, <1>3, <1>4 DEF SequentialInv

(* Every step of the three callers keeps the invariant. *)
LEMMA SequentialNextInv ==
  DependenciesAreNoChildren /\ SequentialInv /\ [SequentialNext]_sequentialVars
    => SequentialInv'
<1> SUFFICES ASSUME DependenciesAreNoChildren, SequentialInv,
                    [SequentialNext]_sequentialVars
             PROVE  SequentialInv'
  OBVIOUS
<1>1. CASE UNCHANGED sequentialVars
  BY <1>1 DEF sequentialVars, SequentialInv, SequentialTypeOK, StackInv,
     ParentWaitsForChildren, ContextInv, LoopInv, RunsAfterSuccess,
     TracedSkipsForAReason, SkippedForAReason
<1>2. CASE SequentialNext
  BY <1>2, LoopStep, ReturnStep, InnerStep DEF SequentialNext, Step
<1> QED BY <1>1, <1>2

(* The invariant holds in every state. *)
LEMMA SequentialInvariance ==
  ASSUME DependenciesAreNoChildren PROVE SequentialSpec => []SequentialInv
<1>1. SequentialInv /\ [SequentialNext]_sequentialVars => SequentialInv'
  BY SequentialNextInv
<1> QED BY <1>1, SequentialInitInv, PTL DEF SequentialSpec

(* Workflow::execute, executeWithTrace and executeStreaming run a rule     *)
(* only after the rule it depends on has succeeded in this call, and       *)
(* Rule::execute evaluates a rule only after its children have succeeded,  *)
(* for every workflow, tree of children and cache.                         *)
THEOREM RunsWhenDue ==
  ASSUME DependenciesAreNoChildren PROVE SequentialSpec => []RunsOnlyWhenDue
<1>1. SequentialInv => RunsOnlyWhenDue
  BY DEF SequentialInv, RunsOnlyWhenDue
<1>2. SequentialSpec => []SequentialInv
  BY SequentialInvariance
<1> QED BY <1>1, <1>2, PTL

(* executeWithTrace and executeStreaming report a failed dependency only   *)
(* when the dependency did not succeed in this call.                       *)
THEOREM TracedSkips ==
  ASSUME DependenciesAreNoChildren PROVE SequentialSpec => []TracedSkipsForAReason
<1>1. SequentialInv => TracedSkipsForAReason
  BY DEF SequentialInv
<1>2. SequentialSpec => []SequentialInv
  BY SequentialInvariance
<1> QED BY <1>1, <1>2, PTL
=============================================================================
