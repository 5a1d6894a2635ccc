------------------------- MODULE SequentialWorkflow -------------------------
(***************************************************************************)
(* One thread that executes a workflow again and again with the same       *)
(* parameters: Workflow::execute, executeWithTrace and executeStreaming    *)
(* over the whole of Rule::execute, with the rule's cache, its children    *)
(* and its result in the RuleContext of the call.  Order is what           *)
(* resolveExecutionOrder returns; results in the context are under the     *)
(* rule, that is, names are distinct.                                      *)
(***************************************************************************)
EXTENDS Integers, Sequences

CONSTANTS
  AllRules,   \* the rules of the workflow and the rules below them
  Order,      \* the top-level rules in execution order
  Children,   \* Children[r]: childRules
  DependsOn,  \* DependsOn[r]: the rule it depends on, or NoDependency
  NoDependency,
  Active,     \* the rules with isActive
  Cached,     \* the rules with a cacheDuration
  Apis        \* the entry points that are called

TopLevel == {Order[i] : i \in DOMAIN Order}

(* No rule is above itself: validate() refuses circular children.  The     *)
(* order of buildDependencyLevels has each rule once, after the rule it    *)
(* depends on.                                                             *)
ASSUME OrderAssumption ==
  /\ Order \in Seq(AllRules)
  /\ \A i, j \in DOMAIN Order :
       /\ Order[i] = Order[j] => i = j
       /\ DependsOn[Order[i]] = Order[j] => j < i
ASSUME DependencyAssumption == NoDependency \notin AllRules
ASSUME ChildrenAssumption == Children \in [AllRules -> Seq(AllRules)]
ASSUME ApisAssumption == Apis \subseteq {"execute", "trace", "stream"}

VARIABLES
  api,       \* the entry point in use, "idle" between calls
  idx,       \* the rule of Order the call has come to
  context,   \* RuleContext::results_
  report,    \* report[r]: what this call has decided about top-level rule r
  cache,     \* cache[r]: the result in the cache of r, "none" if there is none
  stack      \* the executions of Rule::execute in progress, innermost last

sequentialVars == <<api, idx, context, report, cache, stack>>

Verdicts == {"success", "failure", "skipped"}
Steps == {"enter", "children", "expression", "action"}
Frames == [rule : AllRules, step : Steps, childResults : Seq(Verdicts)]

SequentialTypeOK ==
  /\ api \in Apis \cup {"idle"}
  /\ idx \in 1..(Len(Order) + 1)
  /\ context \in [AllRules -> Verdicts \cup {"none"}]
  /\ report \in [AllRules -> Verdicts \cup {"none", "dependencyFailed"}]
  /\ cache \in [AllRules -> {"none", "success", "failure"}]
  /\ stack \in Seq(Frames)

SequentialInit ==
  /\ api = "idle"
  /\ idx = 1
  /\ context = [r \in AllRules |-> "none"]
  /\ report = [r \in AllRules |-> "none"]
  /\ cache = [r \in AllRules |-> "none"]
  /\ stack = << >>

(***************************************************************************)
(* The loop over the execution order.                                      *)
(***************************************************************************)
Call(a) ==
  /\ api = "idle"
  /\ api' = a
  /\ idx' = 1
  /\ context' = [r \in AllRules |-> "none"]
  /\ report' = [r \in AllRules |-> "none"]
  /\ UNCHANGED <<cache, stack>>

InLoop == api # "idle" /\ stack = << >> /\ idx <= Len(Order)

DependencyOK(r) ==
  \/ DependsOn[r] = NoDependency
  \/ DependsOn[r] \in AllRules /\ context[DependsOn[r]] = "success"

SkipInactive ==
  /\ InLoop
  /\ Order[idx] \notin Active
  /\ idx' = idx + 1
  /\ UNCHANGED <<api, context, report, cache, stack>>

SkipDependent ==
  /\ InLoop
  /\ Order[idx] \in Active
  /\ ~DependencyOK(Order[idx])
  /\ report' = [report EXCEPT ![Order[idx]] = "dependencyFailed"]
  /\ idx' = idx + 1
  /\ UNCHANGED <<api, context, cache, stack>>

Frame(r) == [rule |-> r, step |-> "enter", childResults |-> << >>]

ExecuteRule ==
  /\ InLoop
  /\ Order[idx] \in Active
  /\ DependencyOK(Order[idx])
  /\ stack' = <<Frame(Order[idx])>>
  /\ UNCHANGED <<api, idx, context, report, cache>>

EndCall ==
  /\ api # "idle" /\ stack = << >> /\ idx > Len(Order)
  /\ api' = "idle"
  /\ UNCHANGED <<idx, context, report, cache, stack>>

(* The consumer of a StreamingResult need not pull it to the end. *)
Abandon ==
  /\ api = "stream" /\ stack = << >> /\ idx <= Len(Order)
  /\ api' = "idle"
  /\ UNCHANGED <<idx, context, report, cache, stack>>

(***************************************************************************)
(* Rule::execute.                                                          *)
(***************************************************************************)
Top == stack[Len(stack)]
Below == SubSeq(stack, 1, Len(stack) - 1)
At(step) == stack # << >> /\ Top.step = step
GoTo(step) == stack' = Append(Below, [Top EXCEPT !.step = step])

(* A bug: executeWithTrace and executeStreaming leave the context alone. *)
CallerContextNever(r, v, ctx) == ctx

(* What the caller adds to the context when the result of a top-level rule *)
(* comes back: executeWithTrace and executeStreaming set it, execute does  *)
(* not.                                                                    *)
CallerContext(r, v, ctx) == IF api = "execute" THEN ctx ELSE [ctx EXCEPT ![r] = v]

(* Rule::execute of the top frame returns v, having left ctx as context:   *)
(* to the loop of the workflow, or to the execution of its parent.         *)
Return(v, ctx) ==
  IF Len(stack) = 1
  THEN /\ stack' = << >>
       /\ report' = [report EXCEPT ![Top.rule] = v]
       /\ context' = CallerContext(Top.rule, v, ctx)
       /\ idx' = idx + 1
  ELSE /\ stack' = [Below EXCEPT ![Len(Below)].childResults = Append(@, v)]
       /\ context' = ctx
       /\ UNCHANGED <<report, idx>>

(* The other ways out store the result in the context and in the cache. *)
ReturnStored(v) ==
  /\ Return(v, [context EXCEPT ![Top.rule] = v])
  /\ cache' = IF Top.rule \in Cached THEN [cache EXCEPT ![Top.rule] = v] ELSE cache
  /\ UNCHANGED api

CacheHit ==
  /\ At("enter")
  /\ cache[Top.rule] # "none"
  /\ Return(cache[Top.rule], context)
  /\ UNCHANGED <<api, cache>>

(* Reached for children: the loop passes over inactive top-level rules. *)
ReturnInactive ==
  /\ At("enter")
  /\ cache[Top.rule] = "none"
  /\ Top.rule \notin Active
  /\ Return("skipped", context)
  /\ UNCHANGED <<api, cache>>

Passes == At("enter") /\ cache[Top.rule] = "none" /\ Top.rule \in Active

(* RateLimitException, or parameters of the wrong type. *)
Refused == Passes /\ ReturnStored("failure")

EnterChildren ==
  /\ Passes
  /\ GoTo("children")
  /\ UNCHANGED <<api, idx, context, report, cache>>

ExecuteChild ==
  /\ At("children")
  /\ Len(Top.childResults) < Len(Children[Top.rule])
  /\ stack' = Append(stack, Frame(Children[Top.rule][Len(Top.childResults) + 1]))
  /\ UNCHANGED <<api, idx, context, report, cache>>

ChildrenDone == At("children") /\ Len(Top.childResults) = Len(Children[Top.rule])

(* Child results, under the child's key.  A rule listed twice keeps the    *)
(* last one.                                                               *)
ChildContext ==
  [r \in AllRules |->
     LET places == {i \in DOMAIN Top.childResults : Children[Top.rule][i] = r}
     IN IF places = {} THEN context[r]
        ELSE Top.childResults[CHOOSE i \in places : \A j \in places : j <= i]]

(* A bug: the verdict of the last child decides. *)
ChildrenPassedLast ==
  \A i \in DOMAIN Top.childResults :
    i = Len(Top.childResults) => Top.childResults[i] = "success"

ChildrenPassed == \A i \in DOMAIN Top.childResults : Top.childResults[i] = "success"

(* A bug: the children are tried again until they pass. *)
ChildFailedRetries ==
  /\ ChildrenDone
  /\ ~ChildrenPassed
  /\ stack' = Append(Below, Frame(Top.rule))
  /\ UNCHANGED <<api, idx, context, report, cache>>

ChildFailed ==
  /\ ChildrenDone
  /\ ~ChildrenPassed
  /\ Return("failure", [ChildContext EXCEPT ![Top.rule] = "failure"])
  /\ cache' = IF Top.rule \in Cached THEN [cache EXCEPT ![Top.rule] = "failure"] ELSE cache
  /\ UNCHANGED api

AllChildrenPass ==
  /\ ChildrenDone
  /\ ChildrenPassed
  /\ context' = ChildContext
  /\ GoTo("expression")
  /\ UNCHANGED <<api, idx, report, cache>>

(* The expression is false or throws, or there is none or it is true. *)
ExpressionFails == At("expression") /\ ReturnStored("failure")

ExpressionHolds ==
  /\ At("expression")
  /\ GoTo("action")
  /\ UNCHANGED <<api, idx, context, report, cache>>

(* The action throws, or there is none or it is done. *)
Finish(v) == At("action") /\ ReturnStored(v)

(* The cacheDuration of r passes. *)
Expire(r) ==
  /\ cache[r] # "none"
  /\ cache' = [cache EXCEPT ![r] = "none"]
  /\ UNCHANGED <<api, idx, context, report, stack>>

Step ==
  \/ SkipInactive \/ SkipDependent \/ ExecuteRule \/ EndCall
  \/ CacheHit \/ ReturnInactive \/ Refused
  \/ EnterChildren \/ ExecuteChild \/ ChildFailed \/ AllChildrenPass
  \/ ExpressionFails \/ ExpressionHolds
  \/ \E v \in {"success", "failure"} : Finish(v)

SequentialNext ==
  \/ \E a \in Apis : Call(a)
  \/ Step
  \/ Abandon
  \/ \E r \in AllRules : Expire(r)

SequentialSpec == SequentialInit /\ [][SequentialNext]_sequentialVars

(* The calling thread keeps running; who pulls a stream may stop. *)
SequentialFairSpec == SequentialSpec /\ WF_sequentialVars(api # "stream" /\ Step)

(***************************************************************************)
(* Properties                                                              *)
(***************************************************************************)

(* The dependent of a rule that this call has reported as a success is not *)
(* skipped, whether the success was computed now or taken from the cache:  *)
(* "If the dependency rule fails or doesn't exist, this rule is skipped"   *)
(* (rule.hpp:310-311), and only then.  Workflow::execute breaks this.      *)
SkippedForAReason ==
  \A r \in TopLevel :
    report[r] = "dependencyFailed" /\ DependsOn[r] \in TopLevel =>
      report[DependsOn[r]] # "success"

(* executeWithTrace and executeStreaming keep it, because they put every   *)
(* result into the context themselves, one from the cache included.        *)
TracedSkipsForAReason == api \in {"trace", "stream"} => SkippedForAReason

(* And a dependent runs only after its dependency has passed in this call. *)
RunsAfterSuccess ==
  \A r \in TopLevel :
    report[r] \in Verdicts /\ DependsOn[r] \in TopLevel =>
      report[DependsOn[r]] = "success"

(* "parent only evaluates if ALL children pass" (rule.cpp:623): while the  *)
(* expression or the action of a rule runs, each of its children has       *)
(* passed, and the context it can read says so.                            *)
ParentWaitsForChildren ==
  \A i \in DOMAIN stack :
    stack[i].step \in {"expression", "action"} =>
      \A j \in DOMAIN Children[stack[i].rule] :
        context[Children[stack[i].rule][j]] = "success"

(* Every call that is not a stream ends, whatever the rules and children do. *)
CallEnds == api \in {"execute", "trace"} ~> api = "idle"

(* A rule is evaluated only when it is due: after its dependency's success *)
(* and after all its children, in whichever way they got their results.    *)
RunsOnlyWhenDue == SequentialTypeOK /\ RunsAfterSuccess /\ ParentWaitsForChildren
=============================================================================
