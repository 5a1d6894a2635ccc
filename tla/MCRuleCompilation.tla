-------------------------- MODULE MCRuleCompilation --------------------------
(* Two engines; a parent that only has its child to compile, and the child  *)
(* with an expression that is used and edited.                              *)
EXTENDS RuleCompilation, TLC

CONSTANTS parent, child
MCChildren == parent :> {child} @@ child :> {}

(* The rules begin with one text; the edits of the child make them differ.  *)
EnginesInit == Init /\ source[parent] = source[child]
EnginesSpec == EnginesInit /\ [][Next]_vars /\ Fairness
=============================================================================
