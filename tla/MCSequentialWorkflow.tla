------------------------ MODULE MCSequentialWorkflow ------------------------
(* Rule 1 has the children 4 and 5, and 5 has 6.  2 depends on 1, 3 on 2, and *)
(* 9 on the inactive 8.  The only child of 3, 7, is inactive.                 *)
EXTENDS SequentialWorkflow

MCOrder == <<1, 8, 2, 9, 3>>
MCChildren == <<<<4, 5>>, << >>, <<7>>, << >>, <<6>>, << >>, << >>, << >>, << >>>>
MCDependsOn == <<NoDependency, 1, 2, NoDependency, NoDependency, NoDependency, NoDependency, NoDependency, 8>>
MCActive == AllRules \ {7, 8}
=============================================================================
