------------------------- MODULE MCParallelWorkflow -------------------------
(* One executeParallel and two executeAsync that compete with it for two    *)
(* engines.  Six rules: 1 to 4 in the first level, of which 3 is inactive   *)
(* and 4 names a rule that does not exist, one batch more than the pool     *)
(* takes at once; 5 depends on 1, and 6 on the inactive 3.  Rule 2 has a    *)
(* child of the name that 4 depends on.                                     *)
EXTENDS ParallelWorkflow

MCLevelOf == <<1, 1, 1, 1, 2, 2>>
MCDependsOn == <<NoDep, NoDep, NoDep, 0, 1, 3>>
MCChildKeys == <<{}, {0}, {}, {}, {}, {}>>
(* Instead, a child of the name of rule 3. *)
MCChildNamedAsRule == <<{}, {3}, {}, {}, {}, {}>>
MCActive == {1, 2, 4, 5, 6}
=============================================================================
