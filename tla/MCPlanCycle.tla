---------------------------- MODULE MCPlanCycle ----------------------------
(***************************************************************************)
(* Instances of PlanCycle for TLC.                                         *)
(***************************************************************************)
EXTENDS PlanCycle

CONSTANTS j1, j2

MCNumTwo == (j1 :> 1) @@ (j2 :> 2)
=============================================================================
