----------------------------- MODULE MCPlanList -----------------------------
(***************************************************************************)
(* An instance of PlanList for TLC.                                        *)
(***************************************************************************)
EXTENDS PlanList

CONSTANTS a, b, c, d
=============================================================================
