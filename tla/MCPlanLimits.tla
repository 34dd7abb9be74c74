---------------------------- MODULE MCPlanLimits ----------------------------
(***************************************************************************)
(* Instances of PlanLimits for TLC.                                        *)
(***************************************************************************)
EXTENDS PlanLimits, TLC

CONSTANTS r1, q1, q2, q3

\* One running and three queued jobs; q1 and q2 belong to one account and,
\* with r1, to the second walltime class.
MCAccount == (r1 :> 2) @@ (q1 :> 1) @@ (q2 :> 1) @@ (q3 :> 3)
MCCpus == (r1 :> 1) @@ (q1 :> 1) @@ (q2 :> 2) @@ (q3 :> 1)
MCWalltime == (r1 :> 2) @@ (q1 :> 2) @@ (q2 :> 3) @@ (q3 :> 1)
MCThresholds == <<1, 3>>

Values(u, g) == [user |-> [c \in 1 .. 2 |-> u], global |-> [c \in 1 .. 2 |-> g]]
\* With the smallest values q2 alone is too large: nodes were lost after it
\* had been accepted.
MCLimitValues == {Values(1, 1), Values(2, 3), Values(3, 3)}
=============================================================================
