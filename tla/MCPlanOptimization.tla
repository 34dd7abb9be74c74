------------------------- MODULE MCPlanOptimization -------------------------
(* An instance of PlanOptimization. *)
EXTENDS PlanOptimization

J(user, qtime, time, root, share, node, from, prio) ==
  [user |-> user, qtime |-> qtime, time |-> time, root |-> root, share |-> share, node |-> node, start |-> from,
   prio |-> prio]

\* Jobs 1, 2, 3 and 5 are queued, 1 and 2 with priority; jobs 4 and 6 run on
\* cluster 1.  User "b" has one job only.
SmallJob ==
  <<J("a", -1, 1, 1, 1, 0, 0, TRUE), J("a", 0, 1, 2, 1, 0, 0, TRUE), J("b", 0, 2, 1, 1, 0, 0, FALSE),
    J("c", -2, 2, 1, 1, 1, -1, FALSE), J("c", 0, 1, 1, 1, 0, 0, FALSE), J("c", -1, 1, 1, 1, 2, -1, FALSE)>>

\* One priority job on each cluster, two on the first, and the same without
\* running jobs, where failing updates make the list too short.
SmallPlans ==
  {<<<<1, 4, 6, 3, 5>>, <<2>>>>, <<<<1, 2, 4, 6, 3>>, <<5>>>>, <<<<1, 2, 3, 5>>, <<4, 6>>>>}
=============================================================================
