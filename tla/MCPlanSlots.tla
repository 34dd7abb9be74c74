---------------------------- MODULE MCPlanSlots ----------------------------
(* Instances of PlanSlots. *)
EXTENDS PlanSlots

J(nodes, ppn, mem, scratch, time, excl, prio) ==
  [nodes |-> nodes, ppn |-> ppn, need |-> [mem |-> mem, scratch |-> scratch], time |-> time,
   excl |-> excl, prio |-> prio]

Mem(m, s) == [mem |-> m, scratch |-> s]

\* Three running jobs; job 4 takes two whole nodes, has priority and is moved
\* by the optimization, job 5 is exclusive and has priority.  The memory that
\* job 3 leaves on node 2 is too small for job 4 and is only used as a last
\* resort, which brings the CPUs of node 2 in front of those of other nodes.
MixCores == <<2, 2, 2>>
MixCapacity == <<Mem(4, 4), Mem(4, 4), Mem(4, 4)>>
MixJob == <<J(1, 1, 1, 0, 1, FALSE, FALSE), J(1, 1, 1, 0, 2, FALSE, FALSE), J(1, 1, 3, 0, 3, FALSE, FALSE),
            J(2, 2, 2, 2, 1, FALSE, TRUE), J(1, 1, 1, 0, 1, TRUE, TRUE)>>
MixAllowed == [j \in 1 .. 5 |-> IF j = 5 THEN {1, 3} ELSE 1 .. 3]
MixAvail == <<0, 3, 0>>
MixDelays == [j \in 1 .. 5 |-> IF j = 5 THEN {1} ELSE {0}]
MixStates == <<{"free"}, {"free", "down"}, {"free"}>>
MixRunning == <<1, 2, 3>>
MixHeld == <<{2}, {6}, {4}, {}, {}>>

\* One exclusive job and two running ones, one on the first CPU of each node.
ExclCores == <<2, 2>>
ExclCapacity == <<Mem(4, 4), Mem(4, 4)>>
ExclJob == <<J(1, 1, 1, 0, 5, FALSE, FALSE), J(1, 1, 1, 0, 3, FALSE, FALSE), J(1, 1, 1, 0, 1, TRUE, FALSE)>>
ExclAllowed == <<{1, 2}, {1, 2}, {1, 2}>>
ExclAvail == <<0, 0>>
ExclDelays == <<{0}, {0}, {0}>>
ExclStates == <<{"free"}, {"free"}>>
ExclRunning == <<1, 2>>
ExclHeld == <<{1}, {3}, {}>>
=============================================================================
