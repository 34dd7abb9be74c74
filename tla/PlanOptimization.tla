-------------------------- MODULE PlanOptimization --------------------------
(***************************************************************************)
(* The optimization of the plan (plan_optimization.cpp): random moves of   *)
(* queued jobs, each kept when the evaluation of the plan                  *)
(* (plan_evaluation.cpp, plan_fairshare.cpp) says that it is better, and   *)
(* taken back otherwise.                                                   *)
(*                                                                         *)
(* update_sched is that of PlanSlots and PlanLimits for jobs of one CPU on *)
(* nodes of one CPU; a job that it cannot place, for whatever reason, is   *)
(* freed, and that happens MaxFailures times.  The evaluation is that of   *)
(* the code but for rounding: its three averages are kept as sums, scaled  *)
(* to integers.                                                            *)
(***************************************************************************)
EXTENDS Integers, SequencesExt, FiniteSetsExt

CONSTANTS
  NumClusters,
  NumNodes,     \* nodes of each cluster
  Queued,       \* the queued jobs
  Running,      \* the running ones
  Completing,   \* those that complete between two calls
  Job,          \* Job[j]: [user, qtime, time, root, share, node, start, prio]
  Plans,        \* the plans that the optimization may find: sequences of jobs per cluster
  MinQueued,    \* conf.optim_minimal_queued
  OptimCycles,  \* optim_cycles
  MaxFailures,  \* how many updates fail to place a job
  MaxCalls,     \* how often plan_run calls plan_optimization
  TimeScale,    \* a multiple of every walltime
  FuScale       \* a multiple of every sum of shares, times the number of users

Jobs == Queued \cup Running
Clusters == 1 .. NumClusters
Nodes == 1 .. NumNodes

\* time_now of the cycle.
Now == 0

ASSUME SizesAssumption ==
  /\ NumClusters \in Nat \ {0} /\ NumNodes \in Nat \ {0}
  /\ TimeScale \in Nat /\ FuScale \in Nat

ASSUME JobsAssumption ==
  /\ IsFiniteSet(Jobs) /\ 0 \notin Jobs /\ Queued \cap Running = {} /\ Completing \subseteq Running
  /\ \A j \in Jobs : /\ Job[j].qtime \in Int /\ Job[j].start \in Int
                     /\ Job[j].time \in Nat /\ Job[j].root \in Nat /\ Job[j].share \in Nat
                     /\ Job[j].qtime <= Now
                     /\ (j \in Running => Job[j].qtime <= Job[j].start /\ Job[j].start <= Now)

\* The queued jobs that update_sched moves to the front: priority 42, the
\* account galaxyelixir or a gpu request.
Prio(j) == j \in Queued /\ Job[j].prio

\* Every job is in one of the lists, once, and the priority jobs come first.
ASSUME PlansAssumption ==
  \A p \in Plans :
    /\ p \in [Clusters -> Seq(Jobs)]
    /\ \A j \in Jobs : \E k \in Clusters : \E q \in DOMAIN p[k] : p[k][q] = j
    /\ \A k, l \in Clusters : \A q \in DOMAIN p[k], r \in DOMAIN p[l] :
         p[k][q] = p[l][r] => k = l /\ q = r
    /\ \A k \in Clusters : \A q, r \in DOMAIN p[k] : q < r /\ Prio(p[k][r]) => Prio(p[k][q])

VARIABLES
  plan,       \* schedule->jobs
  fixed,      \* fixed_nname_arr, 0 when NULL
  kept,       \* fixed_nname_arr_backup, 0 when NULL
  start,      \* start_time
  numQueued,  \* num_queued_jobs of a cluster
  hasGap,     \* schedule->gaps has a last gap
  freed,      \* the jobs that were freed
  marked,     \* priority jobs that an update has moved and not passed yet
  fslist,     \* completed wait time and Fu of the users seen so far
  phase,      \* "idle", "ready", "head", "draw", "update", "put", "evaluate", "decide", "check", "crash"
  update,     \* who called update_sched: [next, tries]
  backup,     \* job order before the move
  moved,      \* the job taken out
  pred,       \* its predeccessor, 0 when NULL
  before,     \* evaluation_before
  after,      \* evaluation_after
  given,      \* history: the evaluations that were improved in this call
  i, cl,      \* the loops of plan_optimization
  late,       \* optim_duration is over
  fails, calls

vars == <<plan, fixed, kept, start, numQueued, hasGap, freed, marked, fslist, phase, update, backup, moved,
          pred, before, after, given, i, cl, late, fails, calls>>

(***************************************************************************)
(* Evaluation.                                                             *)
(***************************************************************************)
Planned == UNION {ToSet(plan[k]) : k \in Clusters}
job_wait_time(j, st) == (st[j] - Job[j].qtime) * Job[j].root

\* Times TimeScale.
job_slowdown_time(j, st) ==
  IF Job[j].time < 1 THEN (st[j] + Job[j].time - Job[j].qtime) * TimeScale
  ELSE (st[j] + Job[j].time - Job[j].qtime) * Job[j].root * (TimeScale \div Job[j].time)

PlannedFu(u, jobs) == SumFunction([j \in {j \in jobs : Job[j].user = u} |-> Job[j].share * Job[j].time])
PlannedWait(u, jobs, st) == SumFunction([j \in {j \in jobs : Job[j].user = u} |-> st[j] - Job[j].qtime])

\* The users of the planned jobs are added, with nothing completed.
fairshare_add_user(fs, jobs) ==
  [u \in DOMAIN fs \cup {Job[j].user : j \in jobs} |->
    IF u \in DOMAIN fs THEN fs[u] ELSE [wait |-> 0, Fu |-> 0]]

\* The sum of squares, times FuScale ^ 2; -1 stands for NaN, which one user
\* without any planned or completed work is enough for.
fairshare_result_max(fs, jobs, st) ==
  LET fu == [u \in DOMAIN fs |-> fs[u].Fu + PlannedFu(u, jobs)]
      x == [u \in DOMAIN fs |-> ((fs[u].wait + PlannedWait(u, jobs, st)) * FuScale) \div fu[u]]
      mean == SumFunction(x) \div Cardinality(DOMAIN fs)
  IN  IF \E u \in DOMAIN fs : fu[u] = 0 THEN -1
      ELSE SumFunction([u \in DOMAIN fs |-> (FuScale + mean - x[u]) * (FuScale + mean - x[u])])

evaluate_schedule(fs, jobs, st) ==
  [num |-> Cardinality(jobs \cap Queued),
   slowdown |-> SumFunction([j \in jobs \cap Queued |-> job_slowdown_time(j, st)]),
   wait |-> SumFunction([j \in jobs \cap Queued |-> job_wait_time(j, st)]),
   fairness |-> fairshare_result_max(fs, jobs, st)]

\* Sum of the weighted relative changes, over a common denominator.
Weight(b, a) ==
  LET n == IF a.num = 0 THEN 1 ELSE a.num
  IN  (b.slowdown * n - a.slowdown * b.num) * b.wait * b.fairness
      + (b.wait * n - a.wait * b.num) * b.slowdown * b.fairness
      + 10 * (b.fairness - a.fairness) * b.slowdown * b.wait * n

\* Mutant: a plan that is as good is taken too.
better_or_equal(b, a) == b.wait > 0 /\ b.fairness >= 0 /\ a.fairness >= 0 /\ Weight(b, a) >= 0

\* A comparison with NaN or minus infinity is false: no move is taken while
\* no job waits.
Better(b, a) == b.wait > 0 /\ b.fairness >= 0 /\ a.fairness >= 0 /\ Weight(b, a) > 0

\* evaluation_reset.
None == [num |-> 0, slowdown |-> 0, wait |-> 0, fairness |-> 0]

(***************************************************************************)
(* Update of a cluster.                                                    *)
(***************************************************************************)
\* When a node of the cluster with these jobs gets free: an overdue job is
\* expected to end in a moment.
FreeFrom(list, n) ==
  LET here == {j \in Running \cap ToSet(list) : Job[j].node = n}
  IN  IF here = {} THEN Now ELSE Max({Now + 1} \cup {Job[j].start + Job[j].time : j \in here})

EarliestNode(free) ==
  CHOOSE n \in Nodes : \A m \in Nodes \ {n} : free[n] < free[m] \/ (free[n] = free[m] /\ n < m)

\* A job is placed on its fixed node, or on the one that is free first.
PlaceNext(acc, j) ==
  IF j \in Running THEN acc
  ELSE LET n == IF acc.fixed[j] # 0 THEN acc.fixed[j] ELSE EarliestNode(acc.free)
       IN  [free |-> [acc.free EXCEPT ![n] = @ + Job[j].time],
            start |-> [acc.start EXCEPT ![j] = acc.free[n]],
            fixed |-> [acc.fixed EXCEPT ![j] = n]]

\* The first m jobs of the list, with the times and nodes so far.
Placements(list, m, st, fx) ==
  LET placed[q \in 0 .. m] ==
        IF q = 0 THEN [free |-> [n \in Nodes |-> FreeFrom(list, n)], start |-> st, fixed |-> fx]
        ELSE PlaceNext(placed[q - 1], list[q])
  IN placed[m]

QueuedIn(list) == Cardinality(ToSet(list) \cap Queued)

Call(next) == phase' = "update" /\ update' = [next |-> next, tries |-> 1]

Moves(j) == Prio(j) /\ j \notin marked

PlaceOf(list, j) == CHOOSE q \in DOMAIN list : list[q] = j

Unlinked(list, j) == RemoveAt(list, PlaceOf(list, j))

Behind(list, at, j) ==
  IF at = 0 THEN <<j>> \o list
  ELSE InsertAt(list, 1 + PlaceOf(list, at), j)

\* The first loop of update_sched: the first priority job without a mark.
MoveToFront ==
  /\ phase = "update"
  /\ \E p \in DOMAIN plan[cl] :
       /\ Moves(plan[cl][p]) /\ \A q \in 1 .. (p - 1) : ~Moves(plan[cl][q])
       /\ plan' = [plan EXCEPT ![cl] = Behind(Unlinked(@, @[p]), 0, @[p])]
       /\ marked' = marked \cup {plan[cl][p]}
  /\ UNCHANGED <<fixed, kept, start, numQueued, hasGap, freed, fslist, phase, update, backup, moved, pred,
                 before, after, given, i, cl, late, fails, calls>>

\* The second loop can begin.
InFront == \A j \in ToSet(plan[cl]) : ~Moves(j)

\* plan_run goes on with the next cluster, other callers with what they do.
Return ==
  IF update.next = "ready" /\ cl < NumClusters
  THEN cl' = cl + 1 /\ UNCHANGED <<phase, update>>
  ELSE phase' = update.next /\ UNCHANGED <<cl, update>>

UpdateDone ==
  /\ phase = "update" /\ InFront
  /\ \E r \in {Placements(plan[cl], Len(plan[cl]), start, fixed)} : start' = r.start /\ fixed' = r.fixed
  /\ numQueued' = [numQueued EXCEPT ![cl] = QueuedIn(plan[cl])]
  /\ hasGap' = [hasGap EXCEPT ![cl] = TRUE]
  /\ marked' = marked \ ToSet(plan[cl])
  /\ Return
  /\ UNCHANGED <<plan, kept, freed, fslist, backup, moved, pred, before, after, given, i, late, fails, calls>>

\* The update returns 2 in the middle of the list; it is repeated once, by
\* plan_run until it succeeds.  Gaps in front of the jobs already placed stay.
UpdateFails ==
  /\ phase = "update" /\ InFront /\ fails < MaxFailures
  /\ \E p \in DOMAIN plan[cl] :
       /\ plan[cl][p] \in Queued
       /\ \E r \in {Placements(plan[cl], p - 1, start, fixed)} : start' = r.start /\ fixed' = r.fixed
       /\ numQueued' = [numQueued EXCEPT ![cl] = QueuedIn(SubSeq(plan[cl], 1, p))]
       /\ \E g \in {FALSE, QueuedIn(SubSeq(plan[cl], 1, p)) > 1} : hasGap' = [hasGap EXCEPT ![cl] = g]
       /\ marked' = marked \ {plan[cl][q] : q \in 1 .. p}
       /\ freed' = freed \cup {plan[cl][p]}
       /\ plan' = [plan EXCEPT ![cl] = RemoveAt(@, p)]
  /\ IF update.tries = 1 \/ update.next = "ready"
     THEN update' = [update EXCEPT !.tries = 2] /\ UNCHANGED phase
     ELSE phase' = update.next /\ UNCHANGED update
  /\ fails' = fails + 1
  /\ UNCHANGED <<kept, fslist, backup, moved, pred, before, after, given, i, cl, late, calls>>

(***************************************************************************)
(* The random move.                                                        *)
(***************************************************************************)
\* What list_get_random_item may return, 0 for NULL.
list_get_random_item(list, limit) == IF Len(list) < limit THEN {0} ELSE ToSet(list)

PredeccessorOf(list, j) == LET p == PlaceOf(list, j) IN IF p = 1 THEN 0 ELSE list[p - 1]

\* The first loop ends with a queued job, which is taken out of the list.
TakeOut ==
  /\ phase = "draw"
  /\ \E j \in list_get_random_item(plan[cl], MinQueued) \cap Queued :
       /\ moved' = j
       /\ pred' = PredeccessorOf(plan[cl], j)
       /\ kept' = IF fixed[j] = 0 THEN kept ELSE [kept EXCEPT ![j] = fixed[j]]
       /\ fixed' = [fixed EXCEPT ![j] = 0]
       /\ plan' = [plan EXCEPT ![cl] = Unlinked(@, j)]
  /\ Call("put")
  /\ UNCHANGED <<start, numQueued, hasGap, freed, marked, fslist, backup, before, after, given, i, cl, late, fails, calls>>

\* The two loops draw again.
Redraw ==
  /\ \/ phase = "draw" /\ list_get_random_item(plan[cl], MinQueued) \ Queued # {}
     \/ phase = "put" /\ pred \in list_get_random_item(plan[cl], MinQueued - 1)
  /\ UNCHANGED vars

\* Mutant: the second loop goes on while it gets NULL, like the first.
put_needs_item ==
  /\ phase = "put"
  /\ \E t \in list_get_random_item(plan[cl], MinQueued - 1) \ {pred, 0} :
       plan' = [plan EXCEPT ![cl] = Behind(@, t, moved)]
  /\ Call("evaluate")
  /\ UNCHANGED <<fixed, kept, start, numQueued, hasGap, freed, marked, fslist, backup, moved, pred, before, after, given, i, cl, late, fails, calls>>

\* The second loop ends with anything but the old predeccessor.
PutBack ==
  /\ phase = "put"
  /\ \E t \in list_get_random_item(plan[cl], MinQueued - 1) \ {pred} :
       plan' = [plan EXCEPT ![cl] = Behind(@, t, moved)]
  /\ Call("evaluate")
  /\ UNCHANGED <<fixed, kept, start, numQueued, hasGap, freed, marked, fslist, backup, moved, pred, before, after, given, i, cl, late, fails, calls>>

(***************************************************************************)
(* plan_optimization.                                                      *)
(***************************************************************************)
Current == evaluate_schedule(fslist, Planned, start)

\* The next turn of the two loops.
NextTurn(n) ==
  /\ cl' = IF cl < NumClusters THEN cl + 1 ELSE 1
  /\ i' = IF cl < NumClusters THEN n ELSE n + 1
  /\ phase' = IF cl = NumClusters /\ n + 1 >= OptimCycles THEN "idle" ELSE "head"

\* plan_run calls the optimization after its last update.
Start ==
  /\ phase = "ready"
  /\ fslist' = fairshare_add_user(fslist, Planned)
  /\ before' = evaluate_schedule(fslist', Planned, start)
  /\ given' = {} /\ late' = FALSE /\ calls' = calls + 1
  /\ i' = 0 /\ cl' = 1 /\ phase' = "head"
  /\ UNCHANGED <<plan, fixed, kept, start, numQueued, hasGap, freed, marked, update, backup, moved, pred, after, fails>>

NotEnough ==
  /\ phase = "head" /\ numQueued[cl] < MinQueued
  /\ NextTurn(i)
  /\ UNCHANGED <<plan, fixed, kept, start, numQueued, hasGap, freed, marked, fslist, update, backup, moved,
                 pred, before, after, given, late, fails, calls>>

\* Twenty seconds are over at any moment; the other clusters still have
\* their turn, in which time is up as well.
TimeUp ==
  /\ phase = "head" /\ numQueued[cl] >= MinQueued
  /\ late' = TRUE
  /\ NextTurn(OptimCycles)
  /\ UNCHANGED <<plan, fixed, kept, start, numQueued, hasGap, freed, marked, fslist, update, backup, moved,
                 pred, before, after, given, fails, calls>>

backup_job_order ==
  /\ phase = "head" /\ numQueued[cl] >= MinQueued /\ ~late
  /\ backup' = plan[cl]
  /\ phase' = "draw"
  /\ UNCHANGED <<plan, fixed, kept, start, numQueued, hasGap, freed, marked, fslist, update, moved,
                 pred, before, after, given, i, cl, late, fails, calls>>

\* job_free_fixnodes_backup of the jobs in the list.
WithoutBackup(b, list) == [j \in Jobs |-> IF j \in ToSet(list) THEN 0 ELSE b[j]]

Evaluate ==
  /\ phase = "evaluate" /\ hasGap[cl]
  /\ after' = Current
  /\ phase' = "decide"
  /\ UNCHANGED <<plan, fixed, kept, start, numQueued, hasGap, freed, marked, fslist, update, backup, moved, pred,
                 before, given, i, cl, late, fails, calls>>

\* Mutant: the backup of the fixed nodes stays.
accept_keeps_backup ==
  /\ phase = "decide" /\ Better(before, after)
  /\ given' = given \cup {before}
  /\ before' = after /\ after' = None
  /\ NextTurn(i)
  /\ UNCHANGED <<plan, fixed, kept, start, numQueued, hasGap, freed, marked, fslist, update, backup, moved, pred, late, fails, calls>>

Accept ==
  /\ phase = "decide" /\ Better(before, after)
  /\ given' = given \cup {before}
  /\ before' = after /\ after' = None
  /\ kept' = WithoutBackup(kept, plan[cl])
  /\ NextTurn(i)
  /\ UNCHANGED <<plan, fixed, start, numQueued, hasGap, freed, marked, fslist, update, backup, moved, pred, late, fails, calls>>

\* Mutant: the nodes that the move gave the job stay fixed.
restore_only_order ==
  /\ plan' = [plan EXCEPT ![cl] = backup]
  /\ kept' = WithoutBackup(kept, backup)
  /\ UNCHANGED fixed

\* The old order, and the fixed nodes of the jobs that have a backup.
restore_job_order ==
  /\ plan' = [plan EXCEPT ![cl] = backup]
  /\ fixed' = [j \in Jobs |-> IF j \in ToSet(backup) /\ kept[j] # 0 THEN kept[j] ELSE fixed[j]]
  /\ kept' = WithoutBackup(kept, backup)

Reject ==
  /\ phase = "decide" /\ ~Better(before, after)
  /\ freed \cap ToSet(backup) = {}
  /\ restore_job_order
  /\ after' = None
  /\ Call("check")
  /\ UNCHANGED <<start, numQueued, hasGap, freed, marked, fslist, backup, moved, pred, before, given, i, cl, late, fails, calls>>

\* The evaluation of the restored plan is not used.
Restored ==
  /\ phase = "check" /\ hasGap[cl]
  /\ NextTurn(i)
  /\ UNCHANGED <<plan, fixed, kept, start, numQueued, hasGap, freed, marked, fslist, update, backup, moved,
                 pred, before, after, given, late, fails, calls>>

\* Undefined behaviour: the list of gaps of an update that failed twice is
\* empty, and its last gap is read; the backup lists a job that was freed.
Crash ==
  /\ \/ phase \in {"evaluate", "check"} /\ ~hasGap[cl]
     \/ phase = "decide" /\ ~Better(before, after) /\ freed \cap ToSet(backup) # {}
  /\ phase' = "crash"
  /\ UNCHANGED <<plan, fixed, kept, start, numQueued, hasGap, freed, marked, fslist, update, backup, moved,
                 pred, before, after, given, i, cl, late, fails, calls>>

\* Between two calls a running job is found completed, its wait time and use
\* are added to its user's, and it leaves the plan.
JobCompletes(j) ==
  /\ phase = "idle"
  /\ \E k \in Clusters : j \in ToSet(plan[k]) /\ plan' = [plan EXCEPT ![k] = Unlinked(@, j)]
  /\ fslist' = [fslist EXCEPT ![Job[j].user] =
                 [wait |-> @.wait + Job[j].start - Job[j].qtime,
                  Fu |-> @.Fu + Job[j].share * (Now - Job[j].start)]]
  /\ UNCHANGED <<fixed, kept, start, numQueued, hasGap, freed, marked, phase, update, backup, moved,
                 pred, before, after, given, i, cl, late, fails, calls>>

\* The next cycle has fetched the jobs anew, without marks, and updates the
\* plan of each cluster.
plan_run ==
  /\ phase = "idle" /\ calls < MaxCalls
  /\ marked' = {} /\ cl' = 1
  /\ Call("ready")
  /\ UNCHANGED <<plan, fixed, kept, start, numQueued, hasGap, freed, fslist, backup, moved,
                 pred, before, after, given, i, late, fails, calls>>

NoFixed == [j \in Jobs |-> 0]

\* Placed in the order of the list.
Init ==
  /\ plan \in Plans
  /\ kept = NoFixed
  /\ LET first == [j \in Jobs |-> IF j \in Running THEN Job[j].start ELSE Now]
         placed == [k \in Clusters |-> Placements(plan[k], Len(plan[k]), first, NoFixed)]
         at(j) == CHOOSE k \in Clusters : j \in ToSet(plan[k])
     IN  /\ start = [j \in Jobs |-> placed[at(j)].start[j]]
         /\ fixed = [j \in Jobs |-> placed[at(j)].fixed[j]]
  /\ numQueued = [k \in Clusters |-> QueuedIn(plan[k])]
  /\ hasGap = [k \in Clusters |-> TRUE]
  /\ freed = {} /\ marked = {} /\ fslist = [u \in {} |-> 0]
  /\ phase = "ready" /\ update = [next |-> "head", tries |-> 1]
  /\ backup = <<>> /\ moved = 0 /\ pred = 0
  /\ before = None /\ after = None /\ given = {}
  /\ i = 0 /\ cl = 1 /\ late = FALSE /\ fails = 0 /\ calls = 0

Next ==
  \/ Start \/ NotEnough \/ TimeUp \/ backup_job_order
  \/ TakeOut \/ Redraw \/ PutBack
  \/ MoveToFront \/ UpdateDone \/ UpdateFails
  \/ Evaluate \/ Accept \/ Reject \/ Restored \/ Crash
  \/ plan_run \/ \E j \in Completing : JobCompletes(j)

\* The optimization goes on, and rand() draws every item in the end.
Step ==
  \/ NotEnough \/ backup_job_order \/ TakeOut \/ PutBack \/ MoveToFront \/ UpdateDone
  \/ Evaluate \/ Accept \/ Reject \/ Restored \/ Crash

Fairness == WF_vars(Step)

Spec == Init /\ [][Next]_vars /\ Fairness

(***************************************************************************)
(* Properties.                                                             *)
(***************************************************************************)
\* Types of the variables.
TypeOK ==
  /\ plan \in [Clusters -> Seq(Jobs)] /\ backup \in Seq(Jobs)
  /\ fixed \in [Jobs -> 0 .. NumNodes] /\ kept \in [Jobs -> 0 .. NumNodes]
  /\ start \in [Jobs -> Int] /\ numQueued \in [Clusters -> Nat] /\ hasGap \in [Clusters -> BOOLEAN]
  /\ freed \subseteq Queued /\ moved \in Queued \cup {0} /\ pred \in Jobs \cup {0}
  /\ marked \subseteq Queued
  /\ phase \in {"idle", "ready", "head", "draw", "update", "put", "evaluate", "decide", "check", "crash"}
  /\ update.tries \in 1 .. 2 /\ late \in BOOLEAN
  /\ i \in 0 .. OptimCycles + 1 /\ cl \in Clusters /\ fails \in 0 .. MaxFailures /\ calls \in 0 .. MaxCalls

\* Between two moves the lists hold every queued job that was not freed and
\* none that was, no list has a job twice or one of another list, and no
\* backup of fixed nodes is left (random_job_to_random_position,
\* restore_job_order and a failing update_sched together).
NothingLost ==
  phase \in {"idle", "ready", "head"} =>
    /\ Queued \ freed = Planned \cap Queued
    /\ SumFunction([k \in Clusters |-> Len(plan[k])]) = Cardinality(Planned)
    /\ \A j \in Planned : kept[j] = 0

\* While no update has failed, evaluation_before is the evaluation of the plan
\* at hand: a rejected move is taken back, start times and nodes included
\* ("BACKUP FAILED" in plan_optimization.cpp).  Excepted are clusters with two
\* queued priority jobs, which every update puts in the reverse order: "priority
\* jobs always cause this message" (plan_optimization.cpp:417).
BackupWorks ==
  /\ phase = "head" /\ fails = 0
  /\ \A k \in Clusters : \A x, y \in ToSet(plan[k]) : Prio(x) /\ Prio(y) => x = y
  => before = Current

\* The optimization never comes back to a plan as good as one that it has
\* improved in this call, although each move is only compared with the last.
NoReturn == before \notin given

\* Neither loop of random_job_to_random_position can end: no queued job can be
\* drawn, or nothing but the old predeccessor.
Endless ==
  \/ phase = "draw" /\ list_get_random_item(plan[cl], MinQueued) \cap Queued = {}
  \/ phase = "put" /\ list_get_random_item(plan[cl], MinQueued - 1) \subseteq {pred}

\* plan_optimization.h: "this will stop after certain time or after certain
\* number of itarations".  It does as long as no update fails; after one that
\* shortened the list a loop may be endless.
OptimizationStops == (phase = "head") ~> (phase \in {"idle", "crash"} \/ (Endless /\ fails > 0))
=============================================================================
