----------------------------- MODULE PlanCycle -----------------------------
(***************************************************************************)
(* The scheduling cycle of World::plan_run and the plan it keeps between   *)
(* cycles: one list of plan_jobs per cluster.  Every cycle fetches new     *)
(* JobInfo objects from the servers, re-links the known plan_jobs to them, *)
(* re-plans every cluster, plans the new jobs, asks the server to run the  *)
(* jobs that are due and finally frees the JobInfo objects.                *)
(*                                                                         *)
(* The scheduler is one thread; what runs beside it are the PBS servers,   *)
(* whose jobs change state at any moment.  Phases that the code runs as a  *)
(* loop are one action per iteration.                                      *)
(*                                                                         *)
(* Abstractions: a start time is "unset" (negative), "now" (due) or        *)
(* "later"; where a job fits is a nondeterministic choice (the placement   *)
(* itself is plan_operations.cpp).  A plan_job is named after the job it   *)
(* was created for, because no second one is created while it is listed.   *)
(* The cycles modelled are those in which plan_optimization is not due.    *)
(***************************************************************************)
EXTENDS Naturals, SequencesExt

CONSTANTS
  Jobs,            \* the jobs the servers may ever hold
  Local,           \* the jobs whose job_id contains conf.local_server
  Arrays,          \* the jobs whose job_id has a '-' before the first '.'
  Priority,        \* priority 42, account galaxyelixir or a gpu request
  Num,             \* Num[j] is parse_head_number of the job_id of j
  NumClusters,     \* the clusters that schedule ever has; a later one is empty till then
  NewJobsLimit,    \* conf.new_jobs_limit_per_cycle
  RemoteLimit,     \* the remote queued jobs considered in a cycle: 10
  KeepCompleted,   \* a server reports a finished job until a cycle has seen it
  SlavesReliable   \* every query of a slave server succeeds

ASSUME JobSetsAssumption ==
  /\ Local \subseteq Jobs /\ Arrays \subseteq Jobs /\ Priority \subseteq Jobs
  /\ Num \in [Jobs -> Nat]

ASSUME LimitsAssumption ==
  /\ NumClusters \in Nat /\ NewJobsLimit \in Nat /\ RemoteLimit \in Nat
  /\ KeepCompleted \in BOOLEAN /\ SlavesReliable \in BOOLEAN

Clusters == 1 .. NumClusters

\* A job as pbs_server reports it: queued, running, completed, in another
\* state (held, waiting, in transit, exiting, suspended), or not at all.
JobState == {"none", "Q", "R", "O", "C"}

Phase == {"fetch", "known", "running", "update", "new", "newUpdate",
          "newRetry", "run", "cleanup"}

VARIABLES
  server,     \* the state of every job at its server
  pc,         \* the phase of the cycle
  info,       \* the JobInfo objects of this cycle: the state fetched per job
  pending,    \* JobInfos that plan_known_jobs_update has not reached
  nremote,    \* new_jobs_counter_remote
  newJobs,    \* new_jobs
  next,       \* index of the next element of newJobs
  cluster,    \* cl_number of the running loop
  current,    \* schedule->jobs[cluster]->current as a position, 0 for NULL
  plan,       \* schedule->jobs: the list of every cluster
  pj,         \* the fields of every plan_job
  asked,      \* run requests sent per job in this cycle
  dropped,    \* try_run_plan removed a plan_job in this cycle
  gaveUp      \* update_sched failed in both calls after a new job of this cycle

planVars == <<plan, pj>>
loopVars == <<next, cluster, current>>
vars == <<server, pc, info, pending, nremote, newJobs, loopVars, planVars, asked, dropped, gaveUp>>

\* ptr tells what the jinfo pointer leads to: a JobInfo of this cycle, one
\* leaked by a cycle that an exception ended, or freed memory.
PlanJob == [jinfo : Jobs, ptr : {"live", "leaked", "freed"}, st : JobState,
            start : {"unset", "now", "later"}, after : BOOLEAN, mark : BOOLEAN]

\* job_create and job_fillin: a plan_job for job j, whose JobInfo has state st.
job_fillin(j, st, start) ==
  [jinfo |-> j, ptr |-> "live", st |-> st, start |-> start, after |-> FALSE, mark |-> FALSE]

\* The fields of a plan_job that is not allocated are never read.
Unallocated(j) == job_fillin(j, "none", "unset")

Listed(p) == \E c \in Clusters : \E x \in DOMAIN plan[c] : plan[c][x] = p

\* The scheduler is started with an empty plan, whatever jobs the servers hold.
Init ==
  /\ server \in [Jobs -> JobState]
  /\ pc = "fetch"
  /\ info = [j \in Jobs |-> "none"]
  /\ pending = {} /\ nremote = 0 /\ newJobs = <<>>
  /\ next = 1 /\ cluster = 1 /\ current = 0
  /\ plan = [c \in Clusters |-> <<>>]
  /\ pj = [j \in Jobs |-> Unallocated(j)]
  /\ asked = [j \in Jobs |-> 0] /\ dropped = FALSE /\ gaveUp = FALSE
-----------------------------------------------------------------------------
(***************************************************************************)
(* The PBS servers.  The scheduler looks at them when it fetches and when  *)
(* it asks them to run jobs; a server step at another moment commutes with *)
(* the scheduler's steps up to the next look, so it is taken there.        *)
(***************************************************************************)

Observed == pc \in {"fetch", "run"}

\* A submission, a hold or its release, a requeue, a start that an operator
\* forces, the end of a job.
ServerStep(from, to) == 
  \E j \in Jobs :
    /\ Observed /\ server[j] \in from
    /\ server' = [server EXCEPT ![j] = to]
    /\ UNCHANGED <<pc, info, pending, nremote, newJobs, loopVars, planVars, asked, dropped, gaveUp>>

Submit   == ServerStep({"none"}, "Q")
Requeue  == ServerStep({"O", "R"}, "Q")
Suspend  == ServerStep({"Q", "R"}, "O")
Start    == ServerStep({"Q"}, "R")
Complete == ServerStep({"Q", "O", "R"}, "C")

\* The server forgets a job.  With keep_completed set beyond the length of a
\* cycle this happens only once a cycle has dealt with the completed job.
Purge(j) ==
  /\ Observed /\ server[j] # "none"
  /\ KeepCompleted => server[j] = "C" /\ info[j] \in {"none", "C"} /\ ~Listed(j)
  /\ server' = [server EXCEPT ![j] = "none"]
  /\ UNCHANGED <<pc, info, pending, nremote, newJobs, loopVars, planVars, asked, dropped, gaveUp>>

ServerNext == Submit \/ Requeue \/ Suspend \/ Start \/ Complete \/ \E j \in Jobs : Purge(j)
-----------------------------------------------------------------------------
(***************************************************************************)
(* fetch_servers and plan_known_jobs_update.                               *)
(***************************************************************************)

\* The jobs of all queues with their states, but for those of failing queries.
query_jobs(missing) == [j \in Jobs |-> IF j \in missing THEN "none" ELSE server[j]]

\* The jobs of a slave server are missing when one of its queries fails.
\* expired is the set of plan_jobs whose available_after has passed by now.
FetchServers ==
  /\ pc = "fetch"
  /\ \E missing \in SUBSET (Jobs \ Local), expired \in SUBSET {p \in Jobs : pj[p].after} :
       /\ SlavesReliable => missing = {}
       /\ info' = query_jobs(missing)
       /\ pending' = {j \in Jobs : info'[j] # "none"}
       /\ pj' = [p \in Jobs |-> IF p \in expired THEN [pj[p] EXCEPT !.after = FALSE] ELSE pj[p]]
       /\ pc' = IF pending' = {} THEN "update" ELSE "known"
  /\ UNCHANGED <<server, nremote, newJobs, loopVars, plan, asked, dropped, gaveUp>>

\* The plan_job at position x of cluster c has the number of job j.
Hit(j, c, x) == Num[plan[c][x]] = Num[j]

Known(j) == \E c \in Clusters : \E x \in DOMAIN plan[c] : Hit(j, c, x)

\* It is the first one that the search of all lists meets.
FirstHit(j, c, x) ==
  /\ Hit(j, c, x)
  /\ \A d \in Clusters : \A y \in DOMAIN plan[d] :
       Hit(j, d, y) => c < d \/ (c = d /\ x <= y)

\* A JobInfo without plan_job that is handed on in new_jobs.
IsNewJob(j, remoteSeen) ==
  /\ ~Known(j)
  /\ info[j] \in {"R", "Q"}
  /\ info[j] = "R" => j \in Local
  /\ info[j] = "Q" /\ j \notin Local => j \notin Arrays /\ remoteSeen <= RemoteLimit
  /\ Len(newJobs) < NewJobsLimit

\* Mutant of RelinkAt: the plan_job takes over the state but keeps its pointer.
RelinkAtOldPointer(j, c, x) ==
  LET p == plan[c][x]
  IN IF info[j] = "C"
     THEN /\ plan' = [plan EXCEPT ![c] = RemoveAt(@, x)]
          /\ pj' = [pj EXCEPT ![p] = Unallocated(p)]
     ELSE /\ pj' = [pj EXCEPT ![p] = [@ EXCEPT !.jinfo = j, !.st = info[j], !.mark = FALSE]]
          /\ UNCHANGED plan

\* Mutant of RelinkAt: a completed job stays in the list.
RelinkAtKeepsCompleted(j, c, x) ==
  /\ pj' = [pj EXCEPT ![plan[c][x]] = [@ EXCEPT !.jinfo = j, !.ptr = "live",
                                                !.st = info[j], !.mark = FALSE]]
  /\ UNCHANGED plan

\* The plan_job is linked to the JobInfo of j; a completed one leaves the
\* list and is freed.
RelinkAt(j, c, x) ==
  LET p == plan[c][x]
  IN IF info[j] = "C"
     THEN /\ plan' = [plan EXCEPT ![c] = RemoveAt(@, x)]
          /\ pj' = [pj EXCEPT ![p] = Unallocated(p)]
     ELSE /\ pj' = [pj EXCEPT ![p] = [@ EXCEPT !.jinfo = j, !.ptr = "live",
                                               !.st = info[j], !.mark = FALSE]]
          /\ UNCHANGED plan

Relink(j) ==
  \E c \in Clusters : \E x \in DOMAIN plan[c] : FirstHit(j, c, x) /\ RelinkAt(j, c, x)

\* One iteration of plan_known_jobs_update; the fairshare order of the jobs
\* is left open.
KnownJob(j) ==
  /\ pc = "known" /\ j \in pending
  /\ pending' = pending \ {j}
  /\ IF Known(j) THEN Relink(j) ELSE UNCHANGED planVars
  /\ nremote' = IF info[j] = "Q" /\ j \notin Local /\ j \notin Arrays THEN nremote + 1 ELSE nremote
  /\ newJobs' = IF IsNewJob(j, nremote') THEN Append(newJobs, j) ELSE newJobs
  /\ pc' = IF pending' = {} THEN "running" ELSE "known"
  /\ UNCHANGED <<server, info, loopVars, asked, dropped, gaveUp>>
-----------------------------------------------------------------------------
(***************************************************************************)
(* add_already_running_jobs, update_sched, try_to_schedule_new_jobs.       *)
(***************************************************************************)

\* A plan_job for job j becomes item x of the list of cluster c.
Enlist(j, c, x, start) ==
  /\ plan' = [plan EXCEPT ![c] = InsertAt(@, x, j)]
  /\ pj' = [pj EXCEPT ![j] = job_fillin(j, info[j], start)]

\* A running new job goes to the front of the list of the first cluster with
\* a node that runs it; when no node does its plan_job is lost.
AddAlreadyRunning ==
  /\ pc = "running" /\ next <= Len(newJobs)
  /\ LET j == newJobs[next]
     IN IF info[j] = "R"
        THEN \/ \E c \in Clusters, start \in {"now", "unset"} : Enlist(j, c, 1, start)
             \/ UNCHANGED planVars
        ELSE UNCHANGED planVars
  /\ next' = next + 1
  /\ UNCHANGED <<server, pc, info, pending, nremote, newJobs, cluster, current, asked, dropped, gaveUp>>

AlreadyRunningDone ==
  /\ pc = "running" /\ next > Len(newJobs)
  /\ next' = 1 /\ pc' = "update"
  /\ UNCHANGED <<server, info, pending, nremote, newJobs, cluster, current, planVars, asked, dropped, gaveUp>>

\* Mutant of MovesToFront: the wrong state is skipped.
MovesToFrontRunning(p) ==
  pj[p].st = "R" /\ ~pj[p].after /\ ~pj[p].mark /\ pj[p].jinfo \in Priority

\* Mutant of MovesToFront: available_after is not looked at.
MovesToFrontAnyTime(p) ==
  pj[p].st = "Q" /\ ~pj[p].mark /\ pj[p].jinfo \in Priority

\* update_sched moves these to the front of the list.
MovesToFront(p) ==
  pj[p].st = "Q" /\ ~pj[p].after /\ ~pj[p].mark /\ pj[p].jinfo \in Priority

\* The order of list s after its first loop: every such job is moved to the
\* front when the loop meets it, so they end up reversed, before the others.
PriorityOrder(s) ==
  {f \in [DOMAIN s -> DOMAIN s] : \A x, y \in DOMAIN s :
     x < y => LET fx == MovesToFront(s[f[x]])
                  fy == MovesToFront(s[f[y]])
              IN (fx /\ ~fy) \/ (fx /\ fy /\ f[x] > f[y]) \/ (~fx /\ ~fy /\ f[x] < f[y])}

\* update_sched(schedule, c): the queued jobs get a new start time in list
\* order.  When update_job cannot place the one at position m it is removed
\* and freed and the jobs behind it keep their old start time (result 2).
UpdateSched(c, failed) ==
  \E f \in PriorityOrder(plan[c]) :
    LET s == [x \in DOMAIN plan[c] |-> plan[c][f[x]]]
    IN \E m \in 0 .. Len(s) :
         LET seen(p) == \E x \in DOMAIN s : s[x] = p /\ (m = 0 \/ x < m)
         IN /\ failed = (m # 0)
            /\ failed => pj[s[m]].st = "Q"
            /\ \E late \in SUBSET {p \in Jobs : seen(p) /\ pj[p].st = "Q"} :
                 pj' = [p \in Jobs |->
                   IF failed /\ p = s[m] THEN Unallocated(p)
                   ELSE [pj[p] EXCEPT
                     !.start = IF seen(p) /\ pj[p].st = "Q"
                               THEN IF p \in late THEN "later" ELSE "now"
                               ELSE @,
                     !.mark  = (@ \/ (MovesToFront(p) /\ \E x \in DOMAIN s : s[x] = p)) /\ ~seen(p)]]
            /\ plan' = [plan EXCEPT ![c] = IF failed THEN RemoveAt(s, m) ELSE s]

\* Mutant of UpdateCluster: the test for result 2 is inverted.
UpdateClusterInverted ==
  /\ pc = "update" /\ cluster \in Clusters
  /\ \E failed \in BOOLEAN :
       /\ UpdateSched(cluster, failed)
       /\ cluster' = IF failed THEN cluster + 1 ELSE cluster
  /\ UNCHANGED <<server, pc, info, pending, nremote, newJobs, next, current, asked, dropped, gaveUp>>

\* One turn of plan_run's while (update_sched(...) == 2).
UpdateCluster ==
  /\ pc = "update" /\ cluster \in Clusters
  /\ \E failed \in BOOLEAN :
       /\ UpdateSched(cluster, failed)
       /\ cluster' = IF failed THEN cluster ELSE cluster + 1
  /\ UNCHANGED <<server, pc, info, pending, nremote, newJobs, next, current, asked, dropped, gaveUp>>

UpdatesDone ==
  /\ pc = "update" /\ cluster \notin Clusters
  /\ pc' = "new" /\ cluster' = 1
  /\ UNCHANGED <<server, info, pending, nremote, newJobs, next, current, planVars, asked, dropped, gaveUp>>

\* Mutant of ScheduleNewJob: the running jobs among the new ones, which are in
\* a list already, are planned as well.
ScheduleNewJobAnyState ==
  /\ pc = "new" /\ next <= Len(newJobs)
  /\ \E c \in Clusters : \E x \in 1 .. Len(plan[c]) + 1, start \in {"now", "later"} :
       /\ Enlist(newJobs[next], c, x, start)
       /\ cluster' = c /\ pc' = "newUpdate" /\ UNCHANGED next
  /\ UNCHANGED <<server, info, pending, nremote, newJobs, current, asked, dropped, gaveUp>>

\* A queued new job is put into the earliest gap of a suitable cluster, in
\* front of the job that follows the gap or at the end; or no gap fits it.
ScheduleNewJob ==
  /\ pc = "new" /\ next <= Len(newJobs)
  /\ LET j == newJobs[next]
     IN IF info[j] = "Q"
        THEN \/ \E c \in Clusters : \E x \in 1 .. Len(plan[c]) + 1, start \in {"now", "later"} :
                  /\ x <= Len(plan[c]) => pj[plan[c][x]].st = "Q"
                  /\ Enlist(j, c, x, start)
                  /\ cluster' = c /\ pc' = "newUpdate" /\ UNCHANGED next
             \/ next' = next + 1 /\ UNCHANGED <<pc, cluster, planVars>>
        ELSE next' = next + 1 /\ UNCHANGED <<pc, cluster, planVars>>
  /\ UNCHANGED <<server, info, pending, nremote, newJobs, current, asked, dropped, gaveUp>>

\* if (update_sched(...) == 2) update_sched(...): at most one retry.
UpdateAfterNewJob ==
  /\ pc \in {"newUpdate", "newRetry"}
  /\ \E failed \in BOOLEAN :
       /\ UpdateSched(cluster, failed)
       /\ IF failed /\ pc = "newUpdate"
          THEN pc' = "newRetry" /\ UNCHANGED next
          ELSE pc' = "new" /\ next' = next + 1
       /\ gaveUp' = (gaveUp \/ (failed /\ pc = "newRetry"))
  /\ UNCHANGED <<server, info, pending, nremote, newJobs, cluster, current, asked, dropped>>

NewJobsDone ==
  /\ pc = "new" /\ next > Len(newJobs)
  /\ pc' = "run" /\ cluster' = 1 /\ current' = 0
  /\ UNCHANGED <<server, info, pending, nremote, newJobs, next, planVars, asked, dropped, gaveUp>>
-----------------------------------------------------------------------------
(***************************************************************************)
(* try_run_plan, cleanup_servers, the catch of plan_run.                   *)
(***************************************************************************)

\* A run request for plan_job p: the checks refuse it, the checks find too
\* little of a dynamic resource, or the server is asked and starts the job
\* if it still is queued there.
RequestRun(p) ==
  LET j == pj[p].jinfo
  IN \/ UNCHANGED <<server, pj, asked>>
     \/ /\ pj' = [pj EXCEPT ![p].after = TRUE]
        /\ UNCHANGED <<server, asked>>
     \/ /\ asked' = [asked EXCEPT ![j] = @ + 1]
        /\ \/ server[j] = "Q" /\ server' = [server EXCEPT ![j] = "R"]
           \/ UNCHANGED server
        /\ UNCHANGED pj

Due(p) == pj[p].st = "Q" /\ pj[p].start = "now"

\* Mutant of Unplanned: running jobs are not spared.
UnplannedAnyState(p) == ~pj[p].after /\ pj[p].start = "unset"

\* try_run_plan removes a job that has no start time.
Unplanned(p) == ~pj[p].after /\ pj[p].st # "R" /\ pj[p].start = "unset"

\* One iteration of the inner loop of try_run_plan: list_get_next, then the
\* item.  Removing an item sets the list's current to NULL.
TryRunJob ==
  /\ pc = "run" /\ cluster \in Clusters /\ current < Len(plan[cluster])
  /\ LET p == plan[cluster][current + 1]
     IN IF Unplanned(p)
        THEN /\ plan' = [plan EXCEPT ![cluster] = RemoveAt(@, current + 1)]
             /\ pj' = [pj EXCEPT ![p] = Unallocated(p)]
             /\ current' = 0 /\ dropped' = TRUE
             /\ UNCHANGED <<server, asked>>
        ELSE /\ current' = current + 1
             /\ IF ~pj[p].after /\ Due(p) THEN RequestRun(p) ELSE UNCHANGED <<server, pj, asked>>
             /\ UNCHANGED <<plan, dropped>>
  /\ UNCHANGED <<pc, info, pending, nremote, newJobs, next, cluster, gaveUp>>

\* Mutant of TryRunNextCluster: cl_number is not advanced.
TryRunSameCluster ==
  /\ pc = "run" /\ cluster \in Clusters /\ current >= Len(plan[cluster])
  /\ current' = 0
  /\ UNCHANGED <<server, pc, info, pending, nremote, newJobs, next, cluster, planVars, asked, dropped, gaveUp>>

TryRunNextCluster ==
  /\ pc = "run" /\ cluster \in Clusters /\ current >= Len(plan[cluster])
  /\ cluster' = cluster + 1 /\ current' = 0
  /\ UNCHANGED <<server, pc, info, pending, nremote, newJobs, next, planVars, asked, dropped, gaveUp>>

TryRunDone ==
  /\ pc = "run" /\ cluster \notin Clusters
  /\ pc' = "cleanup"
  /\ UNCHANGED <<server, info, pending, nremote, newJobs, loopVars, planVars, asked, dropped, gaveUp>>

\* Mutant of CycleLocals: the index of new_jobs starts one too low.
CycleLocalsOffByOne ==
  /\ info' = [j \in Jobs |-> "none"] /\ pending' = {} /\ nremote' = 0 /\ newJobs' = <<>>
  /\ next' = 0 /\ cluster' = 1 /\ current' = 0
  /\ asked' = [j \in Jobs |-> 0] /\ dropped' = FALSE /\ gaveUp' = FALSE

\* The variables local to a cycle start anew.
CycleLocals ==
  /\ info' = [j \in Jobs |-> "none"] /\ pending' = {} /\ nremote' = 0 /\ newJobs' = <<>>
  /\ next' = 1 /\ cluster' = 1 /\ current' = 0
  /\ asked' = [j \in Jobs |-> 0] /\ dropped' = FALSE /\ gaveUp' = FALSE

\* free_server(p_info, 1) frees every JobInfo; the plan keeps its pointers.
CleanupServers ==
  /\ pc = "cleanup"
  /\ pj' = [p \in Jobs |-> IF Listed(p) /\ pj[p].ptr = "live"
                           THEN [pj[p] EXCEPT !.ptr = "freed"] ELSE pj[p]]
  /\ CycleLocals
  /\ pc' = "fetch"
  /\ UNCHANGED <<server, plan>>

\* An exception leaves plan_run without cleanup_servers; main calls plan_run
\* again and the JobInfo objects of the broken cycle are never freed.
Exception ==
  /\ pc # "fetch"
  /\ pj' = [p \in Jobs |-> IF Listed(p) /\ pj[p].ptr = "live"
                           THEN [pj[p] EXCEPT !.ptr = "leaked"] ELSE pj[p]]
  /\ CycleLocals
  /\ pc' = "fetch"
  /\ UNCHANGED <<server, plan>>

SchedulerStep ==
  \/ FetchServers \/ \E j \in Jobs : KnownJob(j)
  \/ AddAlreadyRunning \/ AlreadyRunningDone
  \/ UpdateCluster \/ UpdatesDone
  \/ ScheduleNewJob \/ UpdateAfterNewJob \/ NewJobsDone
  \/ TryRunJob \/ TryRunNextCluster \/ TryRunDone
  \/ CleanupServers

Next == SchedulerStep \/ Exception \/ ServerNext

Spec == Init /\ [][Next]_vars

FairSpec == Spec /\ WF_vars(SchedulerStep)
-----------------------------------------------------------------------------
(***************************************************************************)
(* Properties.                                                             *)
(***************************************************************************)

\* Types of the cycle's variables (World, sched and plan_job of the code).
TypeOK ==
  /\ server \in [Jobs -> JobState] /\ info \in [Jobs -> JobState]
  /\ pc \in Phase
  /\ pending \subseteq Jobs
  /\ nremote \in Nat /\ next \in Nat \ {0} /\ cluster \in Nat /\ current \in Nat
  /\ pc \in {"newUpdate", "newRetry"} => cluster \in Clusters
  /\ newJobs \in Seq(Jobs)
  /\ plan \in [Clusters -> Seq(Jobs)]
  /\ pj \in [Jobs -> PlanJob]
  /\ asked \in [Jobs -> Nat] /\ dropped \in BOOLEAN /\ gaveUp \in BOOLEAN

\* A plan_job is linked into at most one cluster's list, and only once: no
\* sequence of re-planning, new jobs and removals plans a job twice.
PlannedOnce ==
  \A c, d \in Clusters : \A x \in DOMAIN plan[c], y \in DOMAIN plan[d] :
    plan[c][x] = plan[d][y] => c = d /\ x = y

\* The phases that dereference job->jinfo.
Planning == pc \notin {"fetch", "known"}

\* Once plan_known_jobs_update has returned, no plan_job in a list has a jinfo
\* that cleanup_servers freed at the end of an earlier cycle: update_sched,
\* try_run_plan and the other readers never follow a dangling pointer.
NoDangling ==
  Planning => \A p \in Jobs : Listed(p) => pj[p].ptr # "freed"

\* While a cycle plans, every plan_job shows its own job in the state that was
\* fetched in this cycle, and no completed job is left in a list.
PlanMatchesServers ==
  Planning => \A p \in Jobs : Listed(p) =>
    pj[p].jinfo = p /\ pj[p].st = info[p] /\ info[p] # "C"

\* When try_run_plan starts, the queued priority jobs that may run stand
\* before all other jobs of their list, however many update_sched calls failed,
\* unless the call and the retry after a new job did: then a priority job that
\* neither reached keeps its mark and the next new job may stay in front of it.
PriorityFirst ==
  pc = "run" /\ cluster = 1 /\ current = 0 /\ ~dropped /\ ~gaveUp =>
    \A c \in Clusters : \A x, y \in DOMAIN plan[c] :
      LET ready(p) == pj[p].st = "Q" /\ ~pj[p].after /\ pj[p].jinfo \in Priority
      IN x < y /\ ready(plan[c][y]) => ready(plan[c][x])

\* try_run_plan asks the server to run a job at most once in a cycle, unless
\* it removed a plan_job, which restarts its walk of the list.
RequestedOnce ==
  (\E j \in Jobs : asked[j] > 1) => dropped

\* A running job leaves the plan only when the server reports it completed.
RunningStaysPlanned ==
  [][\A p \in Jobs : Listed(p) /\ pj[p].st = "R" /\ ~Listed(p)' => info[p] = "C"]_vars

\* Every cycle ends: the loop that repeats update_sched while it returns 2 and
\* the restarts of try_run_plan come to an end whatever the servers do.
CycleEnds == (pc = "update") ~> (pc = "fetch")
=============================================================================
