------------------------------ MODULE RunChecks ------------------------------
(***************************************************************************)
(* Starting planned jobs: what is fetched about nodes, running jobs and    *)
(* dynamic resources (server_info.cpp, queue_info.cpp, NodeData.cpp,       *)
(* misc.cpp), the checks before a start (check.cpp), and try_run_plan      *)
(* (SchedulerRealm.cpp), the loop that starts the jobs.  World::run, which *)
(* it replaces, has no caller and is not modelled.                         *)
(*                                                                         *)
(* One cycle is Fetch, then one TryPlanned per job that is due, then       *)
(* EndCycle.  The server starts a job, refuses it, or its answer is lost;  *)
(* jobs end at any time.                                                   *)
(***************************************************************************)
EXTENDS NodeSpec

CONSTANTS
  Limit,      \* Limit[w]: limits of "server" and of every queue
  Licences,   \* Licences[r]: how much of a dynamic resource exists
  Reporting,  \* the dynamic resources whose value has the form avail;used
  Ded,        \* [from, to, now]: ded_time[0] and is_ded_time
  MaxDue,     \* bound on the jobs that are due in one cycle
  Situations, \* what the nodes may report
  Statuses    \* what pbs_cache may report as magrathea status of a node

VARIABLES
  phase,    \* "sleep" or "jobs"
  srv,      \* the state of a job at the server: "Q" or "R"
  where,    \* the nodes of a running job and the parts they give
  counted,  \* running_jobs: the jobs that ran when the servers were asked
  due,      \* planned jobs that are due and not tried yet
  blocked,  \* jobs with available_after in the future
  lost,     \* jobs whose start was requested and the answer lost
  overrun,  \* jobs for which calculate_fairshare_cost read behind its vector
  thrown    \* find_nodes threw "Mismatch state"

nodeVars == <<info, use, asg, dyn>>
vars == <<nodeVars, phase, srv, where, counted, due, blocked, lost, overrun, thrown>>

\* Dynamic resources are requested and exist in natural numbers.
ASSUME LicencesAssumption ==
  /\ NumNodes \in Nat /\ IsFiniteSet(Jobs)
  /\ \A r \in DOMAIN Licences : Licences[r] \in Nat
  /\ \A j \in Jobs : \A r \in DOMAIN Job[j].dyn : Job[j].dyn[r] \in Nat
  /\ \A s \in Situations : \A n \in Nodes : "pool" \in DOMAIN s[n]

(***************************************************************************)
(* check.cpp.  The counts are those of the jobs that ran when the servers  *)
(* were asked: no start of the cycle is added to them.                     *)
(***************************************************************************)
Owner(j, kind) == IF kind = "user" THEN Job[j].account ELSE Job[j].group

RunningIn(w) == {j \in counted : w \in {"server", Job[j].queue}}

\* sc.running of a server or queue
count_states(w) == Cardinality(RunningIn(w))

check_max_run(w) == Limit[w].run # Infinity /\ Limit[w].run <= count_states(w)

number_of_running_jobs(w, j, kind) ==
  Cardinality({i \in RunningIn(w) : Owner(i, kind) = Owner(j, kind)})

\* check_server_max_user_run, check_queue_max_user_run and those for groups
check_max_owner_run(w, j, kind) ==
  Limit[w][kind] # Infinity /\ number_of_running_jobs(w, j, kind) >= Limit[w][kind]

LimitReached(j) ==
  \E w \in {"server", Job[j].queue} :
    check_max_run(w) \/ \E kind \in {"user", "group"} : check_max_owner_run(w, j, kind)

\* A job without walltime is taken to cross the boundary.
check_ded_time_boundry(j) ==
  /\ Ded.from # 0
  /\ \/ Job[j].walltime = NoWalltime
     \/ Now + Job[j].walltime > (IF Ded.now THEN Ded.to ELSE Ded.from)

cloud_check(j) ==
  CASE Job[j].mode = "use" ->
         Job[j].cluster \notin DOMAIN CloudUsers \/ Job[j].account \notin CloudUsers[Job[j].cluster]
    [] Job[j].mode = "create" -> Job[j].cluster \in DOMAIN CloudUsers
    [] OTHER -> FALSE

check_dynamic_resources(j) ==
  \A r \in DOMAIN Job[j].dyn : r \in DOMAIN dyn /\ would_fit(dyn[r], Job[j].dyn[r])

PlaceKnown(j) == Job[j].place = "" \/ Job[j].place \in NameOk

\* is_ok_to_run_job_new up to check_nodespec
PlannedChecks(j) ==
  IF LimitReached(j) \/ check_ded_time_boundry(j) \/ cloud_check(j) THEN "REFUSED"
  ELSE IF check_dynamic_resources(j) THEN "SUCCESS" ELSE "INSUFICIENT_DYNAMIC_RESOURCE"

(***************************************************************************)
(* check_nodespec: assignments, schedule, return code; taken is what a     *)
(* starving job takes of the nodes without being started.                  *)
(***************************************************************************)
Result(a, schedule, rc) == [asg |-> a, schedule |-> schedule, rc |-> rc, overrun |-> FALSE]

Find(a, j, parts, nodes) == find_nodes([asg |-> a, schedule |-> <<>>, result |-> ""], j, parts, nodes)

\* A starving job is tried once more, on the cleaned nodes.
Starving(again) ==
  Result(again.asg, again.schedule, IF again.result = "Occupied" THEN "NOT_ENOUGH" ELSE "JOB_SCHEDULED")

Charged(cost, schedule) == [Result(cost.asg, schedule, "SUCCESS") EXCEPT !.overrun = cost.overrun]

\* What becomes of the first search; clean is its result without assignments.
Outcome(j, parts, suitable, first, clean) ==
  CASE first.result = "NonFit" -> Result(clean, first.schedule, "REQUEST_NOT_MATCHED")
    [] first.result = "Available" ->
         Charged(calculate_fairshare_cost(first.asg, j, parts, suitable), first.schedule)
    [] IsAdmin(j) -> Result(first.asg, first.schedule, "NOT_ENOUGH")
    [] Job[j].starving -> Starving(Find(clean, j, parts, suitable))
    [] OTHER -> Result(clean, <<>>, "NOT_ENOUGH")

Suitable(j, given) == {n \in given : NodeSuitableForJob(j, n)}

check_nodespec(j, parts, given) ==
  LET Decide(first) == Outcome(j, parts, Suitable(j, given), first, nodes_preassign_clean(first.asg, given))
  IN  Decide(Find(asg, j, parts, Suitable(j, given)))

\* What JOB_SCHEDULED takes from the nodes of the schedule.
TakenFrom(a, schedule) ==
  [n \in Nodes |-> IF n \in ToSet(schedule) THEN a[n] ELSE clean_assign]

(***************************************************************************)
(* The server.  It knows the jobs it runs and the parts their nodes give.  *)
(***************************************************************************)
Running == {j \in Jobs : srv[j] = "R"}
On(n) == {j \in Running : n \in DOMAIN where[j]}
CoresUsed(n) == MapThenSumSet(LAMBDA j : where[j][n].spec.procs, On(n))
RescUsed(n, r) == MapThenSumSet(LAMBDA j : Amount(where[j][n].spec, where[j][n].scratch, r), On(n))
LicencesUsed(r) == SumFunctionOnSet([j \in Jobs |-> Requested(j, r)], Running)

\* The nodes and parts of a request.
Target(a, nodes) == [n \in {m \in nodes : a[m].spec # <<>>} |->
                      [spec |-> a[n].spec[1], scratch |-> a[n].scratch]]

ServerFits(target) ==
  \A n \in DOMAIN target :
    /\ CoresUsed(n) + target[n].spec.procs <= info[n].cores
    /\ \A r \in Resc(n) : RescUsed(n, r) + Amount(target[n].spec, target[n].scratch, r) <= info[n].resc[r].max

\* The nodes the server may choose when the request names none.
ServerChoice(j) ==
  {[n \in S |-> [spec |-> Job[j].parts[1], scratch |-> "none"]] :
     S \in {T \in SUBSET Nodes : Cardinality(T) = Job[j].parts[1].count}}

\* The answer to pbs_runjob or pbs_movejob, and the jobs at the server after
\* it: a job whose answer is lost may have been started.
RunJob(j, target, answer) ==
  /\ answer = "ok" => ServerFits(target)
  /\ lost' = IF answer = "timeout" THEN lost \union {j} ELSE lost
  /\ \E starts \in {answer = "ok", answer # "refused" /\ ServerFits(target)} :
       /\ srv' = [srv EXCEPT ![j] = IF starts THEN "R" ELSE @]
       /\ where' = [where EXCEPT ![j] = IF starts THEN target ELSE @]

JobEnds(j) ==
  /\ srv[j] = "R"
  /\ srv' = [srv EXCEPT ![j] = "Q"]   \* a new job of this kind takes its place
  /\ where' = [where EXCEPT ![j] = <<>>]
  /\ UNCHANGED <<nodeVars, phase, counted, due, blocked, lost, overrun, thrown>>

(***************************************************************************)
(* Fetching the servers.  A situation is what a node reports apart from    *)
(* the jobs on it; host is -1 when pbs_cache has no host of a virtual node *)
(* and 0 when that host is not a node of the server.                       *)
(***************************************************************************)
\* process_magrathea_status for all nodes.
Decoded(nodes) ==
  [n \in Nodes |-> [nodes[n] EXCEPT !.magrathea =
    IF nodes[n].type = "virtual" THEN process_magrathea_status(nodes, n, @) ELSE @]]

FetchedNodes(s) ==
  [n \in Nodes |-> [s[n] EXCEPT !.free = s[n].cores - CoresUsed(n), !.jobs = On(n) # {},
                                !.host = Max({0, @})]]

\* Data that jobs left in a scratch.
DeadData(s, n, r) == IF r \in DOMAIN s[n].dead THEN s[n].dead[r] ELSE 0

\* A virtual node whose host pbs_cache does not know is unusable.
Unhosted(s, n) == s[n].type = "virtual" /\ s[n].host = -1

FetchedUse(s) ==
  [n \in Nodes |->
    [core |-> 0,
     resc |-> [r \in DOMAIN s[n].resc |-> RescUsed(n, r) + DeadData(s, n, r)],
     notusable |-> Unhosted(s, n)]]

\* A dynamic resource: the amount available and the use reported.
Reported(r, seen) ==
  [avail |-> Licences[r] - seen, assigned |-> 0,
   reported |-> IF r \in Reporting THEN seen ELSE -1, scheduled |-> 0]

\* The source may not have seen the last starts yet.  Running jobs count as
\* scheduled.
FetchedDynamic(late) ==
  [r \in DOMAIN Licences |->
    [Reported(r, IF late THEN 0 ELSE LicencesUsed(r)) EXCEPT !.scheduled = LicencesUsed(r)]]

\* update_cycle_status, fetch_servers and the start of the loop.  Which jobs
\* are due is up to the plan.
Fetch ==
  /\ phase = "sleep"
  /\ phase' = "jobs"
  /\ \E s \in Situations : info' = Decoded(FetchedNodes(s)) /\ use' = FetchedUse(s)
  /\ asg' = [n \in Nodes |-> clean_assign]
  /\ \E late \in BOOLEAN : dyn' = FetchedDynamic(late)
  /\ counted' = Running
  /\ blocked' \in {blocked, {}}
  /\ due' \in {D \in SUBSET ((Jobs \ Running) \ blocked') : Cardinality(D) <= MaxDue}
  /\ lost' = {} /\ overrun' = {} /\ thrown' = FALSE
  /\ UNCHANGED <<srv, where>>

(***************************************************************************)
(* try_run_plan.                                                           *)
(***************************************************************************)
\* query_external_cache(sinfo, 1) refreshes the magrathea status.
Refresh ==
  \E status \in [{n \in Nodes : info[n].type = "virtual"} -> Statuses] :
    info' = Decoded([n \in Nodes |-> [info[n] EXCEPT !.magrathea =
                      IF n \in DOMAIN status THEN status[n] ELSE @]])

Answers == {"ok", "refused", "timeout"}

\* A request that meets a booting node names no nodes.
Booting(a, nodes) == \E n \in nodes : a[n].spec # <<>> /\ info[n].magrathea = "booting"

Targets(j, a, nodes) == IF Booting(a, nodes) THEN ServerChoice(j) ELSE {Target(a, nodes)}

add_scheduled(d, j) == [r \in DOMAIN d |-> [d[r] EXCEPT !.scheduled = @ + Requested(j, r)]]

\* A planned job fails a check before the nodes are looked at.
PlannedRefused(j, rc) ==
  /\ rc # "SUCCESS"
  /\ blocked' = IF rc = "INSUFICIENT_DYNAMIC_RESOURCE" THEN blocked \union {j} ELSE blocked
  /\ UNCHANGED <<nodeVars, phase, srv, where, lost, overrun, thrown>>

\* find_nodes does not know the placement property and throws.
PlannedThrows(j) ==
  /\ ~PlaceKnown(j)
  /\ thrown' = TRUE
  /\ phase' = "sleep"
  /\ UNCHANGED <<nodeVars, srv, where, blocked, lost, overrun>>

\* What a job takes from its nodes and from the server without being started.
TakeScheduled(j, r) ==
  IF r.rc = "JOB_SCHEDULED"
  THEN /\ use' = plan_on_nodes(use, TakenFrom(r.asg, r.schedule), j)
       /\ dyn' = plan_on_server(plan_on_pools(dyn, TakenFrom(r.asg, r.schedule)), j)
  ELSE UNCHANGED <<use, dyn>>

\* The nodes are not available; a starving job takes them all the same.
PlannedNoNodes(j, r) ==
  /\ r.rc # "SUCCESS"
  /\ asg' = r.asg
  /\ TakeScheduled(j, r)
  /\ UNCHANGED <<info, phase, srv, where, blocked, lost, overrun, thrown>>

\* The start is requested; neither the counts nor the nodes learn of it.
PlannedStart(j, r) ==
  /\ r.rc = "SUCCESS"
  /\ asg' = r.asg
  /\ overrun' = IF r.overrun THEN overrun \union {j} ELSE overrun
  /\ \E answer \in Answers, target \in Targets(j, r.asg, PlannedNodes(j)) :
       /\ RunJob(j, target, answer)
       /\ dyn' = IF answer = "ok" THEN add_scheduled(dyn, j) ELSE dyn
  /\ Refresh
  /\ UNCHANGED <<use, phase, blocked, thrown>>

\* One job of the loop.
TryPlanned(j) ==
  /\ phase = "jobs" /\ j \in due
  /\ due' = due \ {j}
  /\ \/ PlannedRefused(j, PlannedChecks(j))
     \/ PlannedChecks(j) = "SUCCESS" /\ PlannedThrows(j)
     \/ /\ PlannedChecks(j) = "SUCCESS" /\ PlaceKnown(j)
        /\ \E r \in {check_nodespec(j, job_create_nodespec(j), PlannedNodes(j))} :
             PlannedNoNodes(j, r) \/ PlannedStart(j, r)
  /\ UNCHANGED counted

\* No servers are fetched before the first cycle and after cleanup_servers.
NoInfo == CHOOSE s \in Situations : TRUE
NoUse == [n \in Nodes |-> [core |-> 0, resc |-> [r \in DOMAIN NoInfo[n].resc |-> 0], notusable |-> FALSE]]
NoAssign == [n \in Nodes |-> clean_assign]
NoDynamic == [r \in DOMAIN Licences |-> [avail |-> 0, assigned |-> 0, reported |-> -1, scheduled |-> 0]]

\* The jobs are exhausted, and cleanup_servers frees what was fetched.
EndCycle ==
  /\ phase = "jobs" /\ due = {}
  /\ phase' = "sleep"
  /\ info' = NoInfo /\ use' = NoUse /\ asg' = NoAssign /\ dyn' = NoDynamic
  /\ counted' = {} /\ lost' = {} /\ overrun' = {}
  /\ UNCHANGED <<srv, where, due, blocked, thrown>>

Init ==
  /\ phase = "sleep"
  /\ srv = [j \in Jobs |-> "Q"] /\ where = [j \in Jobs |-> <<>>]
  /\ info = NoInfo /\ use = NoUse /\ asg = NoAssign /\ dyn = NoDynamic
  /\ counted = {} /\ due = {} /\ blocked = {} /\ lost = {}
  /\ overrun = {} /\ thrown = FALSE

Next ==
  \/ Fetch
  \/ \E j \in Jobs : TryPlanned(j) \/ JobEnds(j)
  \/ EndCycle

Spec == Init /\ [][Next]_vars

(***************************************************************************)
(* Properties.                                                             *)
(***************************************************************************)
\* The parts of the new specification ask for different numbers of cores.
Uneven(j) == \E p, q \in ToSet(job_create_nodespec(j)) : p.procs # q.procs

\* The cost of a job is computed from enough nodes: every part of the new
\* specification finds a node without a flag, whatever the jobs tried before
\* have left on the nodes.  Excepted are jobs with uneven parts: the parts
\* pass on each other's nodes, and the cheap ones may be used up.
NoOverrun == \A j \in overrun : Uneven(j)

\* The check of the property registry that find_nodes relies on was made.
NoMismatch == ~thrown

\* Jobs are never granted more of a dynamic resource than exists, although
\* its reported use lags behind the starts, unless an answer was lost.  A
\* resource that reports no use is excepted: what the same cycle has given
\* away is not looked at.
GrantedExists ==
  \A r \in DOMAIN Licences \intersect Reporting :
    lost' = {} /\ LicencesUsed(r)' > LicencesUsed(r) => LicencesUsed(r)' <= Licences[r]
DynamicKept == [][GrantedExists]_vars

\* A planned job is started on all the nodes of its plan and no other, with
\* the cores of the plan in total, and on each node when its parts are even.
\* Excepted are jobs that meet a booting node: the server chooses their nodes.
StartedOnPlan ==
  [][\A j \in due : srv[j] = "Q" /\ srv'[j] = "R" /\ ~Booting(asg', PlannedNodes(j)) =>
      /\ DOMAIN where'[j] = PlannedNodes(j)
      /\ ~Job[j].excl =>
           MapThenSumSet(LAMBDA n : where'[j][n].spec.procs, DOMAIN where'[j]) =
             Len(Job[j].plan) * Job[j].parts[1].procs
      /\ ~Uneven(j) => \A n \in DOMAIN where'[j] : where'[j][n].spec.procs = PlannedCores(j, n, info)]_vars

\* What the comments of check.cpp say of the limits, for the jobs that run:
\* not checked, because it fails when two jobs of one owner are due.
LimitsKept ==
  [][\A j \in due : srv[j] = "Q" /\ srv'[j] = "R" =>
       \A w \in {"server", Job[j].queue} :
         \/ Limit[w].run = Infinity
         \/ Cardinality({i \in Running' : w \in {"server", Job[i].queue}}) <= Limit[w].run]_vars
=============================================================================
