----------------------------- MODULE PlanLimits -----------------------------
(***************************************************************************)
(* plan_limits.cpp: how many CPUs the jobs of one cluster use, in total    *)
(* and per account, as a step function of time that update_sched builds    *)
(* anew in every call.  A limit holds the use from its timestamp to the    *)
(* timestamp of its successor.  Before update_sched adds a queued job, the *)
(* job is shifted to a time at which neither the global nor the user value *)
(* of its walltime class is exceeded.                                      *)
(*                                                                         *)
(* Account ids and positions in arrays start at 1 here, 0 stands for "not  *)
(* found".  The list is a sequence; the capacity of the account arrays and *)
(* failing allocations are left out.  Where the CPUs are free first is     *)
(* plan_operations.cpp; here any start time may come from it.              *)
(***************************************************************************)
EXTENDS Integers, FiniteSetsExt, SequencesExt

CONSTANTS
  Jobs,          \* the jobs in the list of the cluster
  Running,       \* those of them that run
  Account,       \* Account[j] is job->account_id
  Cpus,          \* job->req_ppn * job->req_num_nodes
  Walltime,      \* job->estimated_processing
  Now,           \* the time of the update
  Horizon,       \* bound on the start times that are tried
  Thresholds,    \* the walltimes of the classes, cluster_limits_arrays
  LimitValues    \* the values that update_limits_values may compute

ASSUME JobsAssumption ==
  /\ IsFiniteSet(Jobs) /\ Running \subseteq Jobs
  /\ Account \in [Jobs -> Nat \ {0}] /\ Cpus \in [Jobs -> Nat \ {0}] /\ Walltime \in [Jobs -> Nat]
  /\ Now \in Nat /\ Horizon \in Nat

ASSUME ThresholdsAssumption ==
  /\ Thresholds \in Seq(Nat)
  /\ LimitValues \subseteq [user : [DOMAIN Thresholds -> Nat], global : [DOMAIN Thresholds -> Nat]]

Classes == DOMAIN Thresholds

VARIABLES
  limits,      \* schedule->limits[k]
  todo,        \* the jobs that the loop of update_sched has not reached
  slot,        \* start and completion of every job the loop has reached
  values,      \* limits_values and limits_values_global
  result       \* "ok", or how the last call left defined behaviour

vars == <<limits, todo, slot, values, result>>

NoSlot == [start |-> 0, end |-> 0]

limit_create(t) == [time |-> t, accounts |-> <<>>]

Init ==
  /\ limits = <<>> /\ todo = {} /\ slot = [j \in Jobs |-> NoSlot]
  /\ values \in LimitValues /\ result = "ok"
-----------------------------------------------------------------------------
(***************************************************************************)
(* The accounts of a limit.                                                *)
(***************************************************************************)

\* The index that bin_search_account returns, 0 for -1.
bin_search_account(a, id) ==
  LET search[r \in (1 .. Len(a) + 1) \X (0 .. Len(a))] ==
        LET mid == (r[1] + r[2]) \div 2
        IN IF r[2] < r[1] THEN 0
           ELSE IF a[mid].id = id THEN mid
           ELSE IF r[1] = r[2] THEN 0
           ELSE IF id > a[mid].id THEN search[<<mid + 1, r[2]>>]
           ELSE search[<<r[1], mid - 1>>]
  IN search[<<1, Len(a)>>]

limit_find_account(a, id) ==
  IF a = <<>> \/ id < a[1].id \/ a[Len(a)].id < id THEN 0 ELSE bin_search_account(a, id)

\* Where limit_add_account puts a new account: the loop shifts the larger
\* ids to the right, but new_position-1 > 0 ends it before the first entry.
AddPosition(a, id) ==
  IF a = <<>> THEN 1
  ELSE Min({q \in 2 .. Len(a) + 1 : \A r \in q .. Len(a) : a[r].id > id})

add_limit_to_limit(l, id, class, n) ==
  LET a == l.accounts
      k == limit_find_account(a, id)
      new == [id |-> id, cpus |-> [c \in Classes |-> IF c = class THEN n ELSE 0]]
  IN [l EXCEPT !.accounts = IF k # 0 THEN [a EXCEPT ![k].cpus[class] = @ + n]
                            ELSE InsertAt(a, AddPosition(a, id), new)]

sum_limits_of_limit(l, class) ==
  SumFunction([x \in DOMAIN l.accounts |-> l.accounts[x].cpus[class]])

\* The first class whose threshold is not below the walltime; one more than
\* the last class when there is none.
walltime_suits_to_limit(w) ==
  Cardinality({i \in Classes : \A k \in 1 .. i : w > Thresholds[k]}) + 1
-----------------------------------------------------------------------------
(***************************************************************************)
(* The list of limits.                                                     *)
(***************************************************************************)

\* Mutant of clone_limit_timestamp: a timestamp that is there already is cut
\* again.
clone_existing_timestamp(ls, t) ==
  LET cut == {x \in DOMAIN ls : ls[x].time <= t /\ (x = Len(ls) \/ ls[x + 1].time > t)}
  IN IF cut = {} THEN ls
     ELSE LET x == Min(cut)
          IN InsertAt(ls, x + 1, IF x = Len(ls) THEN limit_create(t) ELSE [ls[x] EXCEPT !.time = t])

\* Mutant of clone_limit_timestamp: the accounts are not cloned.
split_without_accounts(ls, t) ==
  LET cut == {x \in DOMAIN ls : ls[x].time < t /\ (x = Len(ls) \/ ls[x + 1].time > t)}
  IN IF cut = {} \/ \E x \in DOMAIN ls : ls[x].time = t THEN ls
     ELSE InsertAt(ls, Min(cut) + 1, limit_create(t))

\* A limit that starts at t: a copy of the one it splits, or an empty one
\* behind the last; none when t has a limit already.
clone_limit_timestamp(ls, t) ==
  LET cut == {x \in DOMAIN ls : ls[x].time < t /\ (x = Len(ls) \/ ls[x + 1].time > t)}
  IN IF cut = {} \/ \E x \in DOMAIN ls : ls[x].time = t THEN ls
     ELSE LET x == Min(cut)
          IN InsertAt(ls, x + 1, IF x = Len(ls) THEN limit_create(t) ELSE [ls[x] EXCEPT !.time = t])

\* The list with a limit at both ends of the job.
WithEnds(ls, start, end) ==
  LET l1 == IF ls = <<>> THEN <<limit_create(end)>> ELSE ls
      l2 == IF l1[1].time > start THEN <<limit_create(start)>> \o l1 ELSE l1
  IN clone_limit_timestamp(clone_limit_timestamp(l2, start), end)

add_job_to_limits(ls, j, start, end) ==
  LET l == WithEnds(ls, start, end)
  IN [x \in DOMAIN l |->
        IF l[x].time >= start /\ l[x].time < end
        THEN add_limit_to_limit(l[x], Account[j], walltime_suits_to_limit(end - start), Cpus[j])
        ELSE l[x]]

\* The limit leaves room for job j of class c.
GlobalRoom(l, j, c) == sum_limits_of_limit(l, c) + Cpus[j] <= values.global[c]

UserRoom(l, j, c) ==
  LET k == limit_find_account(l.accounts, Account[j])
  IN k = 0 \/ l.accounts[k].cpus[c] + Cpus[j] <= values.user[c]

\* Mutant of limits_is_gap_ok: the limit the gap starts in is forgotten.
gap_ok_inside_only(ls, j, start, end) ==
  LET c == walltime_suits_to_limit(Walltime[j])
  IN /\ values.user[c] >= Cpus[j]
     /\ \A x \in DOMAIN ls :
          ls[x].time >= start /\ ls[x].time < end
          => GlobalRoom(ls[x], j, c) /\ UserRoom(ls[x], j, c)

\* A gap is good for the job: all limits inside it and the one it starts in
\* have room.
limits_is_gap_ok(ls, j, start, end) ==
  LET c == walltime_suits_to_limit(Walltime[j])
  IN /\ values.user[c] >= Cpus[j]
     /\ \A x \in DOMAIN ls :
          \/ ls[x].time >= start /\ ls[x].time < end
          \/ x < Len(ls) /\ ls[x].time < start /\ ls[x + 1].time > start
          => GlobalRoom(ls[x], j, c) /\ UserRoom(ls[x], j, c)

\* Mutants of Meets: limits that begin while the job runs are not compared;
\* >= in place of >.
MeetsAtStart(ls, x, start, end) ==
  x < Len(ls) /\ ls[x].time <= start /\ ls[x + 1].time > start

MeetsFromStart(ls, x, start, end) ==
  \/ x < Len(ls) /\ ls[x].time <= start /\ ls[x + 1].time > start
  \/ ls[x].time >= start /\ ls[x].time < end

\* What adjust_job_starttime compares the job with: the limit it starts in
\* and those that begin while it runs.
Meets(ls, x, start, end) ==
  \/ x < Len(ls) /\ ls[x].time <= start /\ ls[x + 1].time > start
  \/ ls[x].time > start /\ ls[x].time < end

NullSuccessor == -1

\* One walk over the list: the job moves to the next limit whenever one it
\* meets has no room; the last limit has no successor to move to.
adjust_job_starttime(ls, j, earliest) ==
  LET c == walltime_suits_to_limit(Walltime[j])
      visit(start, x) ==
        IF start = NullSuccessor THEN start
        ELSE IF Meets(ls, x, start, start + Walltime[j])
                /\ ~(GlobalRoom(ls[x], j, c) /\ UserRoom(ls[x], j, c))
        THEN IF x = Len(ls) THEN NullSuccessor ELSE ls[x + 1].time
        ELSE start
      walk[x \in 0 .. Len(ls)] == IF x = 0 THEN earliest ELSE visit(walk[x - 1], x)
  IN walk[Len(ls)]
-----------------------------------------------------------------------------
(***************************************************************************)
(* The calls in update_sched.                                              *)
(***************************************************************************)

\* A new call: the list is freed and the values are computed anew from the
\* CPUs that work now.  The call before may have ended early (result 2).
StartUpdate ==
  /\ result = "ok"
  /\ limits' = <<>> /\ todo' = Jobs /\ slot' = [j \in Jobs |-> NoSlot]
  /\ values' \in LimitValues
  /\ UNCHANGED result

\* A running job.  Its start is the one it was planned for, which may lie
\* ahead when an operator has run it; plan_known_jobs_update takes one that is
\* over its walltime to end at once, but not in the cycle that finds it.
AddRunning(j) ==
  /\ result = "ok" /\ j \in todo \cap Running
  /\ \E start \in 0 .. Horizon :
       \E end \in {start + Walltime[j]} \cup {e \in {Now + 1} : start + Walltime[j] <= Now} :
          IF walltime_suits_to_limit(end - start) \in Classes
          THEN /\ limits' = add_job_to_limits(limits, j, start, end)
               /\ slot' = [slot EXCEPT ![j] = [start |-> start, end |-> end]]
               /\ todo' = todo \ {j}
               /\ UNCHANGED result
          ELSE result' = "noClass" /\ UNCHANGED <<limits, slot, todo>>
  /\ UNCHANGED values

\* A queued job: update_job shifts the earliest start that the free CPUs
\* allow, then add_job_to_limits.
PlanQueued(j) ==
  /\ result = "ok" /\ j \in todo \ Running
  /\ IF walltime_suits_to_limit(Walltime[j]) \notin Classes
     THEN result' = "noClass" /\ UNCHANGED <<limits, slot, todo>>
     ELSE \E earliest \in Now .. Horizon :
            LET start == adjust_job_starttime(limits, j, earliest)
                end == start + Walltime[j]
            IN IF start = NullSuccessor
               THEN result' = "nullSuccessor" /\ UNCHANGED <<limits, slot, todo>>
               ELSE /\ limits' = add_job_to_limits(limits, j, start, end)
                    /\ slot' = [slot EXCEPT ![j] = [start |-> start, end |-> end]]
                    /\ todo' = todo \ {j}
                    /\ UNCHANGED result
  /\ UNCHANGED values

Next == StartUpdate \/ \E j \in Jobs : AddRunning(j) \/ PlanQueued(j)

Spec == Init /\ [][Next]_vars
-----------------------------------------------------------------------------
(***************************************************************************)
(* Properties.                                                             *)
(***************************************************************************)

\* Types of the limits of a cluster (plan_limit, plan_limit_account).
TypeOK ==
  /\ limits \in Seq([time : Nat, accounts : Seq([id : Nat \ {0}, cpus : [Classes -> Nat]])])
  /\ todo \subseteq Jobs /\ slot \in [Jobs -> [start : Nat, end : Nat]]
  /\ values \in LimitValues /\ result \in {"ok", "noClass", "nullSuccessor"}

\* The CPUs of the jobs of S that run at time t and are of walltime class c.
UseAt(S, t, c) ==
  SumFunctionOnSet(Cpus,
    {j \in S : /\ slot[j].start <= t /\ t < slot[j].end
               /\ walltime_suits_to_limit(slot[j].end - slot[j].start) = c})

\* The instants at which the use of some job begins or ends.
Instants == UNION {{slot[j].start, slot[j].end} : j \in Jobs}

\* The list has one limit per interval: the timestamps increase, whatever the
\* order in which update_sched meets the jobs.
OneLimitPerInterval ==
  \A x, y \in DOMAIN limits : x < y => limits[x].time < limits[y].time

\* At every instant the limit in force holds exactly the CPUs of the jobs that
\* run then: splitting, prepending and appending limits loses no job and
\* counts none twice.
LimitsExact ==
  \A t \in Instants, c \in Classes :
    LET before == {x \in DOMAIN limits : limits[x].time <= t}
    IN UseAt(Jobs, t, c) = IF before = {} THEN 0 ELSE sum_limits_of_limit(limits[Max(before)], c)

\* Job j was planned by this step.
JustPlanned(j) == j \in (todo \ Running) \ todo'

\* While job j runs, the jobs of S that were there before leave it room below
\* value v, unless there are none.
Room(S, j, v) ==
  LET c == walltime_suits_to_limit(Walltime[j])
  IN \A t \in {u \in Instants' \cup {slot'[j].start} : slot'[j].start <= u /\ u < slot'[j].end} :
       LET others == UseAt(S, t, c)
       IN others = 0 \/ others + Cpus[j] <= v[c]

\* A queued job is never planned at a time at which it makes its class exceed
\* the global value, even if it had to be shifted several times.
GlobalLimitKept ==
  [][\A j \in Jobs : JustPlanned(j) => Room(Jobs \ todo, j, values.global)]_vars

\* The same for the value of the account of the job (plan_limits.h: "adujust a
\* job start time in the plan with respect to the limits").
UserLimitKept ==
  [][\A j \in Jobs : JustPlanned(j) =>
       Room({i \in Jobs \ todo : Account[i] = Account[j]}, j, values.user)]_vars

\* A gap that limits_is_gap_ok accepts for a job is one at which
\* adjust_job_starttime_according_to_limits leaves the job.
GapCheckAgrees ==
  result = "ok" =>
    \A j \in todo \ Running : \A start \in Now .. Horizon :
      walltime_suits_to_limit(Walltime[j]) \in Classes
      /\ limits_is_gap_ok(limits, j, start, start + Walltime[j])
      => adjust_job_starttime(limits, j, start) = start

\* Shifting a job never runs off the end of the list of limits.
NoNullSuccessor == result # "nullSuccessor"

\* Every job has a walltime class (limits_is_gap_ok tests for -1).
ClassFound == result # "noClass"
=============================================================================
