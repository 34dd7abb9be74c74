-------------------------- MODULE RunChecks_proofs --------------------------
(***************************************************************************)
(* Proofs about dynamic resources, for any jobs, nodes and limits: the     *)
(* jobs that try_run_plan starts never use more of a resource than exists, *)
(* as far as the resource reports its use.                                 *)
(***************************************************************************)
EXTENDS RunChecks, BaseLemmas
-----------------------------------------------------------------------------
(***************************************************************************)
(* Dynamic resources.  What the jobs use is covered by what is scheduled   *)
(* and assigned, and what exists by what is available and reported, unless *)
(* an answer was lost.                                                     *)
(***************************************************************************)

\* No dynamic resource is a pool of shared scratch, which is also counted by
\* the nodes.
NoScratchPools == \A s \in Situations : \A n \in Nodes : s[n].pool \notin DOMAIN Licences

\* The nodes are those of a situation, as far as pools are concerned.
PoolsKnown == \A n \in Nodes : "pool" \in DOMAIN info[n] /\ info[n].pool \notin DOMAIN Licences

\* The dynamic resources that report their use.
Metered == DOMAIN Licences \intersect Reporting

Accounted(r, d) ==
  /\ d = [avail |-> d.avail, assigned |-> d.assigned, reported |-> d.reported, scheduled |-> d.scheduled]
  /\ d.assigned \in Nat /\ d.reported \in Nat /\ d.scheduled \in Nat
  /\ d.reported <= d.scheduled
  /\ d.avail = Licences[r] - d.reported

SrvType == srv \in [Jobs -> {"Q", "R"}]

DynamicInv ==
  /\ SrvType
  /\ phase = "jobs" =>
       /\ PoolsKnown
       /\ dyn = [r \in DOMAIN Licences |-> dyn[r]]
       /\ \A r \in Metered :
            /\ Accounted(r, dyn[r])
            /\ lost = {} => LicencesUsed(r) <= dyn[r].scheduled + dyn[r].assigned

\* A job is queued or running at the server.
LEMMA SrvTypeStep ==
  ASSUME SrvType, [Next]_vars
  PROVE  SrvType'
<1>1. ASSUME NEW j \in Jobs, TryPlanned(j) PROVE SrvType'
  <2>1. CASE srv' = srv
    BY <2>1 DEF SrvType
  <2>2. CASE \E target, answer : RunJob(j, target, answer)
    BY <2>2 DEF SrvType, RunJob
  <2> QED BY <1>1, <2>1, <2>2 DEF TryPlanned, PlannedRefused, PlannedThrows, PlannedNoNodes, PlannedStart
<1>2. ASSUME NEW j \in Jobs, JobEnds(j) PROVE SrvType'
  BY <1>2 DEF SrvType, JobEnds
<1>3. CASE Fetch \/ EndCycle \/ UNCHANGED vars
  BY <1>3 DEF SrvType, Fetch, EndCycle, vars
<1> QED BY <1>1, <1>2, <1>3 DEF Next

\* A request is a natural number.
LEMMA RequestedType == \A j \in Jobs : \A r : Requested(j, r) \in Nat
  BY LicencesAssumption DEF Requested

\* The jobs that run use a natural number of a resource.
LEMMA UsedType ==
  ASSUME NEW r
  PROVE  LicencesUsed(r) \in Nat
<1> DEFINE f == [j \in Jobs |-> Requested(j, r)]
<1>1. IsFiniteSet(Running) /\ \A j \in Running : f[j] \in Nat
  BY LicencesAssumption, FS_Subset, RequestedType DEF Running
<1>2. LicencesUsed(r) = SumFunctionOnSet(f, Running)
  BY DEF LicencesUsed
<1> HIDE DEF f
<1> QED BY <1>1, <1>2, SumType

\* A start adds at most the request of the job, and the end of a job nothing.
LEMMA UsedChange ==
  ASSUME srv \in [Jobs -> {"Q", "R"}], NEW j \in Jobs, NEW v \in {"Q", "R"},
         srv' = [srv EXCEPT ![j] = v], NEW r
  PROVE  /\ LicencesUsed(r)' \in Nat
         /\ LicencesUsed(r)' <= LicencesUsed(r) + (IF v = "R" THEN Requested(j, r) ELSE 0)
<1> DEFINE f == [i \in Jobs |-> Requested(i, r)]
           S == {i \in Jobs : srv[i] = "R"}
           T == {i \in Jobs : srv'[i] = "R"}
<1>1. \A i \in Jobs : f[i] \in Nat /\ f[i] = Requested(i, r)
  BY RequestedType
<1>2. LicencesUsed(r) = SumFunctionOnSet(f, S) /\ LicencesUsed(r)' = SumFunctionOnSet(f, T)
  BY DEF LicencesUsed, Running, Requested
<1>3. T \in SUBSET (S \union {j}) /\ (v = "Q" => T \in SUBSET S) /\ S \in SUBSET Jobs
  OBVIOUS
<1>4. IsFiniteSet(S) /\ IsFiniteSet(T) /\ IsFiniteSet(S \union {j})
  BY LicencesAssumption, FS_Subset, <1>3
<1> HIDE DEF f, S, T
<1>5. SumFunctionOnSet(f, S) \in Nat /\ SumFunctionOnSet(f, T) \in Nat
  BY <1>1, <1>3, <1>4, SumType
<1>6. CASE v = "Q"
  <2>1. SumFunctionOnSet(f, T) <= SumFunctionOnSet(f, S)
    BY <1>1, <1>3, <1>4, <1>6, SumMonotone
  <2> QED BY <1>2, <1>5, <1>6, <2>1
<1>7. CASE v = "R"
  <2>1. SumFunctionOnSet(f, T) <= SumFunctionOnSet(f, S \union {j})
    BY <1>1, <1>3, <1>4, SumMonotone
  <2>2. SumFunctionOnSet(f, S \union {j}) <= f[j] + SumFunctionOnSet(f, S)
    <3>1. CASE j \in S
      <4>1. S \union {j} = S
        BY <3>1
      <4> QED BY <1>1, <1>5, <4>1
    <3>2. CASE j \notin S
      <4>1. f[j] \in Int /\ \A x \in S : f[x] \in Int
        BY <1>1, <1>3
      <4>2. SumFunctionOnSet(f, S \union {j}) = f[j] + SumFunctionOnSet(f, S)
        BY <1>4, <3>2, <4>1, SumAdd
      <4> QED BY <1>1, <1>5, <4>2
    <3> QED BY <3>1, <3>2
  <2>3. SumFunctionOnSet(f, S \union {j}) \in Nat
    BY <1>1, <1>3, <1>4, SumType
  <2> QED BY <1>1, <1>2, <1>5, <1>7, <2>1, <2>2, <2>3
<1> QED BY <1>6, <1>7

\* Counted amounts d become e: at least k more is scheduled or assigned.
Grown(r, d, e, k) ==
  /\ Accounted(r, e)
  /\ e.scheduled + e.assigned >= d.scheduled + d.assigned + k

AllGrown(e, j) ==
  /\ e = [r \in DOMAIN Licences |-> e[r]]
  /\ \A r \in Metered : Grown(r, dyn[r], e[r], Requested(j, r))

\* A planned job that is started counts as scheduled.
LEMMA ScheduledGrows ==
  ASSUME DynamicInv, phase = "jobs", NEW j \in Jobs
  PROVE  AllGrown(add_scheduled(dyn, j), j)
<1> DEFINE e == add_scheduled(dyn, j)
<1>1. DOMAIN dyn = DOMAIN Licences
  BY DEF DynamicInv
<1>2. e = [r \in DOMAIN Licences |-> [dyn[r] EXCEPT !.scheduled = @ + Requested(j, r)]]
  BY <1>1 DEF add_scheduled
<1>3. ASSUME NEW r \in Metered PROVE Grown(r, dyn[r], e[r], Requested(j, r))
  <2>1. PICK d : d = dyn[r]
    OBVIOUS
  <2>2. PICK k \in Nat : k = Requested(j, r)
    BY RequestedType
  <2>3. e[r] = [d EXCEPT !.scheduled = @ + k]
    BY <1>2, <2>1, <2>2 DEF Metered
  <2>4. Accounted(r, d)
    BY <2>1 DEF DynamicInv
  <2>5. e[r] = [avail |-> d.avail, assigned |-> d.assigned, reported |-> d.reported, scheduled |-> d.scheduled + k]
    BY <2>3, <2>4 DEF Accounted
  <2> HIDE DEF e
  <2> QED BY <2>1, <2>2, <2>4, <2>5 DEF Accounted, Grown
<1>4. e = [r \in DOMAIN Licences |-> e[r]]
  BY <1>2
<1> QED BY <1>3, <1>4 DEF AllGrown

\* What a starving job takes without being started counts as assigned, and its
\* shared scratch as scheduled.
LEMMA AssignedGrows ==
  ASSUME DynamicInv, phase = "jobs", NEW j \in Jobs, NEW a
  PROVE  AllGrown(plan_on_server(plan_on_pools(dyn, a), j), j)
<1> DEFINE f(r) == [n \in Nodes |-> IF a[n].scratch = "shared" /\ info[n].pool = r /\ info[n].poolKnown
                                    THEN a[n].spec[1].scratch ELSE 0]
           sum(r) == SumFunctionOnSet(f(r), Nodes)
           p == plan_on_pools(dyn, a)
           e == plan_on_server(p, j)
<1>1. DOMAIN dyn = DOMAIN Licences
  BY DEF DynamicInv
<1>2. p = [r \in DOMAIN Licences |-> [dyn[r] EXCEPT !.scheduled = @ + sum(r)]]
  BY <1>1 DEF plan_on_pools
<1>3. e = [r \in DOMAIN Licences |-> [p[r] EXCEPT !.assigned = @ + Requested(j, r)]]
  BY <1>2 DEF plan_on_server
<1>4. ASSUME NEW r \in Metered PROVE sum(r) \in Nat
  <2>1. \A n \in Nodes : f(r)[n] = 0
    BY DEF DynamicInv, PoolsKnown, Metered
  <2>2. IsFiniteSet(Nodes)
    BY LicencesAssumption, FS_Interval DEF Nodes
  <2> HIDE DEF f
  <2> QED BY <2>1, <2>2, SumType
<1> HIDE DEF sum
<1>5. ASSUME NEW r \in Metered PROVE Grown(r, dyn[r], e[r], Requested(j, r))
  <2>1. PICK d : d = dyn[r]
    OBVIOUS
  <2>2. PICK k \in Nat : k = Requested(j, r)
    BY RequestedType
  <2>3. PICK m \in Nat : m = sum(r)
    BY <1>4
  <2>4. e[r] = [[d EXCEPT !.scheduled = @ + m] EXCEPT !.assigned = @ + k]
    BY <1>2, <1>3, <2>1, <2>2, <2>3 DEF Metered
  <2>5. Accounted(r, d)
    BY <2>1 DEF DynamicInv
  <2>6. e[r] = [avail |-> d.avail, assigned |-> d.assigned + k, reported |-> d.reported, scheduled |-> d.scheduled + m]
    BY <2>4, <2>5 DEF Accounted
  <2> HIDE DEF e
  <2> QED BY <2>1, <2>2, <2>3, <2>5, <2>6 DEF Accounted, Grown
<1>6. e = [r \in DOMAIN Licences |-> e[r]]
  BY <1>3
<1> HIDE DEF e
<1>7. AllGrown(e, j)
  BY <1>5, <1>6 DEF AllGrown
<1> QED BY <1>7 DEF e

\* The checks found enough of every dynamic resource.
LEMMA EnoughLeft ==
  ASSUME DynamicInv, phase = "jobs", lost = {}, NEW j \in Jobs, check_dynamic_resources(j),
         NEW r \in Metered
  PROVE  Requested(j, r) = 0 \/ LicencesUsed(r) + Requested(j, r) <= Licences[r]
<1>1. CASE r \notin DOMAIN Job[j].dyn
  BY <1>1 DEF Requested
<1>2. CASE r \in DOMAIN Job[j].dyn
  <2>1. PICK d : d = dyn[r]
    OBVIOUS
  <2>2. PICK k \in Nat : k = Requested(j, r)
    BY RequestedType
  <2>3. would_fit(d, k)
    BY <1>2, <2>1, <2>2 DEF check_dynamic_resources, Requested
  <2>4. Accounted(r, d) /\ LicencesUsed(r) <= d.scheduled + d.assigned
    BY <2>1 DEF DynamicInv
  <2>5. Licences[r] \in Nat /\ LicencesUsed(r) \in Nat
    BY LicencesAssumption, UsedType DEF Metered
  <2> QED BY <2>2, <2>3, <2>4, <2>5 DEF would_fit, Excess, Accounted
<1> QED BY <1>1, <1>2

\* What an answer of the server means for the use of dynamic resources: only
\* an ok starts the job, unless the answer is lost.
LEMMA RunJobUsed ==
  ASSUME srv \in [Jobs -> {"Q", "R"}], NEW j \in Jobs, NEW target, NEW answer \in Answers,
         RunJob(j, target, answer), lost' = {}, NEW r
  PROVE  /\ lost = {} /\ LicencesUsed(r)' \in Nat
         /\ LicencesUsed(r)' <= LicencesUsed(r) + (IF answer = "ok" THEN Requested(j, r) ELSE 0)
<1>1. answer \in {"ok", "refused"} /\ lost = {}
  BY DEF RunJob, Answers
<1>2. CASE answer = "ok"
  <2>1. srv' = [srv EXCEPT ![j] = "R"]
    BY <1>2 DEF RunJob
  <2> QED BY <1>1, <1>2, <2>1, UsedChange
<1>3. CASE answer = "refused"
  <2>1. srv' = srv
    BY <1>3 DEF RunJob
  <2>2. LicencesUsed(r)' = LicencesUsed(r)
    BY <2>1 DEF LicencesUsed, Running, Requested
  <2> QED BY <1>1, <1>3, <2>2, UsedType
<1> QED BY <1>1, <1>2, <1>3

\* A step covers what it lets be used: k more is accounted for, the use grows
\* by at most k, and there was room for it.
Covers(r, k) ==
  /\ Grown(r, dyn[r], dyn'[r], k)
  /\ lost' = {} => /\ lost = {} /\ LicencesUsed(r)' \in Nat
                  /\ LicencesUsed(r)' <= LicencesUsed(r) + k
                  /\ \/ LicencesUsed(r) + k <= Licences[r]
                     \/ LicencesUsed(r)' <= LicencesUsed(r)

AllCovered == \A r \in Metered : \E k \in Nat : Covers(r, k)

\* A step in the phase of the jobs: the invariant and the property follow from
\* what it does to the use and to the accounts.
LEMMA DynamicStep ==
  ASSUME DynamicInv, SrvType', phase = "jobs",
         PoolsKnown', dyn' = [r \in DOMAIN Licences |-> dyn'[r]], AllCovered
  PROVE  DynamicInv' /\ GrantedExists
<1>1. ASSUME NEW r \in Metered
      PROVE  /\ Accounted(r, dyn'[r])
             /\ lost' = {} => LicencesUsed(r)' <= dyn'[r].scheduled + dyn'[r].assigned
             /\ lost' = {} /\ LicencesUsed(r)' > LicencesUsed(r) => LicencesUsed(r)' <= Licences[r]
  <2>1. PICK k \in Nat : Covers(r, k)
    BY DEF AllCovered
  <2>2. LicencesUsed(r) \in Nat /\ Licences[r] \in Nat
    BY UsedType, LicencesAssumption DEF Metered
  <2>3. Accounted(r, dyn[r]) /\ (lost = {} => LicencesUsed(r) <= dyn[r].scheduled + dyn[r].assigned)
    BY DEF DynamicInv
  <2>4. PICK u, v : u = LicencesUsed(r) /\ v = LicencesUsed(r)'
    OBVIOUS
  <2>5. Accounted(r, dyn'[r])
    BY <2>1 DEF Covers, Grown
  <2>6. lost' = {} => v <= dyn'[r].scheduled + dyn'[r].assigned
    BY <2>1, <2>2, <2>3, <2>4, <2>5 DEF Covers, Grown, Accounted
  <2>7. lost' = {} /\ v > u => v <= Licences[r]
    BY <2>1, <2>2, <2>4 DEF Covers
  <2> QED BY <2>4, <2>5, <2>6, <2>7
<1>2. GrantedExists
  BY <1>1 DEF GrantedExists, Metered
<1>3. \A r \in Metered : Accounted(r, dyn[r])'
  BY <1>1 DEF Accounted
<1>4. DynamicInv'
  BY <1>1, <1>3 DEF DynamicInv
<1> QED BY <1>2, <1>4

\* Without a start or an end, the same amounts are used.
LEMMA UsedKept ==
  ASSUME srv' = srv, NEW r
  PROVE  LicencesUsed(r)' = LicencesUsed(r) /\ LicencesUsed(r) \in Nat
<1>1. LicencesUsed(r)' = LicencesUsed(r)
  BY DEF LicencesUsed, Running, Requested
<1> QED BY <1>1, UsedType

\* The accounts stay, and the use does not grow.
LEMMA SameAccounts ==
  ASSUME DynamicInv, phase = "jobs", dyn' = dyn,
         \A r \in Metered :
           lost' = {} => lost = {} /\ LicencesUsed(r)' \in Nat /\ LicencesUsed(r)' <= LicencesUsed(r)
  PROVE  AllCovered /\ dyn' = [r \in DOMAIN Licences |-> dyn'[r]]
<1>1. ASSUME NEW r \in Metered PROVE Covers(r, 0)
  <2>1. Accounted(r, dyn[r])
    BY DEF DynamicInv
  <2>2. Grown(r, dyn[r], dyn'[r], 0)
    BY <2>1 DEF Grown, Accounted
  <2>3. lost' = {} => lost = {} /\ LicencesUsed(r)' \in Nat /\ LicencesUsed(r)' <= LicencesUsed(r)
    BY Zenon
  <2>4. LicencesUsed(r) \in Nat
    BY UsedType
  <2> QED BY <2>2, <2>3, <2>4 DEF Covers
<1> QED BY <1>1 DEF AllCovered, DynamicInv

\* The request of a job is accounted for, and the use grows by at most that,
\* where there was room.
LEMMA GrownAccounts ==
  ASSUME DynamicInv, phase = "jobs", NEW j \in Jobs, AllGrown(dyn', j),
         \A r \in Metered :
           lost' = {} => /\ lost = {} /\ LicencesUsed(r)' \in Nat
                         /\ LicencesUsed(r)' <= LicencesUsed(r) + Requested(j, r),
         \/ check_dynamic_resources(j)
         \/ \A r \in Metered : LicencesUsed(r)' = LicencesUsed(r)
  PROVE  AllCovered /\ dyn' = [r \in DOMAIN Licences |-> dyn'[r]]
<1>1. ASSUME NEW r \in Metered PROVE \E k \in Nat : Covers(r, k)
  <2>1. PICK k \in Nat : k = Requested(j, r)
    BY RequestedType
  <2>2. Grown(r, dyn[r], dyn'[r], k)
    BY <2>1 DEF AllGrown
  <2>3. lost' = {} => /\ lost = {} /\ LicencesUsed(r)' \in Nat
                      /\ LicencesUsed(r)' <= LicencesUsed(r) + k
    BY <2>1, Zenon
  <2>4. LicencesUsed(r) \in Nat
    BY UsedType
  <2>5. check_dynamic_resources(j) /\ lost = {} => k = 0 \/ LicencesUsed(r) + k <= Licences[r]
    BY <2>1, EnoughLeft
  <2>6. check_dynamic_resources(j) \/ LicencesUsed(r)' = LicencesUsed(r)
    BY Zenon
  <2>7. Covers(r, k)
    BY <2>2, <2>3, <2>4, <2>5, <2>6 DEF Covers
  <2> QED BY <2>7
<1> QED BY <1>1 DEF AllCovered, AllGrown

\* The refresh changes the magrathea status only.
LEMMA RefreshPools ==
  ASSUME PoolsKnown, Refresh \/ info' = info
  PROVE  PoolsKnown'
<1>1. CASE info' = info
  BY <1>1 DEF PoolsKnown
<1>2. CASE Refresh
  <2>1. ASSUME NEW n \in Nodes
        PROVE  "pool" \in DOMAIN info'[n] /\ info'[n].pool = info[n].pool
    <3>1. PICK status : info' = Decoded([i \in Nodes |-> [info[i] EXCEPT !.magrathea =
                                 IF i \in DOMAIN status THEN status[i] ELSE @]])
      BY <1>2 DEF Refresh
    <3>2. PICK m, k : info'[n] = [[info[n] EXCEPT !.magrathea = m] EXCEPT !.magrathea = k]
      BY <3>1 DEF Decoded
    <3> QED BY <3>2 DEF PoolsKnown
  <2> QED BY <2>1 DEF PoolsKnown
<1> QED BY <1>1, <1>2

\* Nothing is started and nothing is scheduled.
LEMMA QuietStep ==
  ASSUME DynamicInv, SrvType', srv' = srv, lost' = lost, dyn' = dyn, info' = info,
         phase' = phase \/ phase' = "sleep"
  PROVE  DynamicInv' /\ GrantedExists
<1>1. \A r : LicencesUsed(r)' = LicencesUsed(r) /\ LicencesUsed(r) \in Nat
  BY UsedKept
<1>2. GrantedExists
  BY <1>1 DEF GrantedExists
<1>3. CASE phase' # "jobs"
  BY <1>2, <1>3 DEF DynamicInv
<1>4. CASE phase = "jobs"
  <2>1. PoolsKnown'
    BY <1>4, RefreshPools DEF DynamicInv
  <2>2. AllCovered /\ dyn' = [r \in DOMAIN Licences |-> dyn'[r]]
    <3>1. \A r \in Metered :
            lost' = {} => lost = {} /\ LicencesUsed(r)' \in Nat /\ LicencesUsed(r)' <= LicencesUsed(r)
      BY <1>1
    <3> QED BY <1>4, <3>1, SameAccounts
  <2> QED BY <1>4, <2>1, <2>2, DynamicStep
<1> QED BY <1>3, <1>4

\* Nothing is started, but the request of a job is scheduled for it.
LEMMA ScheduledStep ==
  ASSUME DynamicInv, SrvType', phase = "jobs", NEW j \in Jobs, NEW a,
         srv' = srv, lost' = lost, Refresh \/ info' = info,
         dyn' = plan_on_server(plan_on_pools(dyn, a), j)
  PROVE  DynamicInv' /\ GrantedExists
<1>1. \A r : LicencesUsed(r)' = LicencesUsed(r) /\ LicencesUsed(r) \in Nat
  BY UsedKept
<1>2. AllGrown(dyn', j)
  BY AssignedGrows
<1>3. \A r \in Metered :
        lost' = {} => /\ lost = {} /\ LicencesUsed(r)' \in Nat
                      /\ LicencesUsed(r)' <= LicencesUsed(r) + Requested(j, r)
  BY <1>1, RequestedType
<1>4. \A r \in Metered : LicencesUsed(r)' = LicencesUsed(r)
  BY <1>1
<1>5. AllCovered /\ dyn' = [r \in DOMAIN Licences |-> dyn'[r]]
  BY <1>2, <1>3, <1>4, GrownAccounts
<1>6. PoolsKnown'
  BY RefreshPools DEF DynamicInv
<1> QED BY <1>5, <1>6, DynamicStep

\* The server is asked to start a job that passed the check of dynamic
\* resources; an ok is accounted for.
LEMMA AskedStep ==
  ASSUME DynamicInv, SrvType', phase = "jobs", NEW j \in Jobs, check_dynamic_resources(j),
         NEW target, NEW answer \in Answers, RunJob(j, target, answer),
         Refresh \/ info' = info,
         IF answer = "ok" THEN AllGrown(dyn', j) ELSE dyn' = dyn
  PROVE  DynamicInv' /\ GrantedExists
<1>1. ASSUME NEW r \in Metered, lost' = {}
      PROVE  /\ lost = {} /\ LicencesUsed(r)' \in Nat
             /\ LicencesUsed(r)' <= LicencesUsed(r) + (IF answer = "ok" THEN Requested(j, r) ELSE 0)
  BY <1>1, RunJobUsed DEF DynamicInv, SrvType
<1>2. AllCovered /\ dyn' = [r \in DOMAIN Licences |-> dyn'[r]]
  <2>1. CASE answer = "ok"
    <3>1. \A r \in Metered :
            lost' = {} => /\ lost = {} /\ LicencesUsed(r)' \in Nat
                          /\ LicencesUsed(r)' <= LicencesUsed(r) + Requested(j, r)
      BY <1>1, <2>1
    <3> QED BY <2>1, <3>1, GrownAccounts
  <2>2. CASE answer # "ok"
    <3>1. \A r \in Metered :
            lost' = {} => lost = {} /\ LicencesUsed(r)' \in Nat /\ LicencesUsed(r)' <= LicencesUsed(r)
      BY <1>1, <2>2, UsedType
    <3> QED BY <2>2, <3>1, SameAccounts
  <2> QED BY <2>1, <2>2
<1>3. PoolsKnown'
  BY RefreshPools DEF DynamicInv
<1> QED BY <1>2, <1>3, DynamicStep

\* One job of try_run_plan.
LEMMA PlannedDynamic ==
  ASSUME DynamicInv, SrvType', NEW j \in Jobs, TryPlanned(j)
  PROVE  DynamicInv' /\ GrantedExists
<1>1. PICK rc : rc = PlannedChecks(j) /\ phase = "jobs"
        /\ \/ PlannedRefused(j, rc)
           \/ PlannedThrows(j)
           \/ rc = "SUCCESS" /\ \E r : PlannedNoNodes(j, r) \/ PlannedStart(j, r)
  BY DEF TryPlanned
<1>2. rc = "SUCCESS" => check_dynamic_resources(j)
  BY <1>1 DEF PlannedChecks
<1>3. CASE PlannedRefused(j, rc) \/ PlannedThrows(j)
  <2>1. srv' = srv /\ lost' = lost /\ dyn' = dyn /\ info' = info /\ (phase' = phase \/ phase' = "sleep")
    BY <1>3 DEF PlannedRefused, PlannedThrows, nodeVars
  <2> QED BY <2>1, QuietStep
<1>4. ASSUME NEW r, PlannedNoNodes(j, r) PROVE DynamicInv' /\ GrantedExists
  <2>1. srv' = srv /\ lost' = lost /\ info' = info /\ phase' = phase
    BY <1>4 DEF PlannedNoNodes
  <2>2. CASE dyn' = dyn
    BY <2>1, <2>2, QuietStep
  <2>3. CASE dyn' = plan_on_server(plan_on_pools(dyn, TakenFrom(r.asg, r.schedule)), j)
    BY <1>1, <2>1, <2>3, ScheduledStep
  <2> QED BY <1>4, <2>2, <2>3 DEF PlannedNoNodes, TakeScheduled
<1>5. ASSUME NEW r, PlannedStart(j, r), rc = "SUCCESS" PROVE DynamicInv' /\ GrantedExists
  <2>1. PICK answer \in Answers, target \in Targets(j, r.asg, PlannedNodes(j)) :
          /\ RunJob(j, target, answer)
          /\ dyn' = IF answer = "ok" THEN add_scheduled(dyn, j) ELSE dyn
    BY <1>5 DEF PlannedStart
  <2>2. IF answer = "ok" THEN AllGrown(dyn', j) ELSE dyn' = dyn
    BY <1>1, <2>1, ScheduledGrows
  <2>3. Refresh
    BY <1>5 DEF PlannedStart
  <2> QED BY <1>1, <1>2, <1>5, <2>1, <2>2, <2>3, AskedStep
<1> QED BY <1>1, <1>3, <1>4, <1>5

\* The servers are fetched: what is used counts as scheduled, whether or not it
\* is reported yet.
LEMMA FetchDynamic ==
  ASSUME NoScratchPools, DynamicInv, SrvType', Fetch
  PROVE  DynamicInv' /\ GrantedExists
<1>1. srv' = srv
  BY DEF Fetch
<1>2. \A r : LicencesUsed(r)' = LicencesUsed(r) /\ LicencesUsed(r) \in Nat
  BY <1>1, UsedKept
<1>3. GrantedExists
  BY <1>2 DEF GrantedExists
<1>4. PoolsKnown'
  <2>1. PICK s \in Situations : info' = Decoded(FetchedNodes(s))
    BY DEF Fetch
  <2>2. ASSUME NEW n \in Nodes PROVE "pool" \in DOMAIN info'[n] /\ info'[n].pool \notin DOMAIN Licences
    <3>1. "pool" \in DOMAIN s[n] /\ s[n].pool \notin DOMAIN Licences
      BY LicencesAssumption DEF NoScratchPools
    <3>2. PICK x, y, z : FetchedNodes(s)[n] = [s[n] EXCEPT !.free = x, !.jobs = y, !.host = z]
      BY DEF FetchedNodes
    <3>3. PICK m : info'[n] = [FetchedNodes(s)[n] EXCEPT !.magrathea = m]
      BY <2>1 DEF Decoded
    <3> QED BY <3>1, <3>2, <3>3
  <2> QED BY <2>2 DEF PoolsKnown
<1>5. PICK late \in BOOLEAN : dyn' = FetchedDynamic(late)
  BY DEF Fetch
<1>6. dyn' = [r \in DOMAIN Licences |-> dyn'[r]]
  BY <1>5 DEF FetchedDynamic
<1>7. ASSUME NEW r \in Metered
      PROVE  Accounted(r, dyn'[r]) /\ LicencesUsed(r)' <= dyn'[r].scheduled + dyn'[r].assigned
  <2>1. PICK u \in Nat : u = LicencesUsed(r) /\ u = LicencesUsed(r)'
    BY <1>2
  <2>2. PICK v \in Nat : v <= u /\ dyn'[r] = [avail |-> Licences[r] - v, assigned |-> 0, reported |-> v, scheduled |-> u]
    <3>1. CASE late
      <4>1. dyn'[r] = [avail |-> Licences[r] - 0, assigned |-> 0, reported |-> 0, scheduled |-> u]
        BY <1>5, <2>1, <3>1 DEF FetchedDynamic, Reported, Metered
      <4> QED BY <4>1
    <3>2. CASE ~late
      <4>1. dyn'[r] = [avail |-> Licences[r] - u, assigned |-> 0, reported |-> u, scheduled |-> u]
        BY <1>5, <2>1, <3>2 DEF FetchedDynamic, Reported, Metered
      <4> QED BY <4>1
    <3> QED BY <3>1, <3>2
  <2> QED BY <2>1, <2>2 DEF Accounted
<1>8. \A r \in Metered : Accounted(r, dyn[r])'
  BY <1>7 DEF Accounted
<1>9. DynamicInv'
  BY <1>4, <1>6, <1>7, <1>8 DEF DynamicInv
<1> QED BY <1>3, <1>9

\* A job ends: its amounts stay accounted for.
LEMMA EndDynamic ==
  ASSUME DynamicInv, SrvType', NEW j \in Jobs, JobEnds(j)
  PROVE  DynamicInv' /\ GrantedExists
<1>1. srv' = [srv EXCEPT ![j] = "Q"] /\ dyn' = dyn /\ info' = info /\ phase' = phase /\ lost' = lost
  BY DEF JobEnds, nodeVars
<1>2. \A r : LicencesUsed(r) \in Nat /\ LicencesUsed(r)' \in Nat /\ LicencesUsed(r)' <= LicencesUsed(r) + 0
  BY <1>1, UsedChange, UsedType DEF DynamicInv, SrvType
<1>3. \A r \in Metered : LicencesUsed(r)' \in Nat /\ LicencesUsed(r)' <= LicencesUsed(r)
  BY <1>2
<1>4. CASE phase # "jobs"
  BY <1>1, <1>2, <1>4 DEF DynamicInv, GrantedExists
<1>5. CASE phase = "jobs"
  <2>1. PoolsKnown'
    BY <1>1, <1>5, RefreshPools DEF DynamicInv
  <2>2. AllCovered /\ dyn' = [r \in DOMAIN Licences |-> dyn'[r]]
    BY <1>1, <1>3, <1>5, SameAccounts
  <2> QED BY <1>5, <2>1, <2>2, DynamicStep
<1> QED BY <1>4, <1>5

\* A step of any kind.
LEMMA DynamicNext ==
  ASSUME NoScratchPools, DynamicInv, [Next]_vars
  PROVE  DynamicInv' /\ (UNCHANGED vars \/ GrantedExists)
<1>0. SrvType'
  BY SrvTypeStep DEF DynamicInv
<1>1. CASE Fetch
  BY <1>0, <1>1, FetchDynamic
<1>2. ASSUME NEW j \in Jobs, TryPlanned(j) \/ JobEnds(j) PROVE DynamicInv' /\ GrantedExists
  BY <1>0, <1>2, PlannedDynamic, EndDynamic
<1>3. CASE EndCycle
  <2>1. phase' = "sleep" /\ srv' = srv
    BY <1>3 DEF EndCycle
  <2>2. \A r : LicencesUsed(r)' = LicencesUsed(r) /\ LicencesUsed(r) \in Nat
    BY <2>1, UsedKept
  <2> QED BY <1>0, <2>1, <2>2 DEF DynamicInv, GrantedExists
<1>4. CASE UNCHANGED vars
  BY <1>0, <1>4, QuietStep DEF vars, nodeVars
<1> QED BY <1>1, <1>2, <1>3, <1>4 DEF Next

\* try_run_plan never grants the jobs more of a dynamic resource that reports
\* its use than exists, although the report lags behind the starts, unless
\* the answer to a start was lost (would_fit, add_scheduled).  Of the dynamic
\* resources, pools of shared scratch are left out.
THEOREM DynamicKeptAlways ==
  ASSUME NoScratchPools
  PROVE  Spec => DynamicKept
<1>1. Init => DynamicInv
  BY DEF Init, DynamicInv, SrvType
<1>2. DynamicInv /\ [Next]_vars => DynamicInv'
  BY DynamicNext
<1>3. DynamicInv /\ [Next]_vars => [GrantedExists]_vars
  BY DynamicNext
<1> QED BY <1>1, <1>2, <1>3, PTL DEF Spec, DynamicKept
=============================================================================
