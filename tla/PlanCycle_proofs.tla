-------------------------- MODULE PlanCycle_proofs --------------------------
(***************************************************************************)
(* Proofs about the scheduling cycle.  TypeOK is inductive.  PlannedOnce   *)
(* needs that the new jobs that are still to be planned are in no list     *)
(* (OnceInv); NoDangling and PlanMatchesServers need, in addition, that    *)
(* the plan_jobs which plan_known_jobs_update has not reached still have a *)
(* JobInfo to be linked to (LinkInv).  RequestedOnce needs that the jobs   *)
(* which try_run_plan has asked to run stand at places it does not come    *)
(* back to (AskedInv), and PriorityFirst that between two updates only     *)
(* marked jobs may be out of order, and none is marked when update_sched   *)
(* begins (PriorityInv).                                                   *)
(***************************************************************************)
EXTENDS PlanCycle, BaseLemmas

\* The first loop of update_sched permutes the list: no position is used twice.
LEMMA PriorityOrderInjective ==
  ASSUME NEW s \in Seq(Jobs), NEW f \in PriorityOrder(s)
  PROVE  /\ f \in [DOMAIN s -> DOMAIN s]
         /\ \A x, y \in DOMAIN s : f[x] = f[y] => x = y
<1>1. f \in [DOMAIN s -> DOMAIN s]
  BY DEF PriorityOrder
<1>2. DOMAIN s = 1 .. Len(s) /\ Len(s) \in Nat
  OBVIOUS
<1>3. ASSUME NEW x \in DOMAIN s, NEW y \in DOMAIN s, x < y
      PROVE  f[x] # f[y]
  <2>1. f[x] \in Nat /\ f[y] \in Nat
    BY <1>1, <1>2
  <2>2. LET fx == MovesToFront(s[f[x]])
            fy == MovesToFront(s[f[y]])
        IN (fx /\ ~fy) \/ (fx /\ fy /\ f[x] > f[y]) \/ (~fx /\ ~fy /\ f[x] < f[y])
    BY <1>3 DEF PriorityOrder
  <2> QED
    BY <2>1, <2>2
<1> QED
  BY <1>1, <1>2, <1>3

\* ... and every position is used.
LEMMA PriorityOrderSurjective ==
  ASSUME NEW s \in Seq(Jobs), NEW f \in PriorityOrder(s), NEW y \in DOMAIN s
  PROVE  \E x \in DOMAIN s : f[x] = y
<1> DEFINE D == DOMAIN s
<1>1. f \in [D -> D] /\ \A a, b \in D : f[a] = f[b] => a = b
  BY PriorityOrderInjective
<1>2. IsFiniteSet(D)
  <2>1. D = 1 .. Len(s) /\ Len(s) \in Nat
    OBVIOUS
  <2> QED
    BY <2>1, FS_Interval
<1> HIDE DEF D
<1>3. f \in Injection(D, D)
  BY <1>1 DEF Injection, IsInjective
<1>4. f \in Surjection(D, D)
  BY <1>2, <1>3, FS_Injection, Zenon
<1> QED
  BY <1>4 DEF Surjection, D

\* What update_sched does: the list s in its new order, the position m of the
\* plan_job that could not be placed (0 if there is none), and what becomes
\* of the fields of the other plan_jobs.
UpdateResult(c, failed, f, s, m) ==
  /\ s \in Seq(Jobs) /\ DOMAIN s = DOMAIN plan[c]
  /\ \A x \in DOMAIN s : s[x] = plan[c][f[x]]
  /\ m \in 0 .. Len(s)
  /\ failed = (m # 0)
  /\ failed => pj[s[m]].st = "Q"
  /\ plan' = [plan EXCEPT ![c] = IF failed THEN RemoveAt(s, m) ELSE s]
  /\ pj' \in [Jobs -> PlanJob]
  /\ \A p \in Jobs : ~(failed /\ p = s[m]) =>
       /\ pj'[p].jinfo = pj[p].jinfo
       /\ pj'[p].ptr = pj[p].ptr
       /\ pj'[p].st = pj[p].st
       /\ pj'[p].after = pj[p].after
       /\ (\E x \in DOMAIN s : s[x] = p) /\ ~failed => ~pj'[p].mark
       /\ (\A x \in DOMAIN s : s[x] # p) => pj'[p].mark = pj[p].mark

LEMMA UpdateSchedResult ==
  ASSUME TypeOK, NEW c \in Clusters, NEW failed \in BOOLEAN, UpdateSched(c, failed)
  PROVE  \E f \in PriorityOrder(plan[c]) : \E s, m : UpdateResult(c, failed, f, s, m)
<1>0. plan[c] \in Seq(Jobs) /\ pj \in [Jobs -> PlanJob] /\ plan \in [Clusters -> Seq(Jobs)]
  BY DEF TypeOK
<1>1. PICK f \in PriorityOrder(plan[c]) :
        LET s == [x \in DOMAIN plan[c] |-> plan[c][f[x]]]
        IN \E m \in 0 .. Len(s) :
             LET seen(p) == \E x \in DOMAIN s : s[x] = p /\ (m = 0 \/ x < m)
             IN /\ failed = (m # 0)
                /\ failed => pj[s[m]].st = "Q"
                /\ \E late \in SUBSET {p \in Jobs : seen(p) /\ pj[p].st = "Q"} :
                     pj' = [p \in Jobs |->
                       IF failed /\ p = s[m] THEN Unallocated(p)
                       ELSE [pj[p] EXCEPT
                         !.start = IF seen(p) /\ pj[p].st = "Q"
                                   THEN IF p \in late THEN "later" ELSE "now"
                                   ELSE @,
                         !.mark  = (@ \/ (MovesToFront(p) /\ \E x \in DOMAIN s : s[x] = p)) /\ ~seen(p)]]
                /\ plan' = [plan EXCEPT ![c] = IF failed THEN RemoveAt(s, m) ELSE s]
  BY DEF UpdateSched
<1> DEFINE s == [x \in DOMAIN plan[c] |-> plan[c][f[x]]]
<1>2. /\ f \in [DOMAIN plan[c] -> DOMAIN plan[c]]
      /\ \A x, y \in DOMAIN plan[c] : f[x] = f[y] => x = y
  BY <1>0, PriorityOrderInjective
<1>3. s \in Seq(Jobs) /\ Len(s) = Len(plan[c]) /\ DOMAIN s = DOMAIN plan[c]
      /\ \A x \in DOMAIN s : s[x] = plan[c][f[x]]
  BY <1>0, <1>2
<1> HIDE DEF s
<1>4. PICK m \in 0 .. Len(s) :
        LET seen(p) == \E x \in DOMAIN s : s[x] = p /\ (m = 0 \/ x < m)
        IN /\ failed = (m # 0)
           /\ failed => pj[s[m]].st = "Q"
           /\ \E late \in SUBSET {p \in Jobs : seen(p) /\ pj[p].st = "Q"} :
                pj' = [p \in Jobs |->
                  IF failed /\ p = s[m] THEN Unallocated(p)
                  ELSE [pj[p] EXCEPT
                    !.start = IF seen(p) /\ pj[p].st = "Q"
                              THEN IF p \in late THEN "later" ELSE "now"
                              ELSE @,
                    !.mark  = (@ \/ (MovesToFront(p) /\ \E x \in DOMAIN s : s[x] = p)) /\ ~seen(p)]]
           /\ plan' = [plan EXCEPT ![c] = IF failed THEN RemoveAt(s, m) ELSE s]
  BY <1>1 DEF s
<1> DEFINE seen(p) == \E x \in DOMAIN s : s[x] = p /\ (m = 0 \/ x < m)
           noted(p) == MovesToFront(p) /\ \E x \in DOMAIN s : s[x] = p
<1>5. PICK late \in SUBSET Jobs :
        pj' = [p \in Jobs |->
          IF failed /\ p = s[m] THEN Unallocated(p)
          ELSE [pj[p] EXCEPT
            !.start = IF seen(p) /\ pj[p].st = "Q"
                      THEN IF p \in late THEN "later" ELSE "now"
                      ELSE @,
            !.mark  = (@ \/ noted(p)) /\ ~seen(p)]]
  BY <1>4
<1>6. /\ failed = (m # 0)
      /\ plan' = [plan EXCEPT ![c] = IF failed THEN RemoveAt(s, m) ELSE s]
  BY <1>4
<1> HIDE DEF seen, noted
<1>7. ASSUME NEW p \in Jobs
      PROVE  /\ pj'[p] \in PlanJob
             /\ ~(failed /\ p = s[m]) => /\ pj'[p].jinfo = pj[p].jinfo
                                         /\ pj'[p].ptr = pj[p].ptr
                                         /\ pj'[p].st = pj[p].st
                                         /\ pj'[p].after = pj[p].after
                                         /\ pj'[p].mark = ((pj[p].mark \/ noted(p)) /\ ~seen(p))
  <2>1. CASE failed /\ p = s[m]
    BY <1>5, <2>1 DEF Unallocated, job_fillin, PlanJob, JobState
  <2>2. CASE ~(failed /\ p = s[m])
    <3>1. pj'[p] = [pj[p] EXCEPT
            !.start = IF seen(p) /\ pj[p].st = "Q"
                      THEN IF p \in late THEN "later" ELSE "now"
                      ELSE @,
            !.mark  = (@ \/ noted(p)) /\ ~seen(p)]
      BY <1>5, <2>2
    <3>2. pj[p] \in PlanJob
      BY <1>0
    <3> QED
      BY <3>1, <3>2 DEF PlanJob
  <2> QED
    BY <2>1, <2>2
<1>8. pj' \in [Jobs -> PlanJob]
  BY <1>5, <1>7
<1>9. \A p \in Jobs : pj[p].mark \in BOOLEAN
  BY <1>0 DEF PlanJob
<1>10. ASSUME NEW p \in Jobs
       PROVE  /\ (\E x \in DOMAIN s : s[x] = p) /\ ~failed => seen(p)
              /\ (\A x \in DOMAIN s : s[x] # p) => ~seen(p) /\ ~noted(p)
  BY <1>6, Zenon DEF seen, noted
<1>11. failed => pj[s[m]].st = "Q"
  BY <1>4
<1>12. ASSUME NEW p \in Jobs, ~(failed /\ p = s[m])
       PROVE  /\ (\E x \in DOMAIN s : s[x] = p) /\ ~failed => ~pj'[p].mark
              /\ (\A x \in DOMAIN s : s[x] # p) => pj'[p].mark = pj[p].mark
  BY <1>7, <1>9, <1>10, <1>12, Zenon
<1>13. UpdateResult(c, failed, f, s, m)
  BY <1>3, <1>6, <1>7, <1>8, <1>11, <1>12 DEF UpdateResult
<1> QED
  BY <1>13, Zenon

\* update_sched changes only the list of its cluster; what remains there are
\* its old plan_jobs, each once, still linked to the same JobInfo.
LEMMA UpdateSchedEffect ==
  ASSUME TypeOK, NEW c \in Clusters, NEW failed \in BOOLEAN, UpdateSched(c, failed)
  PROVE  /\ plan' \in [Clusters -> Seq(Jobs)]
         /\ pj' \in [Jobs -> PlanJob]
         /\ \A d \in Clusters : d # c => plan'[d] = plan[d]
         /\ \E g : /\ \A x \in DOMAIN plan'[c] :
                         g[x] \in DOMAIN plan[c] /\ plan'[c][x] = plan[c][g[x]]
                   /\ \A x, y \in DOMAIN plan'[c] : g[x] = g[y] => x = y
         /\ PlannedOnce => \A p \in Jobs : Listed(p)' =>
              /\ pj'[p].jinfo = pj[p].jinfo
              /\ pj'[p].ptr = pj[p].ptr
              /\ pj'[p].st = pj[p].st
<1>0. plan[c] \in Seq(Jobs) /\ pj \in [Jobs -> PlanJob] /\ plan \in [Clusters -> Seq(Jobs)]
  BY DEF TypeOK
<1>f. PICK f \in PriorityOrder(plan[c]) : \E s, m : UpdateResult(c, failed, f, s, m)
  BY UpdateSchedResult
<1>1. PICK s, m : UpdateResult(c, failed, f, s, m)
  BY <1>f
<1>2. /\ f \in [DOMAIN plan[c] -> DOMAIN plan[c]]
      /\ \A x, y \in DOMAIN plan[c] : f[x] = f[y] => x = y
  BY <1>0, PriorityOrderInjective
<1>3. /\ s \in Seq(Jobs) /\ DOMAIN s = DOMAIN plan[c] /\ m \in 0 .. Len(s)
      /\ \A x \in DOMAIN s : s[x] = plan[c][f[x]]
  BY <1>1 DEF UpdateResult
<1>6. /\ failed = (m # 0)
      /\ plan' = [plan EXCEPT ![c] = IF failed THEN RemoveAt(s, m) ELSE s]
  BY <1>1 DEF UpdateResult
<1>7. \A p \in Jobs : ~(failed /\ p = s[m]) => /\ pj'[p].jinfo = pj[p].jinfo
                                               /\ pj'[p].ptr = pj[p].ptr
                                               /\ pj'[p].st = pj[p].st
  BY <1>1 DEF UpdateResult
<1>8. pj' \in [Jobs -> PlanJob]
  BY <1>1 DEF UpdateResult
<1>9. CASE ~failed
  <2>1. plan' = [plan EXCEPT ![c] = s]
    BY <1>6, <1>9
  <2>2. /\ plan' \in [Clusters -> Seq(Jobs)]
        /\ \A d \in Clusters : d # c => plan'[d] = plan[d]
        /\ plan'[c] = s
    BY <2>1, <1>0, <1>3
  <2>3. \E g : /\ \A x \in DOMAIN plan'[c] : g[x] \in DOMAIN plan[c] /\ plan'[c][x] = plan[c][g[x]]
               /\ \A x, y \in DOMAIN plan'[c] : g[x] = g[y] => x = y
    <3>1. \A x \in DOMAIN plan'[c] : f[x] \in DOMAIN plan[c] /\ plan'[c][x] = plan[c][f[x]]
      BY <2>2, <1>2, <1>3
    <3>2. \A x, y \in DOMAIN plan'[c] : f[x] = f[y] => x = y
      BY <2>2, <1>2, <1>3
    <3> QED
      BY <3>1, <3>2, Zenon
  <2> QED
    BY <2>2, <2>3, <1>7, <1>8, <1>9
<1>10. CASE failed
  <2>0. m # 0
    BY <1>6, <1>10, Zenon
  <2>1. m \in 1 .. Len(s) /\ Len(s) \in Nat /\ DOMAIN s = 1 .. Len(s)
    BY <2>0, <1>3
  <2> DEFINE r == RemoveAt(s, m)
  <2>2. /\ r \in Seq(Jobs) /\ Len(r) = Len(s) - 1
        /\ \A x \in 1 .. Len(s) - 1 : r[x] = IF x < m THEN s[x] ELSE s[x + 1]
    BY <2>1, <1>3, RemoveAtElements
  <2> HIDE DEF r
  <2>3. plan' = [plan EXCEPT ![c] = r]
    BY <1>6, <1>10 DEF r
  <2>4. /\ plan' \in [Clusters -> Seq(Jobs)]
        /\ \A d \in Clusters : d # c => plan'[d] = plan[d]
        /\ plan'[c] = r
    BY <2>3, <1>0, <2>2
  <2> DEFINE g == [x \in 1 .. Len(s) - 1 |-> IF x < m THEN f[x] ELSE f[x + 1]]
  <2> DEFINE old(x) == IF x < m THEN x ELSE x + 1
  <2>a. /\ DOMAIN r = 1 .. Len(s) - 1
        /\ \A x \in DOMAIN r : old(x) \in DOMAIN s /\ old(x) # m
        /\ \A x, y \in DOMAIN r : old(x) = old(y) => x = y
    BY <2>1, <2>2
  <2>b. \A x \in DOMAIN r : g[x] = f[old(x)] /\ r[x] = s[old(x)]
    BY <2>1, <2>2, <2>a
  <2> HIDE DEF g, old
  <2>5. ASSUME NEW x \in DOMAIN r
        PROVE  /\ g[x] \in DOMAIN plan[c]
               /\ r[x] = plan[c][g[x]]
               /\ g[x] # f[m]
    BY <2>1, <2>a, <2>b, <1>2, <1>3
  <2>6. ASSUME NEW x \in DOMAIN r, NEW y \in DOMAIN r, g[x] = g[y]
        PROVE  x = y
    BY <2>6, <2>a, <2>b, <1>2, <1>3
  <2>7. \E h : /\ \A x \in DOMAIN plan'[c] : h[x] \in DOMAIN plan[c] /\ plan'[c][x] = plan[c][h[x]]
               /\ \A x, y \in DOMAIN plan'[c] : h[x] = h[y] => x = y
    <3>1. \A x \in DOMAIN plan'[c] : g[x] \in DOMAIN plan[c] /\ plan'[c][x] = plan[c][g[x]]
      BY <2>4, <2>5
    <3>2. \A x, y \in DOMAIN plan'[c] : g[x] = g[y] => x = y
      BY <2>4, <2>6
    <3> QED
      BY <3>1, <3>2, Zenon
  <2>8. ASSUME PlannedOnce, NEW p \in Jobs, Listed(p)'
        PROVE  p # s[m]
    <3>1. PICK d \in Clusters : \E x \in DOMAIN plan'[d] : plan'[d][x] = p
      BY <2>8 DEF Listed, Clusters
    <3>2. s[m] = plan[c][f[m]] /\ f[m] \in DOMAIN plan[c]
      BY <2>1, <1>2, <1>3
    <3>3. CASE d = c
      BY <3>1, <3>2, <3>3, <2>4, <2>5, <2>8 DEF PlannedOnce
    <3>4. CASE d # c
      BY <3>1, <3>2, <3>4, <2>4, <2>8 DEF PlannedOnce
    <3> QED
      BY <3>3, <3>4
  <2> QED
    BY <2>4, <2>7, <2>8, <1>7, <1>8
<1> QED
  BY <1>9, <1>10
-----------------------------------------------------------------------------
(***************************************************************************)
(* The inductive invariants.                                               *)
(***************************************************************************)

\* The entries of new_jobs that are still to be planned have no plan_job.
ToBePlanned(x) ==
  \/ pc = "known"
  \/ pc = "running" /\ (x >= next \/ info[newJobs[x]] = "Q")
  \/ pc = "update" /\ info[newJobs[x]] = "Q"
  \/ pc = "new" /\ x >= next /\ info[newJobs[x]] = "Q"
  \/ pc \in {"newUpdate", "newRetry"} /\ x > next /\ info[newJobs[x]] = "Q"

NewJobsUnplanned ==
  /\ pc = "fetch" => newJobs = <<>>
  /\ \A x, y \in DOMAIN newJobs : newJobs[x] = newJobs[y] => x = y
  /\ pc = "known" => \A x \in DOMAIN newJobs : newJobs[x] \notin pending
  /\ \A x \in DOMAIN newJobs : ToBePlanned(x) => ~Listed(newJobs[x])

OnceInv == TypeOK /\ PlannedOnce /\ NewJobsUnplanned

\* What the code expects of the servers and of parse_head_number.
ReliableServers ==
  /\ KeepCompleted /\ SlavesReliable
  /\ \A i, j \in Jobs : Num[i] = Num[j] => i = j

\* A plan_job has been given the JobInfo of this cycle.
Linked(p) == pj[p].ptr = "live" /\ pj[p].st = info[p] /\ info[p] # "C"

PlanLinked ==
  /\ \A p \in Jobs : Listed(p) => pj[p].jinfo = p /\ server[p] # "none"
  /\ \A j \in Jobs : info[j] \in {"Q", "R", "O"} => server[j] # "none"
  /\ pc = "known" => \A p \in Jobs : Listed(p) => p \in pending \/ Linked(p)
  /\ Planning => \A p \in Jobs : Listed(p) => Linked(p)

LinkInv == OnceInv /\ PlanLinked
-----------------------------------------------------------------------------
\* list_add_begin, list_add_infrontof and list_add_end: a plan_job that is in
\* no list is afterwards in one, once.
LEMMA InsertEffect ==
  ASSUME TypeOK, NEW c \in Clusters, NEW i \in 1 .. Len(plan[c]) + 1, NEW j \in Jobs,
         plan' = [plan EXCEPT ![c] = InsertAt(@, i, j)]
  PROVE  /\ plan' \in [Clusters -> Seq(Jobs)]
         /\ \A p \in Jobs : Listed(p)' => Listed(p) \/ p = j
         /\ PlannedOnce /\ ~Listed(j) => PlannedOnce'
<1> DEFINE s == plan[c]
           r == InsertAt(s, i, j)
<1>1. plan \in [Clusters -> Seq(Jobs)] /\ s \in Seq(Jobs)
  BY DEF TypeOK
<1>2. Len(s) \in Nat /\ DOMAIN s = 1 .. Len(s)
  BY <1>1
<1>3. /\ r \in Seq(Jobs) /\ Len(r) = Len(s) + 1
      /\ \A x \in 1 .. Len(s) + 1 : r[x] = IF x < i THEN s[x] ELSE IF x = i THEN j ELSE s[x - 1]
  <2>1. Inserted(r, Jobs, s, i, j)
    BY <1>1, InsertAtResult, Zenon
  <2> HIDE DEF r
  <2> QED BY <2>1 DEF Inserted
<1>4. plan'[c] = r /\ (\A d \in Clusters : d # c => plan'[d] = plan[d])
      /\ plan' \in [Clusters -> Seq(Jobs)]
  BY <1>1, <1>3
<1> HIDE DEF r
<1> DEFINE old(x) == IF x < i THEN x ELSE x - 1
<1>5. /\ DOMAIN r = 1 .. Len(s) + 1 /\ r[i] = j
      /\ \A x \in DOMAIN r : x # i => old(x) \in DOMAIN s /\ r[x] = s[old(x)]
      /\ \A x, y \in DOMAIN r : x # i /\ y # i /\ old(x) = old(y) => x = y
  <2>1. DOMAIN r = 1 .. Len(s) + 1 /\ r[i] = j
    BY <1>2, <1>3
  <2>2. ASSUME NEW x \in DOMAIN r, x # i
        PROVE  old(x) \in DOMAIN s /\ r[x] = s[old(x)]
    BY <2>1, <2>2, <1>2, <1>3
  <2>3. \A x, y \in DOMAIN r : x # i /\ y # i /\ old(x) = old(y) => x = y
    BY <2>1, <1>2
  <2> QED
    BY <2>1, <2>2, <2>3
<1> HIDE DEF old
<1>6. ASSUME NEW p \in Jobs, Listed(p)'
      PROVE  Listed(p) \/ p = j
  <2>1. PICK d \in Clusters : \E x \in DOMAIN plan'[d] : plan'[d][x] = p
    BY <1>6 DEF Listed, Clusters
  <2> QED
    BY <2>1, <1>4, <1>5 DEF Listed
<1>7. ASSUME PlannedOnce, ~Listed(j)
      PROVE  PlannedOnce'
  <2> SUFFICES ASSUME NEW d \in Clusters, NEW e \in Clusters,
                      NEW x \in DOMAIN plan'[d], NEW y \in DOMAIN plan'[e],
                      plan'[d][x] = plan'[e][y]
               PROVE  d = e /\ x = y
    BY DEF PlannedOnce, Clusters
  <2>1. \A b \in Clusters : \A z \in DOMAIN plan[b] : plan[b][z] # j
    BY <1>7 DEF Listed
  <2>2. CASE d = c /\ e = c
    BY <2>1, <2>2, <1>4, <1>5, <1>7 DEF PlannedOnce
  <2>3. CASE d # c /\ e = c
    BY <2>1, <2>3, <1>4, <1>5, <1>7 DEF PlannedOnce
  <2>4. CASE d = c /\ e # c
    BY <2>1, <2>4, <1>4, <1>5, <1>7 DEF PlannedOnce
  <2>5. CASE d # c /\ e # c
    BY <2>5, <1>4, <1>7 DEF PlannedOnce
  <2> QED
    BY <2>2, <2>3, <2>4, <2>5
<1> QED
  BY <1>4, <1>6, <1>7

\* A list whose elements come from distinct positions of the old one keeps
\* every plan_job in one place.
LEMMA ShrinkEffect ==
  ASSUME NEW c \in Clusters,
         \A d \in Clusters : d # c => plan'[d] = plan[d],
         NEW g,
         \A x \in DOMAIN plan'[c] : g[x] \in DOMAIN plan[c] /\ plan'[c][x] = plan[c][g[x]],
         \A x, y \in DOMAIN plan'[c] : g[x] = g[y] => x = y
  PROVE  /\ \A p \in Jobs : Listed(p)' => Listed(p)
         /\ PlannedOnce => PlannedOnce'
<1>1. ASSUME NEW p \in Jobs, Listed(p)'
      PROVE  Listed(p)
  <2>1. PICK d \in Clusters : \E x \in DOMAIN plan'[d] : plan'[d][x] = p
    BY <1>1 DEF Listed, Clusters
  <2> QED
    BY <2>1 DEF Listed
<1>2. ASSUME PlannedOnce
      PROVE  PlannedOnce'
  <2> SUFFICES ASSUME NEW d \in Clusters, NEW e \in Clusters,
                      NEW x \in DOMAIN plan'[d], NEW y \in DOMAIN plan'[e],
                      plan'[d][x] = plan'[e][y]
               PROVE  d = e /\ x = y
    BY DEF PlannedOnce, Clusters
  <2>1. CASE d = c /\ e = c
    BY <2>1, <1>2 DEF PlannedOnce
  <2>2. CASE d # c /\ e = c
    BY <2>2, <1>2 DEF PlannedOnce
  <2>3. CASE d = c /\ e # c
    BY <2>3, <1>2 DEF PlannedOnce
  <2>4. CASE d # c /\ e # c
    BY <2>4, <1>2 DEF PlannedOnce
  <2> QED
    BY <2>1, <2>2, <2>3, <2>4
<1> QED
  BY <1>1, <1>2

\* list_remove_item: the plan_job leaves the plan, the others stay.
LEMMA RemoveEffect ==
  ASSUME TypeOK, NEW c \in Clusters, NEW i \in 1 .. Len(plan[c]),
         plan' = [plan EXCEPT ![c] = RemoveAt(@, i)]
  PROVE  /\ plan' \in [Clusters -> Seq(Jobs)]
         /\ \A p \in Jobs : Listed(p)' => Listed(p)
         /\ PlannedOnce => PlannedOnce'
         /\ PlannedOnce => \A p \in Jobs : p = plan[c][i] => ~Listed(p)'
<1> DEFINE s == plan[c]
           r == RemoveAt(s, i)
           old(x) == IF x < i THEN x ELSE x + 1
           g == [x \in 1 .. Len(s) - 1 |-> old(x)]
<1>1. plan \in [Clusters -> Seq(Jobs)] /\ s \in Seq(Jobs)
  BY DEF TypeOK
<1>2. Len(s) \in Nat /\ DOMAIN s = 1 .. Len(s)
  BY <1>1
<1>3. /\ r \in Seq(Jobs) /\ Len(r) = Len(s) - 1
      /\ \A x \in 1 .. Len(s) - 1 : r[x] = IF x < i THEN s[x] ELSE s[x + 1]
  BY <1>1, RemoveAtElements
<1>4. plan'[c] = r /\ (\A d \in Clusters : d # c => plan'[d] = plan[d])
      /\ plan' \in [Clusters -> Seq(Jobs)]
  BY <1>1, <1>3
<1> HIDE DEF r
<1>5. /\ DOMAIN r = 1 .. Len(s) - 1
      /\ \A x \in DOMAIN r : g[x] \in DOMAIN s /\ g[x] # i /\ r[x] = s[g[x]]
      /\ \A x, y \in DOMAIN r : g[x] = g[y] => x = y
  <2>1. DOMAIN r = 1 .. Len(s) - 1
    BY <1>2, <1>3
  <2>2. \A x \in 1 .. Len(s) - 1 : g[x] = IF x < i THEN x ELSE x + 1
    OBVIOUS
  <2> HIDE DEF g
  <2>3. \A x \in 1 .. Len(s) - 1 : g[x] \in 1 .. Len(s) /\ g[x] # i
    BY <1>2, <2>2
  <2>4. \A x \in 1 .. Len(s) - 1 : r[x] = s[g[x]]
    BY <1>3, <2>2
  <2>5. \A x, y \in 1 .. Len(s) - 1 : g[x] = g[y] => x = y
    BY <1>2, <2>2
  <2> QED
    BY <1>2, <2>1, <2>3, <2>4, <2>5
<1> HIDE DEF g
<1>6. /\ \A p \in Jobs : Listed(p)' => Listed(p)
      /\ PlannedOnce => PlannedOnce'
  BY <1>4, <1>5, ShrinkEffect
<1>7. ASSUME PlannedOnce, NEW p \in Jobs, p = plan[c][i], Listed(p)'
      PROVE  FALSE
  <2>1. PICK d \in Clusters : \E x \in DOMAIN plan'[d] : plan'[d][x] = p
    BY <1>7 DEF Listed, Clusters
  <2>2. i \in DOMAIN plan[c]
    BY <1>2
  <2>3. CASE d = c
    BY <2>1, <2>2, <2>3, <1>4, <1>5, <1>7 DEF PlannedOnce
  <2>4. CASE d # c
    BY <2>1, <2>2, <2>4, <1>4, <1>7 DEF PlannedOnce
  <2> QED
    BY <2>3, <2>4
<1> QED
  BY <1>4, <1>6, <1>7
-----------------------------------------------------------------------------
\* The fields that the actions give to a plan_job have their types.
LEMMA PlanJobTypes ==
  ASSUME NEW j \in Jobs
  PROVE  /\ Unallocated(j) \in PlanJob
         /\ \A st \in JobState, start \in {"unset", "now", "later"} : job_fillin(j, st, start) \in PlanJob
BY DEF Unallocated, job_fillin, PlanJob, JobState

\* A plan_job keeps its type when one of the fields that the cycle assigns is
\* replaced.
LEMMA PlanJobFields ==
  ASSUME NEW r \in PlanJob
  PROVE  /\ [r EXCEPT !.after = FALSE] \in PlanJob
         /\ [r EXCEPT !.after = TRUE] \in PlanJob
         /\ \A to \in {"freed", "leaked"} : [r EXCEPT !.ptr = to] \in PlanJob
BY DEF PlanJob

\* One iteration of plan_known_jobs_update keeps the types.
LEMMA KnownJobType ==
  ASSUME TypeOK, NEW j \in Jobs, KnownJob(j)
  PROVE  TypeOK'
<1> USE DEF TypeOK
<1>1. /\ server' = server /\ info' = info /\ next' = next /\ cluster' = cluster /\ gaveUp' = gaveUp
      /\ current' = current /\ asked' = asked /\ dropped' = dropped /\ gaveUp' = gaveUp
      /\ pending' \subseteq Jobs /\ nremote' \in Nat
      /\ pc' \in Phase /\ pc' \notin {"newUpdate", "newRetry"}
  BY DEF KnownJob, Phase, loopVars
<1>2. newJobs' \in Seq(Jobs)
  BY DEF KnownJob
<1>3. plan' \in [Clusters -> Seq(Jobs)] /\ pj' \in [Jobs -> PlanJob]
  <2>1. CASE ~Known(j)
    BY <2>1 DEF KnownJob, planVars
  <2>2. CASE Known(j)
    <3>1. PICK c \in Clusters : \E x \in DOMAIN plan[c] : RelinkAt(j, c, x)
      BY <2>2 DEF KnownJob, Relink
    <3>2. PICK x \in DOMAIN plan[c] : RelinkAt(j, c, x)
      BY <3>1
    <3>3. plan[c] \in Seq(Jobs) /\ plan[c][x] \in Jobs /\ x \in 1 .. Len(plan[c])
      OBVIOUS
    <3>4. CASE info[j] = "C"
      <4>1. plan' = [plan EXCEPT ![c] = RemoveAt(@, x)]
        BY <3>2, <3>4 DEF RelinkAt
      <4>2. plan' \in [Clusters -> Seq(Jobs)]
        BY <3>3, <4>1, RemoveEffect
      <4>3. pj' = [pj EXCEPT ![plan[c][x]] = Unallocated(plan[c][x])]
        BY <3>2, <3>4 DEF RelinkAt
      <4>4. Unallocated(plan[c][x]) \in PlanJob
        BY <3>3, PlanJobTypes
      <4> QED
        BY <3>3, <4>2, <4>3, <4>4
    <3>5. CASE info[j] # "C"
      <4> DEFINE p == plan[c][x]
                 r == [pj[p] EXCEPT !.jinfo = j, !.ptr = "live", !.st = info[j], !.mark = FALSE]
      <4>1. plan' = plan /\ pj' = [pj EXCEPT ![p] = r]
        BY <3>2, <3>5 DEF RelinkAt
      <4>2. p \in Jobs /\ pj[p] \in PlanJob /\ info[j] \in JobState
        BY <3>3
      <4>3. r \in PlanJob
        BY <4>2 DEF PlanJob
      <4> QED
        BY <4>1, <4>2, <4>3
    <3> QED
      BY <3>4, <3>5
  <2> QED
    BY <2>1, <2>2
<1> QED
  BY <1>1, <1>2, <1>3

\* The two phases that put new jobs into the plan keep the types.
LEMMA NewJobsType ==
  ASSUME TypeOK, AddAlreadyRunning \/ ScheduleNewJob
  PROVE  TypeOK'
<1> DEFINE j == newJobs[next]
<1>0. j \in Jobs /\ info[j] \in JobState
  BY DEF TypeOK, AddAlreadyRunning, ScheduleNewJob
<1> HIDE DEF j
<1>1. ASSUME NEW c \in Clusters, NEW i \in 1 .. Len(plan[c]) + 1,
             NEW start \in {"unset", "now", "later"}, Enlist(j, c, i, start)
      PROVE  plan' \in [Clusters -> Seq(Jobs)] /\ pj' \in [Jobs -> PlanJob]
  <2>1. plan' \in [Clusters -> Seq(Jobs)]
    BY <1>0, <1>1, InsertEffect DEF Enlist
  <2>2. pj \in [Jobs -> PlanJob] /\ job_fillin(j, info[j], start) \in PlanJob
    BY <1>0, PlanJobTypes DEF TypeOK
  <2> QED
    BY <2>1, <2>2, <1>0, <1>1 DEF Enlist
<1>2. \A c \in Clusters : 1 \in 1 .. Len(plan[c]) + 1
  BY DEF TypeOK
<1>3. CASE AddAlreadyRunning
  <2>1. plan' \in [Clusters -> Seq(Jobs)] /\ pj' \in [Jobs -> PlanJob]
    <3>1. CASE UNCHANGED planVars
      BY <3>1 DEF TypeOK, planVars
    <3>2. CASE \E c \in Clusters, start \in {"now", "unset"} : Enlist(j, c, 1, start)
      BY <3>2, <1>1, <1>2
    <3> QED
      BY <3>1, <3>2, <1>3 DEF AddAlreadyRunning, j
  <2> QED
    BY <2>1, <1>3 DEF TypeOK, AddAlreadyRunning
<1>4. CASE ScheduleNewJob
  <2>1. plan' \in [Clusters -> Seq(Jobs)] /\ pj' \in [Jobs -> PlanJob] /\ cluster' \in Nat
        /\ next' \in Nat \ {0} /\ pc' \in Phase /\ (pc' = pc \/ cluster' \in Clusters)
    <3>1. CASE next' = next + 1 /\ UNCHANGED <<pc, cluster, planVars>>
      BY <3>1 DEF TypeOK, planVars
    <3>2. ASSUME NEW c \in Clusters, NEW x \in 1 .. Len(plan[c]) + 1, NEW start \in {"now", "later"},
                 Enlist(j, c, x, start), cluster' = c, pc' = "newUpdate", next' = next
          PROVE  plan' \in [Clusters -> Seq(Jobs)] /\ pj' \in [Jobs -> PlanJob] /\ cluster' \in Nat
                 /\ next' \in Nat \ {0} /\ pc' \in Phase /\ (pc' = pc \/ cluster' \in Clusters)
      <4>1. plan' \in [Clusters -> Seq(Jobs)] /\ pj' \in [Jobs -> PlanJob]
        BY <3>2, <1>1
      <4> QED
        BY <3>2, <4>1 DEF TypeOK, Phase, Clusters
    <3> QED
      BY <3>1, <3>2, <1>4 DEF ScheduleNewJob, j
  <2> QED
    BY <2>1, <1>4 DEF TypeOK, ScheduleNewJob
<1> QED
  BY <1>3, <1>4

\* The steps of try_run_plan keep the types.
LEMMA TryRunType ==
  ASSUME TypeOK, TryRunJob
  PROVE  TypeOK'
<1> DEFINE i == current + 1
           p == plan[cluster][i]
<1>1. cluster \in Clusters /\ plan[cluster] \in Seq(Jobs) /\ i \in 1 .. Len(plan[cluster]) /\ p \in Jobs
  BY DEF TypeOK, TryRunJob
<1>2. /\ pc' = pc /\ info' = info /\ pending' = pending /\ nremote' = nremote
      /\ newJobs' = newJobs /\ next' = next /\ cluster' = cluster /\ gaveUp' = gaveUp
  BY DEF TryRunJob
<1> HIDE DEF i, p
<1>3. CASE /\ plan' = [plan EXCEPT ![cluster] = RemoveAt(@, i)]
           /\ pj' = [pj EXCEPT ![p] = Unallocated(p)]
           /\ current' = 0 /\ dropped' = TRUE
           /\ UNCHANGED <<server, asked>>
  <2>1. plan' \in [Clusters -> Seq(Jobs)]
    BY <1>1, <1>3, RemoveEffect
  <2> QED
    BY <1>1, <1>2, <1>3, <2>1, PlanJobTypes DEF TypeOK
<1>4. CASE /\ current' = current + 1
           /\ RequestRun(p) \/ UNCHANGED <<server, pj, asked>>
           /\ UNCHANGED <<plan, dropped>>
  <2>1. server' \in [Jobs -> JobState] /\ pj' \in [Jobs -> PlanJob] /\ asked' \in [Jobs -> Nat]
    <3>1. pj[p].jinfo \in Jobs
      BY <1>1 DEF TypeOK, PlanJob
    <3>2. CASE UNCHANGED <<server, pj, asked>>
      BY <3>2 DEF TypeOK
    <3>3. CASE pj' = [pj EXCEPT ![p].after = TRUE] /\ UNCHANGED <<server, asked>>
      <4>1. pj[p] \in PlanJob
        BY <1>1 DEF TypeOK
      <4>2. [pj[p] EXCEPT !.after = TRUE] \in PlanJob
        BY <4>1, PlanJobFields
      <4> QED
        BY <3>3, <4>2 DEF TypeOK
    <3>4. CASE /\ asked' = [asked EXCEPT ![pj[p].jinfo] = @ + 1] /\ UNCHANGED pj
               /\ server' = [server EXCEPT ![pj[p].jinfo] = "R"] \/ UNCHANGED server
      <4>1. asked' \in [Jobs -> Nat]
        BY <3>1, <3>4 DEF TypeOK
      <4>2. server' \in [Jobs -> JobState]
        BY <3>1, <3>4 DEF TypeOK, JobState
      <4> QED
        BY <3>4, <4>1, <4>2 DEF TypeOK
    <3> QED
      BY <3>2, <3>3, <3>4, <1>4 DEF RequestRun
  <2> QED
    BY <2>1, <1>2, <1>4 DEF TypeOK
<1> QED
  BY <1>3, <1>4 DEF TryRunJob, i, p

\* Every step of the scheduler and of the servers keeps the types.
LEMMA TypeStep ==
  ASSUME TypeOK, [Next]_vars
  PROVE  TypeOK'
<1>1. CASE ServerNext
  <2>1. ASSUME NEW j \in Jobs, NEW st \in JobState, server' = [server EXCEPT ![j] = st]
        PROVE  server' \in [Jobs -> JobState]
    BY <2>1 DEF TypeOK
  <2>2. ASSUME NEW from, NEW to \in JobState, ServerStep(from, to)
        PROVE  TypeOK'
    BY <2>1, <2>2 DEF ServerStep, TypeOK, loopVars, planVars
  <2>3. ASSUME NEW j \in Jobs, Purge(j)
        PROVE  TypeOK'
    <3>1. server' \in [Jobs -> JobState]
      BY <2>1, <2>3 DEF Purge, JobState
    <3> QED
      BY <2>3, <3>1 DEF Purge, TypeOK, loopVars, planVars
  <2>4. {"Q", "O", "R", "C"} \subseteq JobState
    BY DEF JobState
  <2> QED
    BY <1>1, <2>2, <2>3, <2>4 DEF ServerNext, Submit, Requeue, Suspend, Start, Complete
<1>2. CASE FetchServers
  <2>1. PICK missing \in SUBSET (Jobs \ Local), expired \in SUBSET {p \in Jobs : pj[p].after} :
          /\ info' = [j \in Jobs |-> IF j \in missing THEN "none" ELSE server[j]]
          /\ pj' = [p \in Jobs |-> IF p \in expired THEN [pj[p] EXCEPT !.after = FALSE] ELSE pj[p]]
          /\ pending' = {j \in Jobs : info'[j] # "none"}
          /\ pc' = IF pending' = {} THEN "update" ELSE "known"
    BY <1>2 DEF FetchServers, query_jobs
  <2>2. info' \in [Jobs -> JobState]
    BY <2>1 DEF TypeOK, JobState
  <2>a. ASSUME NEW p \in Jobs
        PROVE  pj[p] \in PlanJob /\ [pj[p] EXCEPT !.after = FALSE] \in PlanJob
    BY PlanJobFields DEF TypeOK
  <2>3. pj' \in [Jobs -> PlanJob]
    BY <2>1, <2>a
  <2> QED
    BY <1>2, <2>1, <2>2, <2>3 DEF FetchServers, query_jobs, TypeOK, Phase, loopVars
<1>3. CASE \E j \in Jobs : KnownJob(j)
  BY <1>3, KnownJobType
<1>4. CASE AddAlreadyRunning \/ ScheduleNewJob
  BY <1>4, NewJobsType
<1>5. CASE AlreadyRunningDone
  BY <1>5 DEF AlreadyRunningDone, TypeOK, Phase, planVars
<1>6. CASE UpdateCluster
  <2>1. PICK failed \in BOOLEAN : UpdateSched(cluster, failed)
                                /\ cluster' = IF failed THEN cluster ELSE cluster + 1
    BY <1>6 DEF UpdateCluster
  <2>2. plan' \in [Clusters -> Seq(Jobs)] /\ pj' \in [Jobs -> PlanJob]
    BY <1>6, <2>1, UpdateSchedEffect DEF UpdateCluster
  <2> QED
    BY <1>6, <2>1, <2>2 DEF UpdateCluster, TypeOK
<1>7. CASE UpdatesDone
  BY <1>7 DEF UpdatesDone, TypeOK, Phase, planVars
<1>8. CASE UpdateAfterNewJob
  <2>0. cluster \in Clusters
    BY <1>8 DEF UpdateAfterNewJob, TypeOK
  <2>1. PICK failed \in BOOLEAN : UpdateSched(cluster, failed)
    BY <1>8 DEF UpdateAfterNewJob
  <2>2. plan' \in [Clusters -> Seq(Jobs)] /\ pj' \in [Jobs -> PlanJob]
    BY <2>0, <2>1, UpdateSchedEffect
  <2>3. pc' \in Phase /\ next' \in Nat \ {0}
    BY <1>8 DEF UpdateAfterNewJob, TypeOK, Phase
  <2> QED
    BY <1>8, <2>0, <2>2, <2>3 DEF UpdateAfterNewJob, TypeOK
<1>9. CASE NewJobsDone
  BY <1>9 DEF NewJobsDone, TypeOK, Phase, planVars
<1>10. CASE TryRunJob
  BY <1>10, TryRunType
<1>11. CASE TryRunNextCluster \/ TryRunDone
  BY <1>11 DEF TryRunNextCluster, TryRunDone, TypeOK, Phase, planVars, loopVars
<1>12. CASE CleanupServers \/ Exception
  <2>1. PICK to \in {"freed", "leaked"} :
          pj' = [p \in Jobs |-> IF Listed(p) /\ pj[p].ptr = "live"
                                THEN [pj[p] EXCEPT !.ptr = to] ELSE pj[p]]
    BY <1>12 DEF CleanupServers, Exception
  <2>a. ASSUME NEW p \in Jobs
        PROVE  pj[p] \in PlanJob /\ [pj[p] EXCEPT !.ptr = to] \in PlanJob
    BY PlanJobFields DEF TypeOK
  <2>2. pj' \in [Jobs -> PlanJob]
    BY <2>1, <2>a
  <2>3. /\ info' = [j \in Jobs |-> "none"] /\ pending' = {} /\ nremote' = 0 /\ newJobs' = <<>>
        /\ next' = 1 /\ cluster' = 1 /\ current' = 0
        /\ asked' = [j \in Jobs |-> 0] /\ dropped' = FALSE /\ gaveUp' = FALSE
        /\ pc' = "fetch" /\ server' = server /\ plan' = plan
    BY <1>12 DEF CleanupServers, Exception, CycleLocals
  <2>4. /\ newJobs' \in Seq(Jobs) /\ info' \in [Jobs -> JobState] /\ asked' \in [Jobs -> Nat]
        /\ next' \in Nat \ {0} /\ pc' \in Phase
    BY <2>3 DEF Phase, JobState
  <2> QED
    BY <2>2, <2>3, <2>4 DEF TypeOK
<1>13. CASE UNCHANGED vars
  BY <1>13 DEF vars, TypeOK, loopVars, planVars
<1> QED
  BY <1>1, <1>2, <1>3, <1>4, <1>5, <1>6, <1>7, <1>8, <1>9, <1>10, <1>11, <1>12, <1>13
     DEF Next, SchedulerStep

\* The types of World, sched and plan_job hold in every cycle.
THEOREM TypeCorrect == Spec => []TypeOK
<1>1. Init => TypeOK
  <2>1. ASSUME Init
        PROVE  TypeOK
    <3>1. plan \in [Clusters -> Seq(Jobs)] /\ newJobs \in Seq(Jobs) /\ next = 1 /\ pc = "fetch"
      BY <2>1 DEF Init
    <3>2. pj \in [Jobs -> PlanJob]
      BY <2>1, PlanJobTypes DEF Init
    <3>3. server \in [Jobs -> JobState] /\ info \in [Jobs -> JobState] /\ asked \in [Jobs -> Nat]
      BY <2>1 DEF Init, JobState
    <3>4. pc \in Phase /\ pending \subseteq Jobs /\ dropped \in BOOLEAN /\ gaveUp \in BOOLEAN
      BY <2>1, Zenon DEF Init, Phase
    <3>5. /\ nremote \in Nat /\ next \in Nat \ {0} /\ cluster \in Nat /\ current \in Nat
      BY <2>1 DEF Init
    <3> QED
      BY <3>1, <3>2, <3>3, <3>4, <3>5 DEF TypeOK
  <2> QED
    BY <2>1
<1>2. TypeOK /\ [Next]_vars => TypeOK'
  BY TypeStep
<1> QED
  BY <1>1, <1>2, PTL DEF Spec
-----------------------------------------------------------------------------
(***************************************************************************)
(* No job is planned twice.                                                *)
(***************************************************************************)

\* A step that leaves the lists alone keeps every plan_job where it is.
LEMMA SamePlan ==
  ASSUME plan' = plan
  PROVE  /\ \A p \in Jobs : Listed(p)' <=> Listed(p)
         /\ PlannedOnce => PlannedOnce'
BY DEF Listed, PlannedOnce, Clusters

\* update_sched plans no job anew and none twice.
LEMMA UpdateSchedPlan ==
  ASSUME TypeOK, NEW c \in Clusters, NEW failed \in BOOLEAN, UpdateSched(c, failed)
  PROVE  /\ \A p \in Jobs : Listed(p)' => Listed(p)
         /\ PlannedOnce => PlannedOnce'
<1>1. PICK g : /\ \A x \in DOMAIN plan'[c] :
                    g[x] \in DOMAIN plan[c] /\ plan'[c][x] = plan[c][g[x]]
              /\ \A x, y \in DOMAIN plan'[c] : g[x] = g[y] => x = y
  BY UpdateSchedEffect
<1>2. \A d \in Clusters : d # c => plan'[d] = plan[d]
  BY UpdateSchedEffect
<1> QED
  BY <1>1, <1>2, ShrinkEffect

\* A step that plans no new job and only shortens the work left keeps the
\* entries of new_jobs out of the plan.
LEMMA UnplannedKept ==
  ASSUME TypeOK, NewJobsUnplanned, newJobs' = newJobs, info' = info,
         \A p \in Jobs : Listed(p)' => Listed(p),
         \A x \in DOMAIN newJobs : ToBePlanned(x)' => ToBePlanned(x),
         pc' \notin {"fetch", "known"} \/ UNCHANGED <<pc, pending>>
  PROVE  NewJobsUnplanned'
<1>1. \A x \in DOMAIN newJobs : newJobs[x] \in Jobs
  BY DEF TypeOK
<1>2. \A x \in DOMAIN newJobs : ToBePlanned(x)' => ~Listed(newJobs[x])'
  <2> SUFFICES ASSUME NEW x \in DOMAIN newJobs, ToBePlanned(x)', NEW p \in Jobs, p = newJobs[x]
               PROVE  ~Listed(p)'
    BY <1>1 DEF Listed
  <2> QED
    BY DEF NewJobsUnplanned
<1> QED
  BY <1>2 DEF NewJobsUnplanned

\* plan_known_jobs_update removes plan_jobs and hands on only jobs it did not
\* find, so the new jobs are in no list.
LEMMA KnownJobOnce ==
  ASSUME OnceInv, NEW j \in Jobs, KnownJob(j)
  PROVE  PlannedOnce' /\ NewJobsUnplanned'
<1> USE DEF OnceInv
<1>1. /\ pc = "known" /\ j \in pending /\ pending' = pending \ {j}
      /\ pc' \in {"known", "running"} /\ info' = info /\ next' = next
      /\ newJobs' = newJobs \/ (~Known(j) /\ newJobs' = Append(newJobs, j))
  BY DEF KnownJob, IsNewJob, loopVars
<1>2. (\A p \in Jobs : Listed(p)' => Listed(p)) /\ PlannedOnce'
  <2>1. CASE plan' = plan
    BY <2>1, SamePlan
  <2>2. CASE plan' # plan
    <3>1. PICK c \in Clusters : \E x \in DOMAIN plan[c] : plan' = [plan EXCEPT ![c] = RemoveAt(@, x)]
      BY <2>2 DEF KnownJob, Relink, RelinkAt, planVars
    <3>2. PICK x \in DOMAIN plan[c] : plan' = [plan EXCEPT ![c] = RemoveAt(@, x)]
      BY <3>1
    <3>3. x \in 1 .. Len(plan[c])
      BY DEF TypeOK
    <3> QED
      BY <3>2, <3>3, RemoveEffect
  <2> QED
    BY <2>1, <2>2
<1>3. CASE newJobs' = newJobs
  <2>1. \A x \in DOMAIN newJobs : ToBePlanned(x)
    BY <1>1 DEF ToBePlanned
  <2>2. \A x \in DOMAIN newJobs : newJobs[x] \in Jobs /\ newJobs[x] \notin pending /\ ~Listed(newJobs[x])
    BY <1>1, <2>1 DEF NewJobsUnplanned, TypeOK
  <2>3. \A x \in DOMAIN newJobs : ~Listed(newJobs[x])'
    <3> SUFFICES ASSUME NEW x \in DOMAIN newJobs, NEW p \in Jobs, p = newJobs[x]
                 PROVE  ~Listed(p)'
      BY <1>3, <2>2 DEF Listed
    <3> QED
      BY <1>2, <2>2
  <2> QED
    BY <1>1, <1>2, <1>3, <2>2, <2>3 DEF NewJobsUnplanned
<1>4. CASE ~Known(j) /\ newJobs' = Append(newJobs, j)
  <2>1. ~Listed(j)
    BY <1>4 DEF Known, Hit, Listed
  <2>2. \A x \in DOMAIN newJobs : newJobs[x] \in Jobs /\ newJobs[x] \notin pending /\ ~Listed(newJobs[x])
    BY <1>1 DEF NewJobsUnplanned, TypeOK, ToBePlanned
  <2>3. newJobs \in Seq(Jobs) /\ Len(newJobs) \in Nat /\ DOMAIN newJobs = 1 .. Len(newJobs)
    BY DEF TypeOK
  <2>4. /\ DOMAIN newJobs' = 1 .. Len(newJobs) + 1
        /\ \A x \in DOMAIN newJobs : newJobs'[x] = newJobs[x]
        /\ newJobs'[Len(newJobs) + 1] = j
    BY <1>4, <2>3
  <2>5. \A x \in DOMAIN newJobs' : x \in DOMAIN newJobs \/ x = Len(newJobs) + 1
    BY <2>3, <2>4
  <2>6. \A x \in DOMAIN newJobs' : newJobs'[x] \in Jobs /\ newJobs'[x] \notin pending' /\ ~Listed(newJobs'[x])
    BY <1>1, <2>1, <2>2, <2>4, <2>5
  <2>7. \A x \in DOMAIN newJobs' : ~Listed(newJobs[x])'
    <3> SUFFICES ASSUME NEW x \in DOMAIN newJobs', NEW p \in Jobs, p = newJobs'[x]
                 PROVE  ~Listed(p)'
      BY <2>6 DEF Listed
    <3> QED
      BY <1>2, <2>6
  <2>8. \A x, y \in DOMAIN newJobs' : newJobs'[x] = newJobs'[y] => x = y
    BY <1>1, <2>2, <2>4, <2>5 DEF NewJobsUnplanned
  <2> QED
    BY <1>1, <1>2, <2>6, <2>7, <2>8 DEF NewJobsUnplanned
<1> QED
  BY <1>1, <1>2, <1>3, <1>4

\* add_already_running_jobs lists a running new job, which was in no list.
LEMMA AddAlreadyRunningOnce ==
  ASSUME OnceInv, AddAlreadyRunning
  PROVE  PlannedOnce' /\ NewJobsUnplanned'
<1> USE DEF OnceInv
<1> DEFINE j == newJobs[next]
<1>1. /\ pc = "running" /\ pc' = "running" /\ info' = info /\ newJobs' = newJobs /\ next' = next + 1
      /\ next \in DOMAIN newJobs /\ j \in Jobs /\ next \in Nat
      /\ \A x \in DOMAIN newJobs : newJobs[x] \in Jobs /\ x \in Nat
  BY DEF AddAlreadyRunning, TypeOK
<1>2. \A x \in DOMAIN newJobs : ToBePlanned(x)' =>
        ToBePlanned(x) /\ (x # next \/ info[newJobs[x]] = "Q")
  BY <1>1 DEF ToBePlanned
<1>3. CASE UNCHANGED planVars
  BY <1>1, <1>2, <1>3, SamePlan, UnplannedKept DEF planVars
<1>4. CASE info[j] = "R" /\ \E c \in Clusters, start \in {"now", "unset"} : Enlist(j, c, 1, start)
  <2>1. PICK c \in Clusters : plan' = [plan EXCEPT ![c] = InsertAt(@, 1, j)]
    BY <1>4 DEF Enlist
  <2>2. ~Listed(j)
    BY <1>1 DEF NewJobsUnplanned, ToBePlanned
  <2>3. 1 \in 1 .. Len(plan[c]) + 1
    BY DEF TypeOK
  <2>4. PlannedOnce' /\ \A p \in Jobs : Listed(p)' => Listed(p) \/ p = j
    BY <1>1, <2>1, <2>2, <2>3, InsertEffect
  <2>5. ASSUME NEW x \in DOMAIN newJobs, ToBePlanned(x)'
        PROVE  newJobs[x] # j /\ ~Listed(newJobs[x])
    BY <1>1, <1>2, <1>4, <2>5 DEF NewJobsUnplanned
  <2>6. \A x \in DOMAIN newJobs : ToBePlanned(x)' => ~Listed(newJobs[x])'
    <3> SUFFICES ASSUME NEW x \in DOMAIN newJobs, ToBePlanned(x)', NEW p \in Jobs, p = newJobs[x]
                 PROVE  ~Listed(p)'
      BY <1>1 DEF Listed
    <3> QED
      BY <2>4, <2>5
  <2> QED
    BY <1>1, <2>4, <2>6 DEF NewJobsUnplanned
<1> QED
  BY <1>3, <1>4 DEF AddAlreadyRunning

\* try_to_schedule_new_jobs lists a queued new job, which was in no list.
LEMMA ScheduleNewJobOnce ==
  ASSUME OnceInv, ScheduleNewJob
  PROVE  PlannedOnce' /\ NewJobsUnplanned'
<1> USE DEF OnceInv
<1> DEFINE j == newJobs[next]
<1>1. /\ pc = "new" /\ info' = info /\ newJobs' = newJobs
      /\ next \in DOMAIN newJobs /\ j \in Jobs /\ next \in Nat
      /\ \A x \in DOMAIN newJobs : newJobs[x] \in Jobs /\ x \in Nat
  BY DEF ScheduleNewJob, TypeOK
<1>2. CASE next' = next + 1 /\ UNCHANGED <<pc, cluster, planVars>>
  <2>1. \A x \in DOMAIN newJobs : ToBePlanned(x)' => ToBePlanned(x)
    BY <1>1, <1>2 DEF ToBePlanned
  <2> QED
    BY <1>1, <1>2, <2>1, SamePlan, UnplannedKept DEF planVars
<1>3. ASSUME info[j] = "Q", NEW c \in Clusters, NEW i \in 1 .. Len(plan[c]) + 1,
             plan' = [plan EXCEPT ![c] = InsertAt(@, i, j)], pc' = "newUpdate", next' = next
      PROVE  PlannedOnce' /\ NewJobsUnplanned'
  <2>1. ~Listed(j)
    BY <1>1, <1>3 DEF NewJobsUnplanned, ToBePlanned
  <2>2. PlannedOnce' /\ \A p \in Jobs : Listed(p)' => Listed(p) \/ p = j
    BY <1>1, <1>3, <2>1, InsertEffect
  <2>3. \A x \in DOMAIN newJobs : ToBePlanned(x)' => ToBePlanned(x) /\ x # next
    BY <1>1, <1>3 DEF ToBePlanned
  <2>4. ASSUME NEW x \in DOMAIN newJobs, ToBePlanned(x)'
        PROVE  newJobs[x] # j /\ ~Listed(newJobs[x])
    BY <1>1, <2>3, <2>4 DEF NewJobsUnplanned
  <2>5. \A x \in DOMAIN newJobs : ToBePlanned(x)' => ~Listed(newJobs[x])'
    <3> SUFFICES ASSUME NEW x \in DOMAIN newJobs, ToBePlanned(x)', NEW p \in Jobs, p = newJobs[x]
                 PROVE  ~Listed(p)'
      BY <1>1 DEF Listed
    <3> QED
      BY <2>2, <2>4
  <2> QED
    BY <1>1, <1>3, <2>2, <2>5 DEF NewJobsUnplanned
<1> QED
  BY <1>2, <1>3 DEF ScheduleNewJob, Enlist

\* Every step keeps the plan free of duplicates.
LEMMA OnceStep ==
  ASSUME OnceInv, [Next]_vars
  PROVE  OnceInv'
<1> USE DEF OnceInv
<1>0. TypeOK'
  BY TypeStep
<1>1. CASE ServerNext \/ UNCHANGED vars
  <2>1. /\ plan' = plan /\ pc' = pc /\ info' = info /\ pending' = pending
        /\ newJobs' = newJobs /\ next' = next
    BY <1>1 DEF ServerNext, Submit, Requeue, Suspend, Start, Complete, ServerStep, Purge,
                vars, loopVars, planVars
  <2>2. \A x \in DOMAIN newJobs : ToBePlanned(x)' => ToBePlanned(x)
    BY <2>1 DEF ToBePlanned
  <2> QED
    BY <1>0, <2>1, <2>2, SamePlan, UnplannedKept
<1>2. CASE FetchServers \/ CleanupServers \/ Exception
  <2>1. plan' = plan /\ newJobs' = <<>>
    BY <1>2 DEF FetchServers, query_jobs, CleanupServers, Exception, CycleLocals, NewJobsUnplanned
  <2> QED
    BY <1>0, <2>1, SamePlan DEF NewJobsUnplanned
<1>3. CASE \E j \in Jobs : KnownJob(j)
  BY <1>0, <1>3, KnownJobOnce
<1>4. CASE AddAlreadyRunning
  BY <1>0, <1>4, AddAlreadyRunningOnce
<1>5. CASE ScheduleNewJob
  BY <1>0, <1>5, ScheduleNewJobOnce
<1>6. CASE AlreadyRunningDone \/ UpdatesDone \/ NewJobsDone \/ TryRunNextCluster \/ TryRunDone
  <2>1. /\ plan' = plan /\ newJobs' = newJobs /\ info' = info
        /\ \/ pc = "running" /\ pc' = "update"
           \/ pc = "update" /\ pc' = "new"
           \/ pc \in {"new", "run"} /\ pc' \in {"run", "cleanup"}
    BY <1>6 DEF AlreadyRunningDone, UpdatesDone, NewJobsDone, TryRunNextCluster, TryRunDone,
                planVars, loopVars
  <2>2. \A x \in DOMAIN newJobs : ToBePlanned(x)' => ToBePlanned(x)
    BY <2>1 DEF ToBePlanned
  <2> QED
    BY <1>0, <2>1, <2>2, SamePlan, UnplannedKept
<1>7. CASE UpdateCluster \/ UpdateAfterNewJob
  <2>1. PICK failed \in BOOLEAN : UpdateSched(cluster, failed)
    BY <1>7 DEF UpdateCluster, UpdateAfterNewJob
  <2>2. cluster \in Clusters
    BY <1>7 DEF UpdateCluster, UpdateAfterNewJob, TypeOK
  <2>3. PlannedOnce' /\ \A p \in Jobs : Listed(p)' => Listed(p)
    BY <2>1, <2>2, UpdateSchedPlan
  <2>4. /\ newJobs' = newJobs /\ info' = info /\ next \in Nat
        /\ \/ pc = "update" /\ pc' = "update"
           \/ pc = "newUpdate" /\ pc' = "newRetry" /\ next' = next
           \/ pc \in {"newUpdate", "newRetry"} /\ pc' = "new" /\ next' = next + 1
    BY <1>7 DEF UpdateCluster, UpdateAfterNewJob, TypeOK
  <2>5. \A x \in DOMAIN newJobs : x \in Nat
    BY DEF TypeOK
  <2>6. \A x \in DOMAIN newJobs : ToBePlanned(x)' => ToBePlanned(x)
    BY <2>4, <2>5 DEF ToBePlanned
  <2> QED
    BY <1>0, <2>3, <2>4, <2>6, UnplannedKept
<1>8. CASE TryRunJob
  <2>1. (\A p \in Jobs : Listed(p)' => Listed(p)) /\ PlannedOnce'
    <3>1. CASE plan' = plan
      BY <3>1, SamePlan
    <3>2. CASE plan' # plan
      <4>1. plan' = [plan EXCEPT ![cluster] = RemoveAt(@, current + 1)]
        BY <1>8, <3>2 DEF TryRunJob
      <4>2. cluster \in Clusters /\ current + 1 \in 1 .. Len(plan[cluster])
        BY <1>8 DEF TryRunJob, TypeOK
      <4> QED
        BY <4>1, <4>2, RemoveEffect
    <3> QED
      BY <3>1, <3>2
  <2>2. newJobs' = newJobs /\ info' = info /\ pc' = "run"
    BY <1>8 DEF TryRunJob
  <2>3. \A x \in DOMAIN newJobs : ToBePlanned(x)' => ToBePlanned(x)
    BY <2>2 DEF ToBePlanned
  <2> QED
    BY <1>0, <2>1, <2>2, <2>3, UnplannedKept
<1> QED
  BY <1>1, <1>2, <1>3, <1>4, <1>5, <1>6, <1>7, <1>8 DEF Next, SchedulerStep

\* Every step of the cycle keeps plan_jobs listed once and the new jobs that
\* are still to be planned unlisted.
LEMMA OnceInductive == Spec => []OnceInv
<1>1. Init => PlannedOnce /\ NewJobsUnplanned
  BY DEF Init, PlannedOnce, NewJobsUnplanned
<1>2. Init /\ TypeOK => OnceInv
  BY <1>1 DEF OnceInv
<1>3. OnceInv /\ [Next]_vars => OnceInv'
  BY OnceStep
<1> QED
  BY <1>2, <1>3, TypeCorrect, PTL DEF Spec

\* No plan_job is ever linked twice: whatever the servers report, however the
\* jobs are ordered and whichever update_sched calls fail, a job stands in at
\* most one cluster's list and only once.
THEOREM PlannedOnceAlways == Spec => []PlannedOnce
<1>1. OnceInv => PlannedOnce
  BY DEF OnceInv
<1> QED
  BY <1>1, OnceInductive, PTL
-----------------------------------------------------------------------------
(***************************************************************************)
(* The plan is linked to the JobInfo objects of the running cycle.         *)
(***************************************************************************)

\* What PlanLinked needs of a step that takes jobs only out of the plan.
LEMMA LinkKept ==
  ASSUME PlanLinked, info' = info, Planning, Planning' \/ pc' = "fetch",
         \A p \in Jobs : server[p] # "none" => server'[p] # "none",
         \A p \in Jobs : Listed(p)' => /\ Listed(p)
                                       /\ pj'[p].jinfo = pj[p].jinfo
                                       /\ pj'[p].ptr = pj[p].ptr
                                       /\ pj'[p].st = pj[p].st
  PROVE  PlanLinked'
<1>1. \A p \in Jobs : Listed(p)' => pj'[p].jinfo = p /\ server'[p] # "none" /\ Linked(p)'
  BY DEF PlanLinked, Linked
<1>2. \A j \in Jobs : info'[j] \in {"Q", "R", "O"} => server'[j] # "none"
  BY DEF PlanLinked
<1>3. pc' # "known"
  BY DEF Planning
<1> QED
  BY <1>1, <1>2, <1>3 DEF PlanLinked

\* An iteration of plan_known_jobs_update links the plan_job of its job and
\* leaves the other ones as they are.
LEMMA KnownJobLink ==
  ASSUME ReliableServers, LinkInv, NEW j \in Jobs, KnownJob(j)
  PROVE  PlanLinked'
<1> USE DEF LinkInv, OnceInv
<1>1. /\ pc = "known" /\ j \in pending /\ pending' = pending \ {j}
      /\ pc' = (IF pending' = {} THEN "running" ELSE "known")
      /\ info' = info /\ server' = server
  BY DEF KnownJob
<1>2. \A p \in Jobs : Listed(p)' => /\ Listed(p) /\ pj'[p].jinfo = p
                                    /\ p \in pending' \/ Linked(p)'
  <2>1. CASE ~Known(j)
    <3>1. plan' = plan /\ pj' = pj
      BY <2>1 DEF KnownJob, planVars
    <3>2. ~Listed(j)
      BY <2>1 DEF Known, Hit, Listed
    <3> QED
      BY <3>1, <3>2, <1>1, SamePlan DEF PlanLinked, Linked
  <2>2. CASE Known(j)
    <3>1. PICK c \in Clusters : \E x \in DOMAIN plan[c] : FirstHit(j, c, x) /\ RelinkAt(j, c, x)
      BY <2>2 DEF KnownJob, Relink
    <3>2. PICK x \in DOMAIN plan[c] : FirstHit(j, c, x) /\ RelinkAt(j, c, x)
      BY <3>1
    <3>3. plan[c][x] \in Jobs /\ x \in 1 .. Len(plan[c])
      BY DEF TypeOK
    <3>4. plan[c][x] = j
      BY <3>2, <3>3 DEF FirstHit, Hit, ReliableServers
    <3>5. CASE info[j] = "C"
      <4>1. plan' = [plan EXCEPT ![c] = RemoveAt(@, x)] /\ pj' = [pj EXCEPT ![j] = Unallocated(j)]
        BY <3>2, <3>4, <3>5 DEF RelinkAt
      <4>2. (\A p \in Jobs : Listed(p)' => Listed(p)) /\ ~Listed(j)'
        BY <3>3, <3>4, <4>1, RemoveEffect
      <4>3. \A p \in Jobs : p # j => pj'[p] = pj[p]
        BY <4>1 DEF TypeOK
      <4> QED
        BY <4>2, <4>3, <1>1 DEF PlanLinked, Linked
    <3>6. CASE info[j] # "C"
      <4>1. /\ plan' = plan
            /\ pj' = [pj EXCEPT ![j] = [@ EXCEPT !.jinfo = j, !.ptr = "live",
                                                 !.st = info[j], !.mark = FALSE]]
        BY <3>2, <3>4, <3>6 DEF RelinkAt
      <4>2. \A p \in Jobs : Listed(p)' <=> Listed(p)
        BY <4>1, SamePlan
      <4>3. \A p \in Jobs : p # j => pj'[p] = pj[p]
        BY <4>1 DEF TypeOK
      <4>4. pj'[j].jinfo = j /\ pj'[j].ptr = "live" /\ pj'[j].st = info[j]
        <5>1. pj[j] \in PlanJob
          BY DEF TypeOK
        <5>2. pj'[j] = [pj[j] EXCEPT !.jinfo = j, !.ptr = "live", !.st = info[j], !.mark = FALSE]
          BY <4>1 DEF TypeOK
        <5> QED
          BY <5>1, <5>2 DEF PlanJob
      <4> QED
        BY <4>2, <4>3, <4>4, <3>6, <1>1 DEF PlanLinked, Linked
    <3> QED
      BY <3>5, <3>6
  <2> QED
    BY <2>1, <2>2
<1> QED
  BY <1>1, <1>2 DEF PlanLinked, Planning

\* A plan_job that is created for a fetched job is linked to its JobInfo.
LEMMA EnlistLink ==
  ASSUME LinkInv, NEW j \in Jobs, NEW c \in Clusters, NEW i \in 1 .. Len(plan[c]) + 1, NEW start,
         Enlist(j, c, i, start), info[j] \in {"Q", "R"}, Planning, Planning',
         info' = info, server' = server
  PROVE  PlanLinked'
<1> USE DEF LinkInv, OnceInv
<1>1. \A p \in Jobs : Listed(p)' => Listed(p) \/ p = j
  BY InsertEffect DEF Enlist
<1>2. /\ \A p \in Jobs : p # j => pj'[p] = pj[p]
      /\ pj'[j].jinfo = j /\ pj'[j].ptr = "live" /\ pj'[j].st = info[j]
  BY DEF Enlist, job_fillin, TypeOK
<1>3. server[j] # "none"
  BY DEF PlanLinked
<1>4. \A p \in Jobs : Listed(p)' => pj'[p].jinfo = p /\ server'[p] # "none" /\ Linked(p)'
  BY <1>1, <1>2, <1>3 DEF PlanLinked, Linked
<1> QED
  BY <1>4 DEF PlanLinked, Planning

\* A server never forgets a job that is in the plan.
LEMMA ServerLink ==
  ASSUME ReliableServers, LinkInv, ServerNext
  PROVE  PlanLinked'
<1> USE DEF LinkInv, OnceInv
<1>1. plan' = plan /\ pj' = pj /\ pc' = pc /\ info' = info /\ pending' = pending
  BY DEF ServerNext, Submit, Requeue, Suspend, Start, Complete, ServerStep, Purge, planVars
<1>2. \A p \in Jobs : server[p] # "none" /\ (Listed(p) \/ info[p] \in {"Q", "R", "O"}) => server'[p] # "none"
  <2>1. ASSUME NEW from, NEW to \in {"Q", "O", "R", "C"}, ServerStep(from, to)
        PROVE  \A p \in Jobs : server[p] # "none" => server'[p] # "none"
    BY <2>1 DEF ServerStep, TypeOK
  <2>2. ASSUME NEW j \in Jobs, Purge(j)
        PROVE  \A p \in Jobs : server[p] # "none" /\ (Listed(p) \/ info[p] \in {"Q", "R", "O"})
                               => server'[p] # "none"
    BY <2>2 DEF Purge, ReliableServers, TypeOK
  <2> QED
    BY <2>1, <2>2 DEF ServerNext, Submit, Requeue, Suspend, Start, Complete
<1>3. \A p \in Jobs : Listed(p)' <=> Listed(p)
  BY <1>1, SamePlan
<1> QED
  BY <1>1, <1>2, <1>3 DEF PlanLinked, Planning, Linked

\* Every step of the cycle and of the servers keeps the plan linked.
LEMMA LinkStep ==
  ASSUME ReliableServers, LinkInv, [Next]_vars
  PROVE  LinkInv'
<1> USE DEF LinkInv
<1>0. OnceInv' /\ TypeOK /\ PlannedOnce
  BY OnceStep DEF OnceInv
<1>1. CASE ServerNext
  BY <1>0, <1>1, ServerLink
<1>2. CASE FetchServers
  <2>1. /\ pc = "fetch" /\ plan' = plan /\ server' = server /\ pc' \in {"known", "update"}
        /\ info' = [j \in Jobs |-> server[j]]
        /\ pending' = {j \in Jobs : info'[j] # "none"}
        /\ pc' = "update" => pending' = {}
    BY <1>2 DEF FetchServers, query_jobs, ReliableServers
  <2>2. \A p \in Jobs : pj'[p].jinfo = pj[p].jinfo
    BY <1>0, <1>2 DEF FetchServers, query_jobs, TypeOK, PlanJob
  <2>3. \A p \in Jobs : Listed(p)' => Listed(p) /\ pj'[p].jinfo = p /\ server'[p] # "none" /\ p \in pending'
    BY <2>1, <2>2, SamePlan DEF PlanLinked
  <2>4. \A j \in Jobs : info'[j] = server[j]
    BY <2>1
  <2> QED
    BY <1>0, <2>1, <2>3, <2>4 DEF PlanLinked, Planning
<1>3. CASE \E j \in Jobs : KnownJob(j)
  BY <1>0, <1>3, KnownJobLink
<1>4. CASE AddAlreadyRunning \/ ScheduleNewJob
  <2> DEFINE j == newJobs[next]
  <2>1. /\ j \in Jobs /\ info' = info /\ server' = server /\ Planning /\ Planning'
        /\ \A c \in Clusters : 1 \in 1 .. Len(plan[c]) + 1
    BY <1>0, <1>4 DEF AddAlreadyRunning, ScheduleNewJob, TypeOK, Planning
  <2> HIDE DEF j
  <2>2. CASE UNCHANGED planVars
    BY <1>0, <2>1, <2>2, SamePlan, LinkKept DEF planVars
  <2>3. ASSUME NEW c \in Clusters, NEW i \in 1 .. Len(plan[c]) + 1, NEW start, Enlist(j, c, i, start),
               info[j] \in {"Q", "R"}
        PROVE  PlanLinked'
    BY <2>1, <2>3, EnlistLink
  <2>4. PlanLinked'
    BY <1>4, <2>1, <2>2, <2>3 DEF AddAlreadyRunning, ScheduleNewJob, planVars, j
  <2> QED
    BY <1>0, <2>4
<1>5. CASE AlreadyRunningDone \/ UpdatesDone \/ NewJobsDone \/ TryRunNextCluster \/ TryRunDone
  <2>1. plan' = plan /\ pj' = pj /\ info' = info /\ server' = server /\ Planning /\ Planning'
    BY <1>5 DEF AlreadyRunningDone, UpdatesDone, NewJobsDone, TryRunNextCluster, TryRunDone,
                planVars, loopVars, Planning
  <2> QED
    BY <1>0, <2>1, SamePlan, LinkKept
<1>6. CASE UpdateCluster \/ UpdateAfterNewJob
  <2>1. PICK failed \in BOOLEAN : UpdateSched(cluster, failed)
    BY <1>6 DEF UpdateCluster, UpdateAfterNewJob
  <2>2. cluster \in Clusters
    BY <1>0, <1>6 DEF UpdateCluster, UpdateAfterNewJob, TypeOK
  <2>3. info' = info /\ server' = server /\ Planning /\ Planning'
    BY <1>6 DEF UpdateCluster, UpdateAfterNewJob, Planning
  <2>4. \A p \in Jobs : Listed(p)' => Listed(p)
    BY <1>0, <2>1, <2>2, UpdateSchedPlan
  <2>5. \A p \in Jobs : Listed(p)' => /\ pj'[p].jinfo = pj[p].jinfo
                                      /\ pj'[p].ptr = pj[p].ptr
                                      /\ pj'[p].st = pj[p].st
    BY <1>0, <2>1, <2>2, UpdateSchedEffect
  <2> QED
    BY <1>0, <2>3, <2>4, <2>5, LinkKept
<1>7. CASE TryRunJob
  <2>0. PICK p \in Jobs : p = plan[cluster][current + 1]
    BY <1>0, <1>7 DEF TryRunJob, TypeOK
  <2>1. /\ cluster \in Clusters /\ current + 1 \in 1 .. Len(plan[cluster]) /\ p \in Jobs
        /\ info' = info /\ Planning /\ Planning'
    BY <1>0, <1>7 DEF TryRunJob, TypeOK, Planning
  <2>2. CASE /\ plan' = [plan EXCEPT ![cluster] = RemoveAt(@, current + 1)]
             /\ pj' = [pj EXCEPT ![p] = Unallocated(p)] /\ server' = server
    <3>1. (\A q \in Jobs : Listed(q)' => Listed(q)) /\ ~Listed(p)'
      BY <1>0, <2>0, <2>1, <2>2, RemoveEffect
    <3>2. \A q \in Jobs : q # p => pj'[q] = pj[q]
      BY <1>0, <2>2 DEF TypeOK
    <3> QED
      BY <1>0, <2>1, <2>2, <3>1, <3>2, LinkKept
  <2>3. CASE plan' = plan /\ (RequestRun(p) \/ UNCHANGED <<server, pj, asked>>)
    <3>1. \A q \in Jobs : server[q] # "none" => server'[q] # "none"
      BY <1>0, <2>3 DEF RequestRun, TypeOK
    <3>2. \A q \in Jobs : pj'[q].jinfo = pj[q].jinfo /\ pj'[q].ptr = pj[q].ptr /\ pj'[q].st = pj[q].st
      <4>1. CASE pj' = pj
        BY <4>1
      <4>2. CASE pj' = [pj EXCEPT ![p].after = TRUE]
        BY <1>0, <2>1, <4>2 DEF TypeOK, PlanJob
      <4> QED
        BY <2>3, <4>1, <4>2 DEF RequestRun
    <3> QED
      BY <1>0, <2>1, <2>3, <3>1, <3>2, SamePlan, LinkKept
  <2> QED
    BY <1>7, <2>0, <2>2, <2>3 DEF TryRunJob
<1>8. CASE CleanupServers \/ Exception
  <2>1. plan' = plan /\ server' = server /\ pc' = "fetch" /\ info' = [j \in Jobs |-> "none"]
    BY <1>8 DEF CleanupServers, Exception, CycleLocals
  <2>2. \A p \in Jobs : pj'[p].jinfo = pj[p].jinfo
    <3>1. \A p \in Jobs : \A to \in {"freed", "leaked"} : [pj[p] EXCEPT !.ptr = to].jinfo = pj[p].jinfo
      BY <1>0 DEF TypeOK, PlanJob
    <3> QED
      BY <3>1, <1>8 DEF CleanupServers, Exception
  <2>3. \A p \in Jobs : Listed(p)' <=> Listed(p)
    BY <2>1, SamePlan
  <2> QED
    BY <1>0, <2>1, <2>2, <2>3 DEF PlanLinked, Planning
<1>9. CASE UNCHANGED vars
  BY <1>0, <1>9, SamePlan DEF vars, planVars, PlanLinked, Planning, Linked
<1> QED
  BY <1>1, <1>2, <1>3, <1>4, <1>5, <1>6, <1>7, <1>8, <1>9 DEF Next, SchedulerStep

\* With reliable servers the plan is linked in all reachable states.
LEMMA LinkInductive == ASSUME ReliableServers PROVE Spec => []LinkInv
<1>1. Init => PlanLinked
  BY DEF Init, PlanLinked, Listed, Planning
<1>2. Init /\ OnceInv => LinkInv
  BY <1>1 DEF LinkInv
<1>3. LinkInv /\ [Next]_vars => LinkInv'
  BY LinkStep
<1> QED
  BY <1>2, <1>3, OnceInductive, PTL DEF Spec

\* With servers that keep finished jobs until a cycle has seen them, whose
\* queries all succeed and whose job numbers differ, no phase of plan_run
\* that reads job->jinfo follows a pointer freed by cleanup_servers.
THEOREM NoDanglingAlways == ASSUME ReliableServers PROVE Spec => []NoDangling
<1>1. LinkInv => NoDangling
  BY DEF LinkInv, PlanLinked, NoDangling, Linked
<1> QED
  BY <1>1, LinkInductive, PTL

\* With such servers the plan agrees with what this cycle fetched: every
\* plan_job shows its own job in its fetched state, and none is completed.
THEOREM PlanMatchesServersAlways == ASSUME ReliableServers PROVE Spec => []PlanMatchesServers
<1>1. LinkInv => PlanMatchesServers
  BY DEF LinkInv, PlanLinked, PlanMatchesServers, Linked
<1> QED
  BY <1>1, LinkInductive, PTL
-----------------------------------------------------------------------------
(***************************************************************************)
(* What leaves the plan.                                                   *)
(***************************************************************************)

\* Removing one element of a list keeps the others.
LEMMA RemoveAtKeeps ==
  ASSUME NEW S, NEW s \in Seq(S), NEW i \in 1 .. Len(s), NEW x \in DOMAIN s, x # i
  PROVE  \E y \in DOMAIN RemoveAt(s, i) : RemoveAt(s, i)[y] = s[x]
<1> DEFINE r == RemoveAt(s, i)
           y == IF x < i THEN x ELSE x - 1
<1>1. /\ r \in Seq(S) /\ Len(r) = Len(s) - 1
      /\ \A z \in 1 .. Len(s) - 1 : r[z] = IF z < i THEN s[z] ELSE s[z + 1]
  BY RemoveAtElements
<1> HIDE DEF r
<1>2. DOMAIN r = 1 .. Len(s) - 1 /\ Len(s) \in Nat /\ x \in 1 .. Len(s)
  BY <1>1
<1>3. y \in DOMAIN r /\ r[y] = s[x]
  BY <1>1, <1>2
<1> QED
  BY <1>3 DEF r

\* list_remove_item takes out no other plan_job.
LEMMA RemoveKeeps ==
  ASSUME TypeOK, NEW c \in Clusters, NEW i \in 1 .. Len(plan[c]),
         plan' = [plan EXCEPT ![c] = RemoveAt(@, i)],
         NEW p \in Jobs, Listed(p), p # plan[c][i]
  PROVE  Listed(p)'
<1>1. plan[c] \in Seq(Jobs) /\ plan \in [Clusters -> Seq(Jobs)]
  BY DEF TypeOK
<1>2. plan'[c] = RemoveAt(plan[c], i) /\ \A d \in Clusters : d # c => plan'[d] = plan[d]
  BY <1>1
<1>a. PICK d \in Clusters : \E z \in DOMAIN plan[d] : plan[d][z] = p
  BY DEF Listed
<1>3. PICK x \in DOMAIN plan[d] : plan[d][x] = p
  BY <1>a
<1>4. \E y \in DOMAIN plan'[d] : plan'[d][y] = p
  <2>1. CASE d = c
    <3>1. x \in DOMAIN plan[c] /\ x # i /\ plan[c][x] = p
      BY <1>3, <2>1
    <3>2. \E y \in DOMAIN RemoveAt(plan[c], i) : RemoveAt(plan[c], i)[y] = plan[c][x]
      BY <1>1, <3>1, RemoveAtKeeps
    <3> QED
      BY <1>2, <2>1, <3>1, <3>2
  <2>2. CASE d # c
    BY <1>2, <1>3, <2>2
  <2> QED
    BY <2>1, <2>2
<1> QED
  BY <1>4 DEF Listed, Clusters

\* update_sched takes out queued jobs only, whatever else it moves.
LEMMA UpdateSchedKeeps ==
  ASSUME TypeOK, NEW c \in Clusters, NEW failed \in BOOLEAN, UpdateSched(c, failed),
         NEW p \in Jobs, Listed(p), pj[p].st # "Q"
  PROVE  Listed(p)'
<1>f. PICK f \in PriorityOrder(plan[c]) : \E s, m : UpdateResult(c, failed, f, s, m)
  BY UpdateSchedResult
<1>1. PICK s, m : UpdateResult(c, failed, f, s, m)
  BY <1>f
<1>2. /\ s \in Seq(Jobs) /\ DOMAIN s = DOMAIN plan[c] /\ m \in 0 .. Len(s)
      /\ \A x \in DOMAIN s : s[x] = plan[c][f[x]]
      /\ failed = (m # 0)
      /\ failed => pj[s[m]].st = "Q"
      /\ plan' = [plan EXCEPT ![c] = IF failed THEN RemoveAt(s, m) ELSE s]
  BY <1>1 DEF UpdateResult
<1>3. plan[c] \in Seq(Jobs) /\ plan \in [Clusters -> Seq(Jobs)]
  BY DEF TypeOK
<1>4. plan'[c] = (IF failed THEN RemoveAt(s, m) ELSE s) /\ \A d \in Clusters : d # c => plan'[d] = plan[d]
  BY <1>2, <1>3
<1>a. PICK d \in Clusters : \E z \in DOMAIN plan[d] : plan[d][z] = p
  BY DEF Listed
<1>5. PICK z \in DOMAIN plan[d] : plan[d][z] = p
  BY <1>a
<1>6. \E y \in DOMAIN plan'[d] : plan'[d][y] = p
  <2>1. CASE d # c
    BY <1>4, <1>5, <2>1
  <2>2. CASE d = c
    <3>1. PICK x \in DOMAIN plan[c] : f[x] = z
      BY <1>3, <1>5, <2>2, PriorityOrderSurjective, Zenon
    <3>2. x \in DOMAIN s /\ s[x] = p
      BY <1>2, <1>5, <2>2, <3>1
    <3>3. CASE ~failed
      BY <1>4, <2>2, <3>2, <3>3
    <3>4. CASE failed
      <4>a. m # 0 /\ pj[s[m]].st = "Q"
        BY <1>2, <3>4, Zenon
      <4>b. m \in 1 .. Len(s)
        BY <1>2, <4>a
      <4>1. m \in 1 .. Len(s) /\ x # m
        BY <3>2, <4>a, <4>b, Zenon
      <4>2. \E y \in DOMAIN RemoveAt(s, m) : RemoveAt(s, m)[y] = s[x]
        BY <1>2, <3>2, <4>1, RemoveAtKeeps
      <4> QED
        BY <1>4, <2>2, <3>2, <3>4, <4>2
    <3> QED
      BY <3>3, <3>4
  <2> QED
    BY <2>1, <2>2
<1> QED
  BY <1>6 DEF Listed, Clusters

\* Inserting takes nothing out.
LEMMA EnlistKeeps ==
  ASSUME TypeOK, NEW c \in Clusters, NEW i \in 1 .. Len(plan[c]) + 1, NEW j \in Jobs,
         plan' = [plan EXCEPT ![c] = InsertAt(@, i, j)]
  PROVE  \A p \in Jobs : Listed(p) => Listed(p)'
<1> DEFINE s == plan[c]
           r == InsertAt(s, i, j)
<1>1. plan \in [Clusters -> Seq(Jobs)] /\ s \in Seq(Jobs)
  BY DEF TypeOK
<1>2. Len(s) \in Nat /\ DOMAIN s = 1 .. Len(s)
  BY <1>1
<1>3. /\ r \in Seq(Jobs) /\ Len(r) = Len(s) + 1
      /\ \A x \in 1 .. Len(s) + 1 : r[x] = IF x < i THEN s[x] ELSE IF x = i THEN j ELSE s[x - 1]
  <2>1. Inserted(r, Jobs, s, i, j)
    BY <1>1, InsertAtResult, Zenon
  <2> HIDE DEF r
  <2> QED BY <2>1 DEF Inserted
<1>4. plan'[c] = r /\ \A d \in Clusters : d # c => plan'[d] = plan[d]
  BY <1>1, <1>3
<1> HIDE DEF r
<1> SUFFICES ASSUME NEW p \in Jobs, Listed(p)
             PROVE  Listed(p)'
  OBVIOUS
<1>a. PICK d \in Clusters : \E z \in DOMAIN plan[d] : plan[d][z] = p
  BY DEF Listed
<1>5. PICK x \in DOMAIN plan[d] : plan[d][x] = p
  BY <1>a
<1>6. \E y \in DOMAIN plan'[d] : plan'[d][y] = p
  <2>1. CASE d # c
    BY <1>4, <1>5, <2>1
  <2>2. CASE d = c
    <3> DEFINE y == IF x < i THEN x ELSE x + 1
    <3>1. x \in 1 .. Len(s) /\ s[x] = p
      BY <1>2, <1>5, <2>2
    <3>2. DOMAIN r = 1 .. Len(s) + 1
      BY <1>3
    <3>3. y \in DOMAIN r /\ r[y] = s[x]
      <4>1. CASE x < i
        BY <1>2, <1>3, <3>1, <3>2, <4>1
      <4>2. CASE ~(x < i)
        <5>1. y = x + 1 /\ y \in 1 .. Len(s) + 1 /\ ~(y < i) /\ y # i /\ y - 1 = x
          BY <1>2, <3>1, <4>2
        <5> HIDE DEF y
        <5> QED BY <1>3, <3>2, <5>1
      <4> QED BY <4>1, <4>2
    <3> QED
      BY <1>4, <2>2, <3>1, <3>3
  <2> QED
    BY <2>1, <2>2
<1> QED
  BY <1>6 DEF Listed, Clusters

\* A step of the cycle takes a running job out of the plan only when the
\* server has reported it completed.
LEMMA RunningKept ==
  ASSUME ReliableServers, LinkInv, Next, NEW p \in Jobs, Listed(p), pj[p].st = "R", ~Listed(p)'
  PROVE  info[p] = "C"
<1> USE DEF LinkInv, OnceInv
<1>0. plan' # plan
  BY SamePlan
<1>1. CASE \E j \in Jobs : KnownJob(j)
  <2>1. PICK j \in Jobs : KnownJob(j)
    BY <1>1
  <2>2. Relink(j)
    BY <1>0, <2>1 DEF KnownJob, planVars
  <2>3. PICK c \in Clusters : \E x \in DOMAIN plan[c] : FirstHit(j, c, x) /\ RelinkAt(j, c, x)
    BY <2>2 DEF Relink
  <2>4. PICK x \in DOMAIN plan[c] : FirstHit(j, c, x) /\ RelinkAt(j, c, x)
    BY <2>3
  <2>5. plan[c][x] \in Jobs /\ x \in 1 .. Len(plan[c])
    BY DEF TypeOK
  <2>6. plan[c][x] = j
    BY <2>4, <2>5 DEF FirstHit, Hit, ReliableServers
  <2>7. info[j] = "C" /\ plan' = [plan EXCEPT ![c] = RemoveAt(@, x)]
    BY <1>0, <2>4 DEF RelinkAt
  <2>8. p = j
    BY <2>5, <2>6, <2>7, RemoveKeeps
  <2> QED
    BY <2>7, <2>8
<1>2. CASE AddAlreadyRunning \/ ScheduleNewJob
  <2>1. newJobs[next] \in Jobs /\ \A c \in Clusters : 1 \in 1 .. Len(plan[c]) + 1
    BY <1>2 DEF AddAlreadyRunning, ScheduleNewJob, TypeOK
  <2>2. PICK c \in Clusters : \E i \in 1 .. Len(plan[c]) + 1 :
          plan' = [plan EXCEPT ![c] = InsertAt(@, i, newJobs[next])]
    BY <1>0, <1>2, <2>1 DEF AddAlreadyRunning, ScheduleNewJob, Enlist, planVars
  <2> QED
    BY <2>1, <2>2, EnlistKeeps
<1>3. CASE UpdateCluster \/ UpdateAfterNewJob
  <2>1. PICK failed \in BOOLEAN : UpdateSched(cluster, failed)
    BY <1>3 DEF UpdateCluster, UpdateAfterNewJob
  <2>2. cluster \in Clusters
    BY <1>3 DEF UpdateCluster, UpdateAfterNewJob, TypeOK
  <2> QED
    BY <2>1, <2>2, UpdateSchedKeeps
<1>4. CASE TryRunJob
  <2>1. /\ plan' = [plan EXCEPT ![cluster] = RemoveAt(@, current + 1)]
        /\ Unplanned(plan[cluster][current + 1])
    BY <1>0, <1>4 DEF TryRunJob
  <2>2. cluster \in Clusters /\ current + 1 \in 1 .. Len(plan[cluster])
    BY <1>4 DEF TryRunJob, TypeOK
  <2>3. p # plan[cluster][current + 1]
    BY <2>1 DEF Unplanned
  <2> QED
    BY <2>1, <2>2, <2>3, RemoveKeeps
<1>5. CASE ServerNext \/ Exception
  BY <1>0, <1>5 DEF ServerNext, Submit, Requeue, Suspend, Start, Complete, ServerStep, Purge, Exception, planVars
<1>6. CASE \/ FetchServers \/ AlreadyRunningDone \/ UpdatesDone \/ NewJobsDone
           \/ TryRunNextCluster \/ TryRunDone \/ CleanupServers
  BY <1>0, <1>6 DEF FetchServers, query_jobs, AlreadyRunningDone, UpdatesDone, NewJobsDone, TryRunNextCluster,
                    TryRunDone, CleanupServers, planVars
<1> QED
  BY <1>1, <1>2, <1>3, <1>4, <1>5, <1>6 DEF Next, SchedulerStep

\* With reliable servers a running job is never dropped from the plan by
\* update_sched, by try_run_plan or by a failed cycle: it leaves when
\* plan_known_jobs_update finds it completed.
THEOREM RunningStaysPlannedAlways == ASSUME ReliableServers PROVE Spec => RunningStaysPlanned
<1>1. LinkInv /\ [Next]_vars =>
        [\A p \in Jobs : Listed(p) /\ pj[p].st = "R" /\ ~Listed(p)' => info[p] = "C"]_vars
  BY RunningKept
<1> QED
  BY <1>1, LinkInductive, PTL DEF Spec, RunningStaysPlanned
-----------------------------------------------------------------------------
(***************************************************************************)
(* try_run_plan asks at most once.                                         *)
(***************************************************************************)

\* The walk of try_run_plan has passed the plan_job of j.
Passed(j) ==
  \E c \in Clusters : \E x \in DOMAIN plan[c] :
    plan[c][x] = j /\ (c < cluster \/ (c = cluster /\ x <= current))

\* Before the walk nothing has been asked for; a job that was asked for is
\* behind the walk, which never goes back unless it removes a plan_job.
AskedBehind ==
  /\ pc \notin {"run", "cleanup"} => \A j \in Jobs : asked[j] = 0
  /\ ~dropped => \A j \in Jobs : asked[j] <= 1
  /\ ~dropped /\ pc = "run" => \A j \in Jobs : asked[j] # 0 => Passed(j)

AskedInv == LinkInv /\ AskedBehind

\* The step of try_run_plan to the next plan_job.
LEMMA TryRunJobAsked ==
  ASSUME AskedInv, TryRunJob
  PROVE  AskedBehind'
<1> USE DEF AskedInv, LinkInv, OnceInv
<1>0. PICK p \in Jobs : p = plan[cluster][current + 1]
  BY DEF TryRunJob, TypeOK
<1>1. /\ pc = "run" /\ pc' = "run" /\ cluster' = cluster /\ cluster \in Clusters /\ current \in Nat
      /\ current + 1 \in DOMAIN plan[cluster]
      /\ \A c \in Clusters : c \in Nat /\ \A x \in DOMAIN plan[c] : x \in Nat
      /\ \A j \in Jobs : asked[j] \in Nat
  <2>1. pc = "run" /\ pc' = "run" /\ cluster' = cluster /\ cluster \in Clusters /\ current < Len(plan[cluster])
    BY DEF TryRunJob
  <2>2. plan \in [Clusters -> Seq(Jobs)] /\ current \in Nat /\ \A j \in Jobs : asked[j] \in Nat
    BY DEF TypeOK
  <2>3. \A c \in Clusters : c \in Nat
    BY LimitsAssumption DEF Clusters
  <2> QED
    BY <2>1, <2>2, <2>3
<1>2. CASE dropped'
  BY <1>1, <1>2 DEF AskedBehind
<1>3. CASE ~dropped'
  <2>1. plan' = plan /\ current' = current + 1 /\ ~dropped
    BY <1>3 DEF TryRunJob
  <2>2. \A j \in Jobs : Passed(j) => Passed(j)'
    BY <1>1, <2>1 DEF Passed, Clusters
  <2>3. Passed(p)'
    BY <1>0, <1>1, <2>1 DEF Passed, Clusters
  <2>4. ~Passed(p)
    <3> SUFFICES ASSUME NEW c \in Clusters, NEW x \in DOMAIN plan[c], plan[c][x] = p,
                        c < cluster \/ (c = cluster /\ x <= current)
                 PROVE  FALSE
      BY DEF Passed
    <3>1. c = cluster /\ x = current + 1
      BY <1>0, <1>1 DEF PlannedOnce
    <3> QED
      BY <1>1, <3>1
  <2>5. asked[p] = 0
    BY <1>1, <2>1, <2>4 DEF AskedBehind
  <2>6. pj[p].jinfo = p
    <3>1. Listed(p)
      BY <1>0, <1>1 DEF Listed
    <3> QED
      BY <3>1 DEF PlanLinked
  <2>7. asked' = asked \/ asked' = [asked EXCEPT ![p] = @ + 1]
    BY <1>0, <1>3, <2>6 DEF TryRunJob, RequestRun
  <2>8. \A j \in Jobs : asked'[j] = asked[j] \/ (j = p /\ asked'[j] = 1)
    BY <2>5, <2>7 DEF TypeOK
  <2>9. \A j \in Jobs : asked'[j] <= 1 /\ (asked'[j] # 0 => Passed(j)')
    BY <1>1, <2>1, <2>2, <2>3, <2>8 DEF AskedBehind
  <2> QED
    BY <1>1, <2>9 DEF AskedBehind
<1> QED
  BY <1>2, <1>3

\* Every step keeps the requests behind the walk.
LEMMA AskedStep ==
  ASSUME ReliableServers, AskedInv, [Next]_vars
  PROVE  AskedInv'
<1> USE DEF AskedInv
<1>0. LinkInv' /\ TypeOK
  BY LinkStep DEF LinkInv, OnceInv
<1>1. CASE TryRunJob
  BY <1>0, <1>1, TryRunJobAsked
<1>2. CASE TryRunNextCluster
  <2>1. /\ pc = "run" /\ pc' = pc /\ plan' = plan /\ asked' = asked /\ dropped' = dropped
        /\ cluster' = cluster + 1 /\ cluster \in Nat
        /\ \A c \in Clusters : c \in Nat
    BY <1>0, <1>2 DEF TryRunNextCluster, TypeOK, planVars, Clusters
  <2>2. \A j \in Jobs : Passed(j) => Passed(j)'
    BY <2>1 DEF Passed, Clusters
  <2> QED
    BY <1>0, <2>1, <2>2 DEF AskedBehind
<1>3. CASE TryRunDone
  BY <1>0, <1>3 DEF TryRunDone, AskedBehind
<1>4. CASE CleanupServers \/ Exception
  BY <1>0, <1>4 DEF CleanupServers, Exception, CycleLocals, AskedBehind
<1>5. CASE ServerNext \/ UNCHANGED vars
  <2>1. /\ plan' = plan /\ cluster' = cluster /\ current' = current /\ pc' = pc
        /\ asked' = asked /\ dropped' = dropped
    BY <1>5 DEF ServerNext, Submit, Requeue, Suspend, Start, Complete, ServerStep, Purge,
                planVars, loopVars, vars
  <2>2. \A j \in Jobs : Passed(j) => Passed(j)'
    BY <2>1 DEF Passed, Clusters
  <2> QED
    BY <1>0, <2>1, <2>2 DEF AskedBehind
<1>6. CASE \/ FetchServers \/ \E j \in Jobs : KnownJob(j)
           \/ AddAlreadyRunning \/ AlreadyRunningDone \/ UpdateCluster \/ UpdatesDone
           \/ ScheduleNewJob \/ UpdateAfterNewJob \/ NewJobsDone
  <2>1. pc \notin {"run", "cleanup"} /\ pc' # "cleanup" /\ asked' = asked
    BY <1>6 DEF FetchServers, query_jobs, KnownJob, AddAlreadyRunning, AlreadyRunningDone, UpdateCluster, UpdatesDone,
                ScheduleNewJob, UpdateAfterNewJob, NewJobsDone
  <2> QED
    BY <1>0, <2>1 DEF AskedBehind
<1> QED
  BY <1>1, <1>2, <1>3, <1>4, <1>5, <1>6 DEF Next, SchedulerStep

\* With reliable servers try_run_plan asks for no job twice in a cycle, unless
\* removing a plan_job sent it back to the start of a list.
THEOREM RequestedOnceAlways == ASSUME ReliableServers PROVE Spec => []RequestedOnce
<1>1. Init /\ LinkInv => AskedInv
  BY DEF Init, AskedInv, AskedBehind
<1>2. AskedInv /\ [Next]_vars => AskedInv'
  BY AskedStep
<1>3. AskedInv => RequestedOnce
  <2> SUFFICES ASSUME AskedInv, NEW j \in Jobs, asked[j] > 1
               PROVE  dropped
    BY DEF RequestedOnce
  <2>1. asked[j] \in Nat
    BY DEF AskedInv, LinkInv, OnceInv, TypeOK
  <2> QED
    BY <2>1 DEF AskedInv, AskedBehind
<1> QED
  BY <1>1, <1>2, <1>3, LinkInductive, PTL DEF Spec
-----------------------------------------------------------------------------
(***************************************************************************)
(* The priority jobs come first.                                           *)
(***************************************************************************)

\* A queued priority job that may run now.
Ready(p) == pj[p].st = "Q" /\ ~pj[p].after /\ pj[p].jinfo \in Priority

\* The ready jobs of the list stand in front.
Ordered(c) ==
  \A x, y \in DOMAIN plan[c] : x < y /\ Ready(plan[c][y]) => Ready(plan[c][x])

\* The ready jobs that update_sched will not move, because an earlier call has
\* marked them and not reached them, stand behind ready jobs only.
Tidy(c) ==
  \A x, y \in DOMAIN plan[c] :
    x < y /\ Ready(plan[c][y]) /\ pj[plan[c][y]].mark => Ready(plan[c][x])

Unmarked(c) == \A x \in DOMAIN plan[c] : ~pj[plan[c][x]].mark

\* What update_sched finds and leaves in the phases of a cycle.
PriorityKept ==
  /\ pc \in {"fetch", "known", "running"} => cluster = 1
  /\ pc = "known" => \A p \in Jobs : Listed(p) => p \in pending \/ ~pj[p].mark
  /\ pc = "running" => \A c \in Clusters : Unmarked(c)
  /\ pc = "update" => /\ cluster >= 1
                      /\ \A c \in Clusters :
                           /\ c < cluster => Ordered(c) /\ Unmarked(c)
                           /\ c = cluster => Tidy(c)
                           /\ c > cluster => Unmarked(c)
  /\ pc = "new" /\ ~gaveUp => \A c \in Clusters : Ordered(c) /\ Unmarked(c)
  /\ pc \in {"newUpdate", "newRetry"} /\ ~gaveUp =>
       \A c \in Clusters : IF c = cluster THEN Tidy(c) ELSE Ordered(c) /\ Unmarked(c)
  /\ pc = "run" /\ cluster = 1 /\ current = 0 /\ ~dropped /\ ~gaveUp =>
       \A c \in Clusters : Ordered(c)

PriorityInv == LinkInv /\ PriorityKept

\* A list that is left alone, with its plan_jobs, stays as it was.
LEMMA OrderKept ==
  ASSUME NEW c \in Clusters, plan'[c] = plan[c],
         \A x \in DOMAIN plan[c] : LET p == plan[c][x]
                                   IN /\ pj'[p].st = pj[p].st /\ pj'[p].after = pj[p].after
                                      /\ pj'[p].jinfo = pj[p].jinfo /\ pj'[p].mark = pj[p].mark
  PROVE  /\ Ordered(c) => Ordered(c)'
         /\ Unmarked(c) => Unmarked(c)'
         /\ Tidy(c) => Tidy(c)'
<1>1. \A x \in DOMAIN plan[c] : pj'[plan[c][x]].mark = pj[plan[c][x]].mark
  OBVIOUS
<1>2. \A x \in DOMAIN plan[c] : Ready(plan[c][x])' <=> Ready(plan[c][x])
  BY DEF Ready
<1> QED
  BY <1>1, <1>2 DEF Ordered, Unmarked, Tidy

LEMMA TidyLists ==
  ASSUME NEW c \in Clusters
  PROVE  (Ordered(c) => Tidy(c)) /\ (Unmarked(c) => Tidy(c))
BY DEF Ordered, Tidy, Unmarked

\* update_sched puts the ready jobs of a tidy list in front, even when it fails.
LEMMA UpdateSchedOrder ==
  ASSUME TypeOK, PlannedOnce, NEW c \in Clusters, NEW failed \in BOOLEAN, UpdateSched(c, failed)
  PROVE  /\ Tidy(c) => Ordered(c)'
         /\ ~failed => Unmarked(c)'
         /\ \A d \in Clusters : d # c => /\ Ordered(d) => Ordered(d)'
                                         /\ Unmarked(d) => Unmarked(d)'
<1>f. PICK f \in PriorityOrder(plan[c]) : \E s, m : UpdateResult(c, failed, f, s, m)
  BY UpdateSchedResult
<1>1. PICK s, m : UpdateResult(c, failed, f, s, m)
  BY <1>f
<1>2. /\ s \in Seq(Jobs) /\ DOMAIN s = DOMAIN plan[c] /\ m \in 0 .. Len(s)
      /\ \A x \in DOMAIN s : s[x] = plan[c][f[x]]
      /\ failed = (m # 0)
      /\ plan' = [plan EXCEPT ![c] = IF failed THEN RemoveAt(s, m) ELSE s]
      /\ \A p \in Jobs : ~(failed /\ p = s[m]) =>
           /\ pj'[p].jinfo = pj[p].jinfo
           /\ pj'[p].st = pj[p].st
           /\ pj'[p].after = pj[p].after
           /\ (\E x \in DOMAIN s : s[x] = p) /\ ~failed => ~pj'[p].mark
           /\ (\A x \in DOMAIN s : s[x] # p) => pj'[p].mark = pj[p].mark
  BY <1>1 DEF UpdateResult
<1>3. plan[c] \in Seq(Jobs) /\ plan \in [Clusters -> Seq(Jobs)]
  BY DEF TypeOK
<1>4. /\ f \in [DOMAIN plan[c] -> DOMAIN plan[c]]
      /\ \A x, y \in DOMAIN plan[c] : f[x] = f[y] => x = y
  BY <1>3, PriorityOrderInjective
<1>5. /\ plan'[c] = (IF failed THEN RemoveAt(s, m) ELSE s)
      /\ \A d \in Clusters : d # c => plan'[d] = plan[d]
  BY <1>2, <1>3
<1>6. ASSUME Tidy(c), NEW x \in DOMAIN s, NEW y \in DOMAIN s, x < y, Ready(s[y])
      PROVE  Ready(s[x])
  <2>1. LET fx == MovesToFront(plan[c][f[x]])
            fy == MovesToFront(plan[c][f[y]])
        IN (fx /\ ~fy) \/ (fx /\ fy /\ f[x] > f[y]) \/ (~fx /\ ~fy /\ f[x] < f[y])
    BY <1>2, <1>6 DEF PriorityOrder
  <2>2. f[x] \in DOMAIN plan[c] /\ f[y] \in DOMAIN plan[c]
    BY <1>2, <1>4
  <2>3. s[x] = plan[c][f[x]] /\ s[y] = plan[c][f[y]]
    BY <1>2
  <2>4. CASE MovesToFront(s[x])
    BY <2>4 DEF MovesToFront, Ready
  <2>5. CASE ~MovesToFront(s[x])
    <3>1. ~MovesToFront(s[y]) /\ f[x] < f[y]
      BY <2>1, <2>3, <2>5
    <3>2. pj[s[y]].mark
      BY <1>6, <3>1 DEF MovesToFront, Ready
    <3> QED
      BY <1>6, <2>2, <2>3, <3>1, <3>2 DEF Tidy
  <2> QED
    BY <2>4, <2>5
<1>7. \A x \in DOMAIN s : s[x] \in Jobs
  BY <1>2
<1>8. CASE ~failed
  <2>1. plan'[c] = s
    BY <1>5, <1>8
  <2>2. \A x \in DOMAIN s : (Ready(s[x])' <=> Ready(s[x])) /\ ~pj'[s[x]].mark
    BY <1>2, <1>7, <1>8 DEF Ready
  <2>3. Unmarked(c)'
    BY <2>1, <2>2 DEF Unmarked
  <2>4. Tidy(c) => Ordered(c)'
    BY <1>6, <2>1, <2>2 DEF Ordered, Ready
  <2>5. ASSUME NEW d \in Clusters, d # c
        PROVE  (Ordered(d) => Ordered(d)') /\ (Unmarked(d) => Unmarked(d)')
    <3>1. \A x \in DOMAIN plan[d] : plan[d][x] \in Jobs /\ \A y \in DOMAIN s : s[y] # plan[d][x]
      BY <1>2, <1>3, <1>4, <2>5 DEF PlannedOnce
    <3>2. \A x \in DOMAIN plan[d] : LET p == plan[d][x]
                                    IN /\ pj'[p].st = pj[p].st /\ pj'[p].after = pj[p].after
                                       /\ pj'[p].jinfo = pj[p].jinfo /\ pj'[p].mark = pj[p].mark
      BY <1>2, <1>8, <3>1
    <3> QED
      BY <1>5, <2>5, <3>2, OrderKept
  <2> QED
    BY <2>3, <2>4, <2>5
<1>9. CASE failed
  <2>a. m # 0
    BY <1>2, <1>9, Zenon
  <2>0. m \in 1 .. Len(s) /\ Len(s) \in Nat /\ DOMAIN s = 1 .. Len(s)
    BY <1>2, <2>a
  <2> DEFINE r == RemoveAt(s, m)
             old(x) == IF x < m THEN x ELSE x + 1
  <2>1. /\ r \in Seq(Jobs) /\ Len(r) = Len(s) - 1
        /\ \A x \in 1 .. Len(s) - 1 : r[x] = IF x < m THEN s[x] ELSE s[x + 1]
    BY <1>2, <2>0, RemoveAtElements
  <2>2. plan'[c] = r
    BY <1>5, <1>9
  <2> HIDE DEF r
  <2>3. /\ \A x \in DOMAIN r : old(x) \in DOMAIN s /\ old(x) # m /\ r[x] = s[old(x)]
        /\ \A x, y \in DOMAIN r : x < y => old(x) < old(y)
    BY <2>0, <2>1
  <2> HIDE DEF old
  <2>4. \A x, y \in DOMAIN s : s[x] = s[y] => x = y
    BY <1>2, <1>4 DEF PlannedOnce
  <2>5. \A x \in DOMAIN r : r[x] \in Jobs /\ r[x] # s[m]
    BY <1>7, <2>0, <2>3, <2>4
  <2>6. \A x \in DOMAIN r : Ready(r[x])' <=> Ready(r[x])
    BY <1>2, <2>5 DEF Ready
  <2>7. ASSUME Tidy(c), NEW x \in DOMAIN r, NEW y \in DOMAIN r, x < y, Ready(r[y])
        PROVE  Ready(r[x])
    BY <1>6, <2>3, <2>7
  <2>8. Tidy(c) => Ordered(c)'
    BY <2>2, <2>6, <2>7 DEF Ordered, Ready
  <2>9. ASSUME NEW d \in Clusters, d # c
        PROVE  (Ordered(d) => Ordered(d)') /\ (Unmarked(d) => Unmarked(d)')
    <3>1. \A x \in DOMAIN plan[d] : plan[d][x] \in Jobs /\ \A y \in DOMAIN s : s[y] # plan[d][x]
      BY <1>2, <1>3, <1>4, <2>9 DEF PlannedOnce
    <3>2. \A x \in DOMAIN plan[d] : LET p == plan[d][x]
                                    IN /\ pj'[p].st = pj[p].st /\ pj'[p].after = pj[p].after
                                       /\ pj'[p].jinfo = pj[p].jinfo /\ pj'[p].mark = pj[p].mark
      BY <1>2, <2>0, <3>1
    <3> QED
      BY <1>5, <2>9, <3>2, OrderKept
  <2> QED
    BY <1>9, <2>8, <2>9
<1> QED
  BY <1>8, <1>9

\* A new plan_job that update_sched has not marked leaves an unmarked list
\* unmarked, and the other lists as they were.
LEMMA EnlistOrder ==
  ASSUME TypeOK, NEW j \in Jobs, ~Listed(j), NEW c \in Clusters, NEW i \in 1 .. Len(plan[c]) + 1,
         NEW start, Enlist(j, c, i, start)
  PROVE  /\ Unmarked(c) => Unmarked(c)'
         /\ \A d \in Clusters : d # c => /\ Ordered(d) => Ordered(d)'
                                         /\ Unmarked(d) => Unmarked(d)'
<1> DEFINE s == plan[c]
           r == InsertAt(s, i, j)
<1>1. plan \in [Clusters -> Seq(Jobs)] /\ s \in Seq(Jobs)
  BY DEF TypeOK
<1>2. Len(s) \in Nat /\ DOMAIN s = 1 .. Len(s)
  BY <1>1
<1>3. /\ r \in Seq(Jobs) /\ Len(r) = Len(s) + 1
      /\ \A x \in 1 .. Len(s) + 1 : r[x] = IF x < i THEN s[x] ELSE IF x = i THEN j ELSE s[x - 1]
  <2>1. Inserted(r, Jobs, s, i, j)
    BY <1>1, InsertAtResult, Zenon
  <2> HIDE DEF r
  <2> QED BY <2>1 DEF Inserted
<1>4. plan'[c] = r /\ \A d \in Clusters : d # c => plan'[d] = plan[d]
  BY <1>1, <1>3 DEF Enlist
<1>5. \A p \in Jobs : p # j => pj'[p] = pj[p]
  BY DEF Enlist, TypeOK
<1>6. ~pj'[j].mark
  BY DEF Enlist, TypeOK, job_fillin
<1>7. \A d \in Clusters : \A x \in DOMAIN plan[d] : plan[d][x] \in Jobs /\ plan[d][x] # j
  BY <1>1 DEF Listed
<1> HIDE DEF r
<1>8. ASSUME Unmarked(c)
      PROVE  Unmarked(c)'
  <2>1. ASSUME NEW x \in DOMAIN r
        PROVE  r[x] = j \/ \E y \in DOMAIN s : r[x] = s[y]
    <3>1. x \in 1 .. Len(s) + 1
      BY <1>3
    <3>2. CASE x < i
      BY <1>2, <1>3, <3>1, <3>2
    <3>3. CASE x = i
      BY <1>3, <3>1, <3>3
    <3>4. CASE x > i
      <4>1. x - 1 \in DOMAIN s /\ r[x] = s[x - 1]
        BY <1>2, <1>3, <3>1, <3>4
      <4> QED
        BY <4>1
    <3> QED
      BY <3>1, <3>2, <3>3, <3>4
  <2>2. \A y \in DOMAIN s : ~pj'[s[y]].mark
    BY <1>5, <1>7, <1>8 DEF Unmarked
  <2>3. \A x \in DOMAIN r : ~pj'[r[x]].mark
    BY <1>6, <2>1, <2>2
  <2> QED
    BY <1>4, <2>3 DEF Unmarked
<1>9. ASSUME NEW d \in Clusters, d # c
      PROVE  (Ordered(d) => Ordered(d)') /\ (Unmarked(d) => Unmarked(d)')
  BY <1>4, <1>5, <1>7, <1>9, OrderKept
<1> QED
  BY <1>8, <1>9

\* The iterations of plan_known_jobs_update take away the marks of the last cycle.
LEMMA KnownJobOrder ==
  ASSUME ReliableServers, PriorityInv, NEW j \in Jobs, KnownJob(j)
  PROVE  PriorityKept'
<1> USE DEF PriorityInv, LinkInv, OnceInv
<1>1. /\ pc = "known" /\ pending' = pending \ {j} /\ cluster' = cluster
      /\ pc' = (IF pending' = {} THEN "running" ELSE "known")
  BY DEF KnownJob, loopVars
<1>2. \A p \in Jobs : Listed(p)' => p \in pending' \/ ~pj'[p].mark
  <2>1. CASE ~Known(j)
    <3>1. plan' = plan /\ pj' = pj
      BY <2>1 DEF KnownJob, planVars
    <3>2. ~Listed(j)
      BY <2>1 DEF Known, Hit, Listed
    <3> QED
      BY <3>1, <3>2, <1>1, SamePlan DEF PriorityKept
  <2>2. CASE Known(j)
    <3>1. PICK c \in Clusters : \E x \in DOMAIN plan[c] : FirstHit(j, c, x) /\ RelinkAt(j, c, x)
      BY <2>2 DEF KnownJob, Relink
    <3>2. PICK x \in DOMAIN plan[c] : FirstHit(j, c, x) /\ RelinkAt(j, c, x)
      BY <3>1
    <3>3. plan[c][x] \in Jobs /\ x \in 1 .. Len(plan[c])
      BY DEF TypeOK
    <3>4. plan[c][x] = j
      BY <3>2, <3>3 DEF FirstHit, Hit, ReliableServers
    <3>5. CASE info[j] = "C"
      <4>1. plan' = [plan EXCEPT ![c] = RemoveAt(@, x)] /\ pj' = [pj EXCEPT ![j] = Unallocated(j)]
        BY <3>2, <3>4, <3>5 DEF RelinkAt
      <4>2. (\A p \in Jobs : Listed(p)' => Listed(p)) /\ ~Listed(j)'
        BY <3>3, <3>4, <4>1, RemoveEffect
      <4>3. \A p \in Jobs : p # j => pj'[p] = pj[p]
        BY <4>1 DEF TypeOK
      <4> QED
        BY <4>2, <4>3, <1>1 DEF PriorityKept
    <3>6. CASE info[j] # "C"
      <4>1. /\ plan' = plan
            /\ pj' = [pj EXCEPT ![j] = [@ EXCEPT !.jinfo = j, !.ptr = "live",
                                                 !.st = info[j], !.mark = FALSE]]
        BY <3>2, <3>4, <3>6 DEF RelinkAt
      <4>2. \A p \in Jobs : Listed(p)' <=> Listed(p)
        BY <4>1, SamePlan
      <4>3. \A p \in Jobs : p # j => pj'[p] = pj[p]
        BY <4>1 DEF TypeOK
      <4>4. ~pj'[j].mark
        <5>1. pj[j] \in PlanJob
          BY DEF TypeOK
        <5>2. pj'[j] = [pj[j] EXCEPT !.jinfo = j, !.ptr = "live", !.st = info[j], !.mark = FALSE]
          BY <4>1 DEF TypeOK
        <5> QED
          BY <5>1, <5>2 DEF PlanJob
      <4> QED
        BY <4>2, <4>3, <4>4, <1>1 DEF PriorityKept
    <3> QED
      BY <3>5, <3>6
  <2> QED
    BY <2>1, <2>2
<1>3. cluster' = 1
  BY <1>1 DEF PriorityKept
<1>4. plan' \in [Clusters -> Seq(Jobs)]
  BY KnownJobType DEF TypeOK
<1>5. ASSUME pending' = {}, NEW c \in Clusters
      PROVE  Unmarked(c)'
  <2>1. \A x \in DOMAIN plan'[c] : plan'[c][x] \in Jobs
    BY <1>4
  <2> SUFFICES ASSUME NEW x \in DOMAIN plan'[c], NEW p \in Jobs, p = plan'[c][x]
               PROVE  ~pj'[p].mark
    BY <2>1 DEF Unmarked
  <2>2. Listed(p)'
    BY DEF Listed, Clusters
  <2> QED
    BY <1>2, <1>5, <2>2
<1> QED
  BY <1>1, <1>2, <1>3, <1>5 DEF PriorityKept, Clusters

\* update_sched in plan_run's loop and after a new job.
LEMMA UpdateOrder ==
  ASSUME PriorityInv, UpdateCluster \/ UpdateAfterNewJob
  PROVE  PriorityKept'
<1> USE DEF PriorityInv, LinkInv, OnceInv
<1>0. \A c \in Clusters : c \in Nat
  BY LimitsAssumption DEF Clusters
<1>1. CASE UpdateCluster
  <2>1. PICK failed \in BOOLEAN : /\ UpdateSched(cluster, failed)
                                  /\ cluster' = IF failed THEN cluster ELSE cluster + 1
    BY <1>1 DEF UpdateCluster
  <2>2. pc = "update" /\ pc' = "update" /\ cluster \in Clusters
    BY <1>1 DEF UpdateCluster
  <2>3. /\ Tidy(cluster)
        /\ \A c \in Clusters : /\ c < cluster => Ordered(c) /\ Unmarked(c)
                               /\ c > cluster => Unmarked(c)
    BY <2>2 DEF PriorityKept
  <2>a. PICK k \in Clusters : k = cluster
    BY <2>2
  <2>4. /\ Ordered(k)'
        /\ ~failed => Unmarked(k)'
        /\ \A d \in Clusters : d # k => /\ Ordered(d) => Ordered(d)'
                                        /\ Unmarked(d) => Unmarked(d)'
    BY <2>1, <2>3, <2>a, UpdateSchedOrder
  <2>5. \A d \in Clusters : /\ d < k => Ordered(d)' /\ Unmarked(d)'
                            /\ d > k => Unmarked(d)'
    BY <1>0, <2>3, <2>4, <2>a
  <2>6. \A d \in Clusters : (Ordered(d)' => Tidy(d)') /\ (Unmarked(d)' => Tidy(d)')
    BY DEF Ordered, Tidy, Unmarked
  <2>7. ASSUME NEW d \in Clusters
        PROVE  /\ d < cluster' => Ordered(d)' /\ Unmarked(d)'
               /\ d = cluster' => Tidy(d)'
               /\ d > cluster' => Unmarked(d)'
    <3>1. CASE failed
      <4>1. cluster' = k
        BY <2>1, <2>a, <3>1
      <4> QED
        BY <2>4, <2>5, <2>6, <4>1, Zenon
    <3>2. CASE ~failed
      <4>1. cluster' = k + 1
        BY <2>1, <2>a, <3>2
      <4>2. d < cluster' => d < k \/ d = k
        BY <1>0, <4>1
      <4>3. d = cluster' \/ d > cluster' => d > k
        BY <1>0, <4>1
      <4> QED
        BY <2>4, <2>5, <2>6, <3>2, <4>2, <4>3, Zenon
    <3> QED
      BY <3>1, <3>2
  <2>8. cluster' >= 1
    BY <1>0, <2>1, <2>2 DEF PriorityKept
  <2>9. \A c \in Clusters' : c \in Clusters
    BY DEF Clusters
  <2> QED
    BY <2>2, <2>7, <2>8, <2>9 DEF PriorityKept
<1>2. CASE UpdateAfterNewJob
  <2>1. PICK failed \in BOOLEAN :
          /\ UpdateSched(cluster, failed)
          /\ IF failed /\ pc = "newUpdate" THEN pc' = "newRetry" ELSE pc' = "new"
          /\ gaveUp' = (gaveUp \/ (failed /\ pc = "newRetry"))
    BY <1>2 DEF UpdateAfterNewJob
  <2>2. pc \in {"newUpdate", "newRetry"} /\ cluster \in Clusters /\ cluster' = cluster
    BY <1>2 DEF UpdateAfterNewJob, TypeOK
  <2>3. SUFFICES ASSUME ~gaveUp'
                 PROVE  PriorityKept'
    BY <2>1 DEF PriorityKept
  <2>4. ~gaveUp /\ ~(failed /\ pc = "newRetry")
    BY <2>1, <2>3, Zenon
  <2>5. Tidy(cluster) /\ \A c \in Clusters : c # cluster => Ordered(c) /\ Unmarked(c)
    BY <2>2, <2>4 DEF PriorityKept
  <2>a. PICK k \in Clusters : k = cluster
    BY <2>2
  <2>6. /\ Ordered(k)'
        /\ ~failed => Unmarked(k)'
        /\ \A d \in Clusters : d # k => /\ Ordered(d) => Ordered(d)'
                                        /\ Unmarked(d) => Unmarked(d)'
    BY <2>1, <2>5, <2>a, UpdateSchedOrder
  <2>7. Tidy(k)'
    BY <2>6 DEF Ordered, Tidy
  <2>8. \A d \in Clusters : d # k => Ordered(d)' /\ Unmarked(d)'
    BY <2>5, <2>6, <2>a
  <2>9. CASE failed
    <3>1. pc' = "newRetry"
      BY <2>1, <2>2, <2>4, <2>9
    <3> QED
      BY <2>2, <2>7, <2>8, <2>a, <3>1 DEF PriorityKept, Clusters
  <2>10. CASE ~failed
    <3>1. pc' = "new"
      BY <2>1, <2>10
    <3>2. \A d \in Clusters : Ordered(d)' /\ Unmarked(d)'
      BY <2>6, <2>8, <2>10
    <3> QED
      BY <3>1, <3>2 DEF PriorityKept, Clusters
  <2> QED
    BY <2>9, <2>10
<1> QED
  BY <1>1, <1>2

\* Every step keeps the order that update_sched makes.
LEMMA PriorityStep ==
  ASSUME ReliableServers, PriorityInv, [Next]_vars
  PROVE  PriorityInv'
<1> USE DEF PriorityInv
<1>0. LinkInv' /\ LinkInv /\ OnceInv /\ TypeOK /\ PlannedOnce /\ PlanLinked /\ NewJobsUnplanned
  BY LinkStep DEF LinkInv, OnceInv
<1>1. CASE \E j \in Jobs : KnownJob(j)
  BY <1>0, <1>1, KnownJobOrder
<1>2. CASE UpdateCluster \/ UpdateAfterNewJob
  BY <1>0, <1>2, UpdateOrder
<1>3. CASE FetchServers
  <2>1. /\ pc = "fetch" /\ plan' = plan /\ server' = server /\ pc' \in {"known", "update"}
        /\ info' = [j \in Jobs |-> server[j]]
        /\ pending' = {j \in Jobs : info'[j] # "none"}
        /\ (pc' = "update" => pending' = {}) /\ cluster' = cluster
    BY <1>3 DEF FetchServers, query_jobs, ReliableServers, loopVars
  <2>2. \A p \in Jobs : Listed(p) => p \in pending'
    BY <1>0, <2>1 DEF PlanLinked
  <2>3. cluster' = 1
    BY <2>1 DEF PriorityKept
  <2>4. CASE pc' = "known"
    BY <1>0, <2>1, <2>2, <2>3, <2>4, SamePlan DEF PriorityKept
  <2>5. CASE pc' = "update"
    <3>1. \A p \in Jobs : ~Listed(p)
      BY <2>1, <2>2, <2>5
    <3>2. \A c \in Clusters : DOMAIN plan[c] = {}
      BY <1>0, <3>1 DEF Listed, TypeOK
    <3>3. \A c \in Clusters : Unmarked(c)' /\ Tidy(c)' /\ Ordered(c)'
      BY <2>1, <3>2 DEF Unmarked, Tidy, Ordered
    <3> QED
      BY <1>0, <2>3, <2>5, <3>3 DEF PriorityKept, Clusters
  <2> QED
    BY <2>1, <2>4, <2>5
<1>4. CASE AddAlreadyRunning
  <2>1. pc = "running" /\ pc' = pc /\ cluster' = cluster
    BY <1>4 DEF AddAlreadyRunning
  <2>2. PICK j \in Jobs : j = newJobs[next]
    BY <1>0, <1>4 DEF AddAlreadyRunning, TypeOK
  <2>3. next \in DOMAIN newJobs
    BY <1>0, <1>4 DEF AddAlreadyRunning, TypeOK
  <2>4. ~Listed(j)
    BY <1>0, <2>1, <2>2, <2>3 DEF NewJobsUnplanned, ToBePlanned, TypeOK
  <2>5. ASSUME NEW c \in Clusters
        PROVE  Unmarked(c)'
    <3>1. Unmarked(c)
      BY <2>1 DEF PriorityKept
    <3>2. CASE UNCHANGED planVars
      BY <3>1, <3>2, OrderKept DEF planVars
    <3>3. CASE \E d \in Clusters, start \in {"now", "unset"} : Enlist(j, d, 1, start)
      <4>1. PICK d \in Clusters, start \in {"now", "unset"} : Enlist(j, d, 1, start)
        BY <3>3
      <4>2. 1 \in 1 .. Len(plan[d]) + 1
        BY <1>0 DEF TypeOK
      <4>3. /\ Unmarked(d) => Unmarked(d)'
            /\ \A b \in Clusters : b # d => (Unmarked(b) => Unmarked(b)')
        BY <1>0, <2>4, <4>1, <4>2, EnlistOrder
      <4> QED
        BY <3>1, <4>3
    <3> QED
      BY <1>4, <2>2, <3>2, <3>3 DEF AddAlreadyRunning
  <2> QED
    BY <1>0, <2>1, <2>5 DEF PriorityKept, Clusters
<1>5. CASE ScheduleNewJob
  <2>1. pc = "new" /\ gaveUp' = gaveUp
    BY <1>5 DEF ScheduleNewJob
  <2>2. PICK j \in Jobs : j = newJobs[next]
    BY <1>0, <1>5 DEF ScheduleNewJob, TypeOK
  <2>3. next \in DOMAIN newJobs
    BY <1>0, <1>5 DEF ScheduleNewJob, TypeOK
  <2>4. CASE next' = next + 1 /\ UNCHANGED <<pc, cluster, planVars>>
    <3>1. plan' = plan /\ pj' = pj /\ pc' = "new"
      BY <2>1, <2>4 DEF planVars
    <3>2. \A c \in Clusters : (Ordered(c) => Ordered(c)') /\ (Unmarked(c) => Unmarked(c)')
      BY <3>1, OrderKept
    <3> QED
      BY <1>0, <2>1, <3>1, <3>2 DEF PriorityKept, Clusters
  <2>5. ASSUME info[j] = "Q", NEW c \in Clusters, NEW x \in 1 .. Len(plan[c]) + 1, NEW start,
               Enlist(j, c, x, start), cluster' = c, pc' = "newUpdate"
        PROVE  PriorityKept'
    <3>1. ~Listed(j)
      <4>1. ToBePlanned(next)
        BY <2>1, <2>2, <2>5, <1>0 DEF ToBePlanned, TypeOK
      <4> QED
        BY <1>0, <2>2, <2>3, <4>1 DEF NewJobsUnplanned
    <3>2. /\ Unmarked(c) => Unmarked(c)'
          /\ \A d \in Clusters : d # c => /\ Ordered(d) => Ordered(d)'
                                          /\ Unmarked(d) => Unmarked(d)'
      BY <1>0, <2>5, <3>1, EnlistOrder
    <3>3. Unmarked(c)' => Tidy(c)'
      BY DEF Unmarked, Tidy
    <3>4. ~gaveUp => \A d \in Clusters : Ordered(d) /\ Unmarked(d)
      BY <2>1 DEF PriorityKept
    <3>5. ~gaveUp' => \A d \in Clusters : IF d = c THEN Tidy(d)' ELSE Ordered(d)' /\ Unmarked(d)'
      BY <2>1, <3>2, <3>3, <3>4
    <3> QED
      BY <2>5, <3>5 DEF PriorityKept, Clusters
  <2>6. PriorityKept'
    BY <1>5, <2>2, <2>4, <2>5 DEF ScheduleNewJob
  <2> QED
    BY <1>0, <2>6
<1>6. CASE AlreadyRunningDone \/ UpdatesDone \/ NewJobsDone
  <2>1. plan' = plan /\ pj' = pj /\ gaveUp' = gaveUp /\ dropped' = dropped
    BY <1>6 DEF AlreadyRunningDone, UpdatesDone, NewJobsDone, planVars
  <2>2. \A c \in Clusters : /\ Ordered(c) => Ordered(c)'
                            /\ Unmarked(c) => Unmarked(c)'
                            /\ Unmarked(c) => Tidy(c)'
    BY <2>1, OrderKept, TidyLists
  <2>3. CASE AlreadyRunningDone
    <3>1. pc = "running" /\ pc' = "update" /\ cluster' = 1
      BY <2>3 DEF AlreadyRunningDone, PriorityKept
    <3>2. \A c \in Clusters : Unmarked(c)' /\ Tidy(c)' /\ ~(c < 1)
      BY <2>2, <3>1 DEF PriorityKept, Clusters
    <3> QED
      BY <1>0, <3>1, <3>2 DEF PriorityKept, Clusters
  <2>4. CASE UpdatesDone
    <3>1. pc = "update" /\ pc' = "new" /\ cluster \notin Clusters /\ cluster \in Nat /\ cluster >= 1
      BY <1>0, <2>4 DEF UpdatesDone, TypeOK, PriorityKept
    <3>2. \A c \in Clusters : c < cluster
      BY <3>1, LimitsAssumption DEF Clusters
    <3>3. \A c \in Clusters : Ordered(c)' /\ Unmarked(c)'
      BY <2>2, <3>1, <3>2 DEF PriorityKept
    <3> QED
      BY <1>0, <3>1, <3>3 DEF PriorityKept, Clusters
  <2>5. CASE NewJobsDone
    <3>1. pc = "new" /\ pc' = "run"
      BY <2>5 DEF NewJobsDone
    <3>2. ~gaveUp' => \A c \in Clusters : Ordered(c)'
      BY <2>1, <2>2, <3>1 DEF PriorityKept
    <3> QED
      BY <1>0, <3>1, <3>2 DEF PriorityKept, Clusters
  <2> QED
    BY <1>6, <2>3, <2>4, <2>5
<1>7. CASE TryRunJob
  <2>1. pc' = "run" /\ (dropped' \/ current' = current + 1) /\ current \in Nat
    BY <1>0, <1>7 DEF TryRunJob, TypeOK
  <2>2. ~(current' = 0 /\ ~dropped')
    BY <2>1
  <2> QED
    BY <1>0, <2>1, <2>2 DEF PriorityKept
<1>8. CASE TryRunNextCluster
  <2>1. pc' = "run" /\ cluster' = cluster + 1 /\ cluster \in Clusters
    BY <1>8 DEF TryRunNextCluster
  <2>2. cluster' # 1
    BY <2>1, LimitsAssumption DEF Clusters
  <2> QED
    BY <1>0, <2>1, <2>2 DEF PriorityKept
<1>9. CASE TryRunDone
  BY <1>0, <1>9 DEF TryRunDone, PriorityKept
<1>10. CASE CleanupServers \/ Exception
  <2>1. pc' = "fetch" /\ cluster' = 1
    BY <1>10 DEF CleanupServers, Exception, CycleLocals
  <2> QED
    BY <1>0, <2>1 DEF PriorityKept
<1>11. CASE ServerNext \/ UNCHANGED vars
  <2>1. /\ plan' = plan /\ pj' = pj /\ cluster' = cluster /\ current' = current /\ pc' = pc
        /\ pending' = pending /\ gaveUp' = gaveUp /\ dropped' = dropped
    BY <1>11 DEF ServerNext, Submit, Requeue, Suspend, Start, Complete, ServerStep, Purge,
                 planVars, loopVars, vars
  <2>2. \A c \in Clusters : /\ Ordered(c) => Ordered(c)'
                            /\ Unmarked(c) => Unmarked(c)'
                            /\ Tidy(c) => Tidy(c)'
    BY <2>1, OrderKept
  <2>3. \A p \in Jobs : Listed(p)' => Listed(p)
    BY <2>1, SamePlan
  <2>4. PriorityKept'
    BY <2>1, <2>2, <2>3 DEF PriorityKept, Clusters
  <2> QED
    BY <1>0, <2>4
<1> QED
  BY <1>1, <1>2, <1>3, <1>4, <1>5, <1>6, <1>7, <1>8, <1>9, <1>10, <1>11 DEF Next, SchedulerStep

\* With reliable servers the queued priority jobs that may run stand in front
\* of their list when try_run_plan starts: update_sched restores the order in
\* every cycle, also when it fails and is repeated.
THEOREM PriorityFirstAlways == ASSUME ReliableServers PROVE Spec => []PriorityFirst
<1>1. Init /\ LinkInv => PriorityInv
  BY DEF Init, PriorityInv, PriorityKept
<1>2. PriorityInv /\ [Next]_vars => PriorityInv'
  BY PriorityStep
<1>3. PriorityInv => PriorityFirst
  BY DEF PriorityInv, PriorityKept, PriorityFirst, Ordered, Ready
<1> QED
  BY <1>1, <1>2, <1>3, LinkInductive, PTL DEF Spec
=============================================================================
