------------------------------ MODULE PlanSlots ------------------------------
(***************************************************************************)
(* Where the jobs of one cluster are planned: the first free slots of its  *)
(* CPUs (plan_first_free_slot.cpp), the choice of CPUs for a job           *)
(* (update_job in plan_operations.cpp), the list of gaps that the jobs     *)
(* leave (plan_gaps.cpp, plan_gaps_memory.cpp) and the gap that a new job  *)
(* gets.                                                                   *)
(*                                                                         *)
(* One update of the plan is Begin, then one step per job or, for a job    *)
(* that is not exclusive, one step per CPU, then Finish.  The limits of    *)
(* the cluster are in module PlanLimits: here they refuse any gaps and     *)
(* delay a start by any member of Delays.  free_to_run is left out: it     *)
(* decides run_me, which update_sched overwrites.  A job asks for the same *)
(* number of CPUs on each of its nodes.                                    *)
(***************************************************************************)
EXTENDS Integers, SequencesExt, FiniteSetsExt

CONSTANTS
  NumNodes,
  Cores,        \* Cores[n]: CPUs of a node
  Capacity,     \* Capacity[n][r]: memory and scratch of a node
  Jobs,
  Job,          \* Job[j]: [nodes, ppn, need, time, excl, prio]
  Allowed,      \* Allowed[j]: nodes whose walltime limits and gpus suit a job
  AvailBefore,  \* AvailBefore[n]: available_before, 0 when not set
  Delays,       \* Delays[j]: how much the limits may delay its start
  MinQueued,    \* conf.optim_minimal_queued
  Moved,        \* jobs that the optimization may pick
  Refusals,     \* how many gaps with room the limits may refuse
  NodeStates,   \* NodeStates[n]: its states, "free", "down" (offline, unusable) or "busy" (reserved, unknown)
  Running,      \* the jobs that run at first, each on the CPUs Held[j]
  Held,
  MaxTime,      \* the clock stops here
  Far           \* LONG_MAX, and the sentinel of find_earliest_node

Res == {"mem", "scratch"}
Nodes == 1 .. NumNodes
NumCpus == FoldFunctionOnSet(+, 0, Cores, Nodes)
Cpus == 1 .. NumCpus
CpusBefore(n) == FoldFunctionOnSet(+, 0, Cores, 1 .. (n - 1))
NodeOf == [c \in Cpus |-> CHOOSE n \in Nodes : CpusBefore(n) < c /\ c <= CpusBefore(n + 1)]
CpusOf(n) == {c \in Cpus : NodeOf[c] = n}
Usage(j) == Job[j].nodes * Job[j].ppn
Zero == [r \in Res |-> 0]

\* A plan_job just filled in; cut is history, see Restarted.
NoPlan == [start |-> -1, completion |-> -1, nodes |-> <<>>, fixed |-> <<>>, cpus |-> <<>>, cut |-> FALSE]

VARIABLES
  now,
  nodeState,
  st,      \* state of a job at the server: "Q" or "R", "C" when it is gone
  held,    \* the CPUs of a running job
  plan,    \* schedule->jobs: the jobs in the order of planning
  marked,  \* priority jobs that update_sched has moved and not passed yet
  job,     \* the plan_job: start, completion, nodes, fixed nodes and CPUs
  slots,   \* first_free_slots
  gaps,    \* schedule->gaps
  todo,    \* gaps_job, the gaps to be inserted, and where
  phase,   \* "fetch", "walk", "search", "place", "gaps", "again", "idle"
  pos,     \* position in plan
  found,   \* locals of update_job
  caller,  \* who called update_sched, how often, and whether it returned 0
  horizon  \* max_completion_time

vars == <<now, nodeState, st, held, plan, marked, job, slots, gaps, todo, phase, pos, found, caller, horizon>>

(***************************************************************************)
(* First free slots.                                                       *)
(***************************************************************************)
Later(a, b) == IF a < b THEN b ELSE a
OnCpu(c) == {j \in Jobs : st[j] = "R" /\ c \in held[j]}

\* When a running job ends; an overdue one is expected to end in a moment.
Ends(j) == Later(job[j].completion, now + 1)

\* Of a planned job.
PerCpu(j) == [r \in Res |-> Job[j].need[r] \div Job[j].ppn]

\* Of a running job: the scratch of one node is divided by all its CPUs.
PerRunningCpu(j) == [PerCpu(j) EXCEPT !["scratch"] = Job[j].need["scratch"] \div Usage(j)]

\* Time and use of a CPU; -1 on nodes that cannot run anything.
FirstFree(c) ==
  CASE nodeState[NodeOf[c]] # "free" -> [time |-> -1, used |-> Zero]
    [] OnCpu(c) = {} -> [time |-> now, used |-> Zero]
    [] OTHER -> LET j == CHOOSE i \in OnCpu(c) : TRUE
                IN  [time |-> Ends(j), used |-> PerRunningCpu(j)]

first_free_slots_initialize(raw) ==
  [c \in Cpus |->
    [time |-> raw[c].time, used |-> raw[c].used,
     avail |-> [r \in Res |-> Capacity[NodeOf[c]][r] -
                 MapThenSumSet(LAMBDA d : raw[d].used[r],
                               {d \in CpusOf(NodeOf[c]) : raw[c].time < raw[d].time})]]]

\* The CPUs of a node by the time they are free, seen from a planned job.
SlotClass(f, jb, c) ==
  CASE c \in ToSet(jb.cpus) -> 0
    [] f[c].time < jb.start -> 1
    [] f[c].time > jb.completion -> 4
    [] f[c].time = jb.completion -> 3
    [] OTHER -> 2

\* One node of first_free_slots_update.  Scratch stays available to class 2.
UpdateNode(f, j, jb, n) ==
  LET later == {c \in CpusOf(n) : SlotClass(f, jb, c) = 4}
      left == [r \in Res |-> Capacity[n][r] - MapThenSumSet(LAMBDA c : f[c].used[r], later)]
  IN  [c \in Cpus |->
        IF NodeOf[c] # n THEN f[c]
        ELSE CASE SlotClass(f, jb, c) \in {0, 3} -> [f[c] EXCEPT !.avail = left, !.used = PerCpu(j)]
               [] SlotClass(f, jb, c) = 2 -> [f[c] EXCEPT !.avail["mem"] = @ - Job[j].need["mem"]]
               [] OTHER -> f[c]]

first_free_slots_update(f, j, jb, nodes) ==
  FoldLeft(LAMBDA g, n : UpdateNode(g, j, jb, n),
           [c \in Cpus |-> IF c \in ToSet(jb.cpus) THEN [f[c] EXCEPT !.time = jb.completion] ELSE f[c]],
           nodes)

(***************************************************************************)
(* Gaps: [start, end, job, usage, nodes]; job is following_job or 0, nodes *)
(* a sequence of [node, cpus, avail].                                      *)
(***************************************************************************)
GapNode(list, c) ==
  LET known == {i \in DOMAIN list : list[i].node = NodeOf[c]}
  IN  IF known = {}
      THEN Append(list, [node |-> NodeOf[c], cpus |-> 1, avail |-> slots[c].avail])
      ELSE [list EXCEPT ![Min(known)] = [node |-> NodeOf[c], cpus |-> @.cpus + 1, avail |-> slots[c].avail]]

\* gap_fillin, gap_memory_create and gap_memory_create_last, from the CPUs
\* that are free before the end of the gap.
NewGap(start, end, j, free) ==
  [start |-> start, end |-> end, job |-> j, usage |-> Len(free),
   nodes |-> FoldLeft(GapNode, <<>>, free)]

\* The gaps in front of a job: between the times at which its CPUs get free.
GapsOfJob(j, cpus) ==
  LET time(i) == slots[cpus[i]].time
      steps == SetToSortSeq({i \in 2 .. Len(cpus) : time(i) # time(i - 1)}, <)
  IN  [k \in DOMAIN steps |->
        NewGap(time(steps[k] - 1), time(steps[k]), j,
               SelectSeq(cpus, LAMBDA c : slots[c].time < time(steps[k])))]


\* The gaps behind all jobs; only nodes that are down are left out.
gap_create_not_the_last(max) ==
  LET times == SetToSortSeq({slots[c].time : c \in Cpus} \ {-1}, <)
      End(k) == IF times[k + 1] > max THEN max ELSE times[k + 1]
      some == SelectSeq([k \in 1 .. (Len(times) - 1) |-> k], LAMBDA k : End(k) > times[k])
      Free(end) == SelectSeq([c \in Cpus |-> c],
                     LAMBDA c : slots[c].time < end /\ nodeState[NodeOf[c]] # "down")
  IN  [i \in DOMAIN some |-> NewGap(times[some[i]], End(some[i]), 0, Free(End(some[i])))]

gap_create_last(start) ==
  LET up == SelectSeq([n \in Nodes |-> n], LAMBDA n : nodeState[n] # "down")
  IN  [start |-> start, end |-> Far, job |-> 0,
       usage |-> Cardinality({c \in Cpus : nodeState[NodeOf[c]] = "free"}),
       nodes |-> [i \in DOMAIN up |->
                   [node |-> up[i], cpus |-> Cores[up[i]], avail |-> Capacity[up[i]]]]]

\* add_mem_gap_to_gap: CPUs are added, the memory of the target stays.
AddNode(list, x) ==
  LET known == {i \in DOMAIN list : list[i].node = x.node}
  IN  IF known = {} THEN Append(list, x) ELSE [list EXCEPT ![Min(known)].cpus = @ + x.cpus]

Merged(g, new) == [g EXCEPT !.usage = @ + new.usage, !.nodes = FoldLeft(AddNode, @, new.nodes)]

\* adjust_gap_memory: the jobs around the following job that start with it.
Neighbours(jb, p, k) ==
  LET same(i) == jb[p[i]].start = jb[p[k]].start
      first == Min({i \in 1 .. k : \A m \in i .. k : same(m)})
      last == Max({i \in k .. Len(p) : \A m \in k .. i : same(m)})
  IN  {p[i] : i \in first .. last}

Chunks(jb, j, n) == Cardinality({i \in DOMAIN jb[j].nodes : jb[j].nodes[i] = n})

MemoryFrom(x, jobs, jb) ==
  IF \A j \in jobs : Chunks(jb, j, x.node) = 0 THEN x
  ELSE [x EXCEPT !.avail = [Capacity[x.node] EXCEPT !["mem"] =
          @ - MapThenSumSet(LAMBDA j : Chunks(jb, j, x.node) * Job[j].need["mem"], jobs)]]

adjust_gap_memory(new, last, jb) ==
  IF last.job = 0 THEN new
  ELSE LET jobs == Neighbours(jb, plan, CHOOSE k \in DOMAIN plan : plan[k] = last.job)
       IN  [new EXCEPT !.nodes = [i \in DOMAIN @ |-> MemoryFrom(@[i], jobs, jb)]]

\* The first gap that ends after the start of the new one, as seen from the
\* end of the list; behind the list when there is none.
FirstOver(gs, new) ==
  Min({Len(gs) + 1} \union
      {i \in DOMAIN gs : \A k \in i .. Len(gs) : gs[k].end > new.start})

Inserted(gs) == [gs |-> gs, at |-> 0, rest |-> <<>>]

\* One turn of insert_new_gap at gap i of the list: the list, and what is
\* left of the new gap and where, at = 0 when nothing is.
insert_new_gap(gs, i, new, jb) ==
  LET g == gs[i]
      Before == SubSeq(gs, 1, i - 1)
      After == SubSeq(gs, i + 1, Len(gs))
  IN
  CASE i > Len(gs) ->
         Inserted(Append(gs, IF gs # <<>> /\ Last(gs).end = new.start
                             THEN adjust_gap_memory(new, Last(gs), jb) ELSE new))
    [] new.end <= g.start -> Inserted(InsertAt(gs, i, new))
    [] new.end > g.start /\ g.start > new.start ->
         [gs |-> InsertAt(gs, i, [new EXCEPT !.end = g.start]), at |-> i + 1,
          rest |-> <<[new EXCEPT !.start = g.start]>>]
    [] g.start < new.start ->
         [gs |-> Before \o <<[g EXCEPT !.end = new.start], [g EXCEPT !.start = new.start]>> \o After,
          at |-> i + 1, rest |-> <<new>>]
    [] g.end = new.end -> Inserted(Before \o <<Merged(g, new)>> \o After)
    [] new.end < g.end ->
         Inserted(Before \o <<Merged([g EXCEPT !.end = new.end], new), [g EXCEPT !.start = new.end]>>
                    \o After)
    [] OTHER ->
         [gs |-> [gs EXCEPT ![i] = Merged(g, new)], at |-> i + 1,
          rest |-> <<[adjust_gap_memory(new, g, jb) EXCEPT !.start = g.end]>>]

(***************************************************************************)
(* find_first_gap.  Division as in C.                                      *)
(***************************************************************************)
Div(a, b) == IF a >= 0 THEN a \div b ELSE -((-a) \div b)

\* How often a node of a gap can take the chunk of a job.
check_node_in_gap(g, n, j) ==
  LET here == {i \in DOMAIN g.nodes : g.nodes[i].node = n}
      x == g.nodes[Min(here)]
      some == {r \in Res : Job[j].need[r] > 0}
      times == Min({Div(x.cpus, Job[j].ppn)} \union {Div(x.avail[r], Job[j].need[r]) : r \in some})
  IN  IF here = {} THEN 0 ELSE IF Job[j].excl /\ times > 0 THEN 1 ELSE times


\* The node is worth a closer look.
Fits(g, x, j) ==
  /\ nodeState[x.node] # "down"
  /\ AvailBefore[x.node] # 0 => AvailBefore[x.node] >= g.start + Job[j].time
  /\ x.cpus >= Job[j].ppn
  /\ x.avail["mem"] >= Job[j].need["mem"]
  /\ x.avail["scratch"] > -1 => x.avail["scratch"] >= Job[j].need["scratch"]
  /\ x.node \in Allowed[j]

\* The gaps from k on that a job started in gap k needs; fewer when the list
\* ends before.
Span(j, k) ==
  LET enough == {i \in k .. Len(gaps) : gaps[i].end - gaps[k].start >= Job[j].time}
  IN  k .. (IF enough = {} THEN Len(gaps) ELSE Min(enough))

LongEnough(j, k) == gaps[Max(Span(j, k))].end - gaps[k].start >= Job[j].time

\* How often node n is free in all of the span; broken when a gap does not
\* follow on the one before it before the node is refused.
Times(j, k, n) == Min({check_node_in_gap(gaps[i], n, j) : i \in Span(j, k)})
Broken(j, k, n) ==
  \E i \in Span(j, k) \ {k} :
    /\ gaps[i].start # gaps[i - 1].end
    /\ \A h \in (k + 1) .. (i - 1) : check_node_in_gap(gaps[h], n, j) # 0

\* One node of gap k.
TryNode(s, x, j, k) ==
  CASE ~s.go \/ ~Fits(gaps[k], x, j) -> s
    [] Broken(j, k, x.node) -> [s EXCEPT !.go = FALSE]
    [] ~LongEnough(j, k) \/ (\E i \in Span(j, k) \ {k} : check_node_in_gap(gaps[i], x.node, j) = 0) -> s
    [] OTHER ->
         LET num == Min({Job[j].nodes, s.num + Times(j, k, x.node)})
         IN  [num |-> num, go |-> num < Job[j].nodes,
              fixed |-> s.fixed \o [i \in 1 .. (num - Len(s.fixed)) |-> x.node]]

\* The nodes that a job gets in gap k, in the order they are taken.
FixedIn(j, k) ==
  FoldLeft(LAMBDA s, x : TryNode(s, x, j, k), [num |-> 0, fixed |-> <<>>, go |-> TRUE], gaps[k].nodes)

\* Gaps in which the whole job has room.
Roomy(j) ==
  {k \in DOMAIN gaps : gaps[k].usage >= Usage(j) /\ FixedIn(j, k).num = Job[j].nodes}

(***************************************************************************)
(* update_job: the search for CPUs.                                        *)
(***************************************************************************)
\* Codes: -1 node down, -8 not available that long, -9 walltime limits or
\* gpus, -7 not a fixed node, -2 too few CPUs, -3 too little memory, -4 too
\* little free memory, 0 may be used.
Availability(j, c) ==
  LET n == NodeOf[c] IN
  CASE slots[c].time = -1 -> -1
    [] AvailBefore[n] # 0 /\ AvailBefore[n] < job[j].completion -> -8
    [] n \notin Allowed[j] -> -9
    [] ~Job[j].excl /\ job[j].fixed # <<>> /\ n \notin ToSet(job[j].fixed) -> -7
    [] Job[j].ppn > Cores[n] -> -2
    [] \E r \in Res : Job[j].need[r] > Capacity[n][r] -> -3
    [] \E r \in Res : Job[j].need[r] > slots[c].avail[r] -> -4
    [] OTHER -> 0

\* left: the fixed nodes not used yet; fixed nodes are forgotten when one is
\* missing.  chunk: the CPUs of the node under consideration.
NewSearch(j) ==
  [avail |-> [c \in Cpus |-> Availability(j, c)], node |-> 0, latest |-> 0, total |-> 0,
   attempt |-> 1, nodes |-> <<>>, latestNodes |-> <<>>, cpus |-> <<>>, chunk |-> <<>>,
   left |-> job[j].fixed, cut |-> FALSE]

NoSearch ==
  [avail |-> [c \in Cpus |-> 0], node |-> 0, latest |-> 0, total |-> 0, attempt |-> 0,
   nodes |-> <<>>, latestNodes |-> <<>>, cpus |-> <<>>, chunk |-> <<>>, left |-> <<>>, cut |-> FALSE]

\* Too little memory now, but not when the latest CPU is free.
Exempt(s, c) ==
  /\ s.avail[c] = -4
  /\ IF s.latest # 0
     THEN /\ NodeOf[c] = s.node
          /\ NodeOf[s.latest] = NodeOf[c]
          /\ slots[s.latest].time > slots[c].time
     ELSE s.total # 0 /\ slots[s.total].time > slots[c].time

Usable(s, c) ==
  \/ s.avail[c] = 0
  \/ Exempt(s, c)
  \/ s.avail[c] > 0 /\ s.avail[c] < s.attempt /\ NodeOf[c] = s.node

Sooner(c, d) == slots[c].time < slots[d].time \/ (slots[c].time = slots[d].time /\ c < d)

ith_smallest(s) == {c \in Cpus : Usable(s, c) /\ \A d \in Cpus : Usable(s, d) => ~Sooner(d, c)}

LatestOf(c, d) == IF c # 0 /\ slots[c].time > slots[d].time THEN c ELSE d

\* Mutant: the CPUs of the chunk that is given up are kept.
restart_keeps_cpus(s, j, c) ==
  IF s.node \in {0, NodeOf[c]} THEN [s EXCEPT !.avail[c] = s.attempt]
  ELSE [s EXCEPT !.attempt = @ + 1, !.avail[c] = s.attempt + 1, !.chunk = <<>>]

\* Another node: its chunk starts anew.  As many CPUs stay as the finished
\* chunks have: not theirs, when a CPU of the chunk was put before one of them.
Kept(s, j) == SubSeq(s.cpus, 1, Len(s.nodes) * Job[j].ppn)

Restarted(s, j, c) ==
  IF s.node \in {0, NodeOf[c]} THEN [s EXCEPT !.avail[c] = s.attempt]
  ELSE [s EXCEPT !.attempt = @ + 1, !.avail[c] = s.attempt + 1, !.chunk = <<>>, !.cpus = Kept(s, j),
                 !.cut = @ \/ ToSet(Kept(s, j)) \intersect ToSet(s.chunk) # {}]

\* The CPU is put where the times of the chosen CPUs stay in order.
InsertCpu(cpus, c) ==
  LET k == Max({0} \union {i \in DOMAIN cpus : slots[cpus[i]].time <= slots[c].time})
  IN  SubSeq(cpus, 1, k) \o <<c>> \o SubSeq(cpus, k + 1, Len(cpus))

Chosen(s, c) ==
  [s EXCEPT !.node = NodeOf[c], !.cpus = InsertCpu(@, c), !.chunk = Append(@, c),
            !.latest = LatestOf(@, c), !.total = LatestOf(@, c)]

\* The chunk is complete.  A fixed node that is used up is prohibited.
ChunkDone(s) ==
  LET left == IF s.node \in ToSet(s.left)
              THEN RemoveAt(s.left, Min({i \in DOMAIN s.left : s.left[i] = s.node})) ELSE s.left
      banned == s.node \in ToSet(s.left) /\ s.node \notin ToSet(left)
  IN  [s EXCEPT !.nodes = Append(@, s.node), !.latestNodes = Append(@, NodeOf[s.latest]),
                !.left = left, !.node = 0, !.latest = 0, !.chunk = <<>>,
                !.avail = [c \in Cpus |-> IF c \in ToSet(s.chunk) THEN -6
                                          ELSE IF banned /\ NodeOf[c] = s.node /\ @[c] # -6 THEN -7
                                          ELSE @[c]]]

AfterCpu(s, j) == IF Len(s.chunk) = Job[j].ppn THEN ChunkDone(s) ELSE s

\* find_earliest_node, for exclusive jobs: the slots in order.  The latest
\* slot of a node is compared when the next node begins or the slots end.
SkipSlot(j, c, avail, taken) ==
  \/ Cores[NodeOf[c]] < Job[j].ppn \/ nodeState[NodeOf[c]] = "down"
  \/ avail[c] \in {-3, -8, -9}
  \/ NodeOf[c] \in ToSet(taken)

Compare(s, n) ==
  IF s.latest <= s.earliest
  THEN [node |-> n, best |-> s.node, latest |-> 0, earliest |-> s.latest]
  ELSE [s EXCEPT !.node = n, !.latest = 0]

Seen(s, c) ==
  LET n == NodeOf[c]
      t == [s EXCEPT !.best = IF @ = 0 THEN n ELSE @, !.node = IF @ = 0 THEN n ELSE @]
  IN  IF t.node = n THEN [t EXCEPT !.latest = Later(@, slots[c].time)] ELSE t

find_earliest_node(j, avail, taken) ==
  LET Step(s, c) ==
        IF SkipSlot(j, c, avail, taken) THEN s
        ELSE LET t == Seen(s, c)
             IN  IF t.node # NodeOf[c] \/ c = NumCpus THEN Compare(t, NodeOf[c]) ELSE t
  IN  FoldLeft(Step, [node |-> 0, best |-> 0, latest |-> 0, earliest |-> Far], [c \in Cpus |-> c])

ExclusiveNodes(j, avail) ==
  FoldLeft(LAMBDA s, i : LET e == find_earliest_node(j, avail, s.nodes)
                         IN  [nodes |-> Append(s.nodes, e.best), start |-> e.earliest],
           [nodes |-> <<>>, start |-> Far], [i \in 1 .. Job[j].nodes |-> i])

(***************************************************************************)
(* update_sched.                                                           *)
(***************************************************************************)
NoGaps == [list |-> <<>>, at |-> 0]
WalkAt(p) == phase' = "walk" /\ pos' = p /\ found' = NoSearch

\* Priority jobs are moved to the front and marked.
Moves(j) == st[j] = "Q" /\ Job[j].prio /\ j \notin marked

Prioritised(p) == Reverse(SelectSeq(p, Moves)) \o SelectSeq(p, LAMBDA j : ~Moves(j))

Begin(p, who) ==
  /\ slots' = first_free_slots_initialize([c \in Cpus |-> FirstFree(c)])
  /\ gaps' = <<>> /\ todo' = NoGaps
  /\ plan' = Prioritised(p) /\ marked' = marked \union {j \in ToSet(p) : Moves(j)}
  /\ caller' = who
  /\ horizon' = now
  /\ WalkAt(1)

\* A job that runs, or the search for CPUs begins.
WalkJob ==
  /\ phase = "walk" /\ pos <= Len(plan)
  /\ LET j == plan[pos] IN
     IF st[j] = "R"
     THEN WalkAt(pos + 1) /\ horizon' = Later(horizon, job[j].completion)
     ELSE phase' = "search" /\ found' = NewSearch(j) /\ UNCHANGED <<pos, horizon>>
  /\ marked' = marked \ {plan[pos]}
  /\ UNCHANGED <<now, nodeState, st, held, plan, job, slots, gaps, todo, caller>>

\* Mutant: the job stays in the plan.
failed_keeps(j) ==
  /\ phase' = "again"
  /\ found' = NoSearch /\ pos' = 0
  /\ slots' = <<>> /\ horizon' = 0
  /\ UNCHANGED <<now, nodeState, st, held, plan, marked, job, gaps, todo, caller>>

\* No CPU is left: the job is removed and update_sched returns 2.  The cycle
\* repeats it as often as needed, the other callers once.
Failed(j) ==
  /\ phase' = IF caller.who # "cycle" /\ caller.tries = 2 THEN "idle" ELSE "again"
  /\ plan' = SelectSeq(plan, LAMBDA i : i # j)
  /\ job' = [job EXCEPT ![j] = NoPlan]
  /\ found' = NoSearch /\ pos' = 0
  /\ slots' = <<>> /\ horizon' = 0
  /\ UNCHANGED <<now, nodeState, st, held, marked, gaps, todo, caller>>

\* One turn of the loop over CPUs.
PickCpu ==
  /\ phase = "search" /\ ~Job[plan[pos]].excl
  /\ LET j == plan[pos] IN
     \/ /\ Len(found.nodes) < Job[j].nodes
        /\ \E c \in ith_smallest(found) :
             found' = AfterCpu(Chosen(Restarted(found, j, c), c), j)
        /\ UNCHANGED <<now, nodeState, st, held, plan, marked, job, slots, gaps, todo, phase, pos, caller, horizon>>
     \/ Len(found.nodes) < Job[j].nodes /\ ith_smallest(found) = {} /\ Failed(j)
     \/ /\ Len(found.nodes) = Job[j].nodes
        /\ phase' = "place"
        /\ UNCHANGED <<now, nodeState, st, held, plan, marked, job, slots, gaps, todo, pos, found, caller, horizon>>

\* Slots that are free after the start are set to it.
PickNodes ==
  /\ phase = "search" /\ Job[plan[pos]].excl
  /\ LET j == plan[pos] IN
     \E e \in {ExclusiveNodes(j, found.avail)} :
       \/ e.start = Far /\ Failed(j)
       \/ /\ e.start # Far
          /\ slots' = [c \in Cpus |-> IF NodeOf[c] \in ToSet(e.nodes) /\ e.start < slots[c].time
                                      THEN [slots[c] EXCEPT !.time = e.start] ELSE slots[c]]
          /\ found' = [found EXCEPT !.nodes = e.nodes, !.latestNodes = e.nodes, !.total = e.start]
          /\ phase' = "place"
          /\ UNCHANGED <<now, nodeState, st, held, plan, marked, job, gaps, todo, pos, caller, horizon>>

ChosenCpus(j) ==
  IF Job[j].excl
  THEN SetToSortSeq({c \in Cpus : NodeOf[c] \in ToSet(found.nodes)}, Sooner)
  ELSE found.cpus

\* Mutant: the job starts when the first of its CPUs is free.
start_of_first(j) == IF Job[j].excl THEN found.total ELSE slots[Head(found.cpus)].time

StartOf(j) == IF Job[j].excl THEN found.total ELSE slots[Last(found.cpus)].time

Placed(j, d) ==
  [start |-> StartOf(j) + d, completion |-> StartOf(j) + d + Job[j].time,
   nodes |-> found.nodes, cpus |-> ChosenCpus(j), cut |-> found.cut,
   fixed |-> IF ~Job[j].excl /\ job[j].fixed = <<>> THEN found.nodes ELSE job[j].fixed]

\* The rest of update_job: limits, gaps, slots.
Place ==
  /\ phase = "place"
  /\ LET j == plan[pos] IN
     \E d \in Delays[j] : \E jb \in {Placed(j, d)} :
       /\ job' = [job EXCEPT ![j] = jb]
       /\ todo' = [list |-> GapsOfJob(j, jb.cpus), at |-> 0]
       /\ slots' = first_free_slots_update(slots, j, jb, found.latestNodes)
       /\ horizon' = Later(horizon, jb.completion)
  /\ phase' = "gaps" /\ found' = NoSearch
  /\ UNCHANGED <<now, nodeState, st, held, plan, marked, gaps, pos, caller>>

\* The gaps behind all jobs.
LastGaps ==
  /\ phase = "walk" /\ pos > Len(plan)
  /\ todo' = [list |-> IF plan = <<>> THEN <<>> ELSE gap_create_not_the_last(horizon), at |-> 0]
  /\ phase' = "gaps"
  /\ UNCHANGED <<now, nodeState, st, held, plan, marked, job, slots, gaps, pos, found, caller, horizon>>

\* update_sched inserts the first of gaps_job, turn by turn.
InsertGap ==
  /\ phase = "gaps" /\ todo.list # <<>>
  /\ \E w \in {insert_new_gap(gaps, IF todo.at = 0 THEN FirstOver(gaps, Head(todo.list)) ELSE todo.at,
                              Head(todo.list), job)} :
       /\ gaps' = w.gs
       /\ todo' = [list |-> w.rest \o Tail(todo.list), at |-> w.at]
  /\ UNCHANGED <<now, nodeState, st, held, plan, marked, job, slots, phase, pos, found, caller, horizon>>

\* The next job.
NextJob ==
  /\ phase = "gaps" /\ todo.list = <<>> /\ pos <= Len(plan)
  /\ WalkAt(pos + 1)
  /\ UNCHANGED <<now, nodeState, st, held, plan, marked, job, slots, gaps, todo, caller, horizon>>

Finish ==
  /\ phase = "gaps" /\ todo.list = <<>> /\ pos > Len(plan)
  /\ gaps' = Append(gaps, gap_create_last(horizon))
  /\ phase' = "idle" /\ pos' = 0 /\ slots' = <<>> /\ horizon' = 0
  /\ caller' = [caller EXCEPT !.ok = TRUE]
  /\ UNCHANGED <<now, nodeState, st, held, plan, marked, job, todo, found>>

Repeat ==
  /\ phase = "again"
  /\ Begin(plan, [caller EXCEPT !.tries = 2])
  /\ UNCHANGED <<now, nodeState, st, held, job>>

TheCycle == [who |-> "cycle", job |-> 0, tries |-> 1, pred |-> 0, ok |-> FALSE]

Cycle ==
  /\ phase = "fetch"
  /\ Begin(plan, TheCycle)
  /\ UNCHANGED <<now, nodeState, st, held, job>>

\* The gaps with room that the limits may let pass.
Candidates(j) ==
  {k \in Roomy(j) : Cardinality({i \in Roomy(j) : i < k}) \in Refusals}

InsertBefore(p, i, j) ==
  LET k == IF i = 0 THEN Len(p) + 1 ELSE CHOOSE k \in DOMAIN p : p[k] = i
  IN  InsertAt(p, k, j)

\* try_to_schedule_new_jobs: a gap for a job that is not in the plan.
NewJob(j) ==
  /\ phase = "idle" /\ caller.who # "take" /\ st[j] = "Q" /\ j \notin ToSet(plan)
  /\ \E k \in Candidates(j) :
       /\ job' = [job EXCEPT ![j] = [NoPlan EXCEPT !.start = gaps[k].start,
                    !.completion = gaps[k].start + Job[j].time, !.fixed = FixedIn(j, k).fixed]]
       /\ Begin(InsertBefore(plan, gaps[k].job, j), [who |-> "new", job |-> j, tries |-> 1, pred |-> 0, ok |-> FALSE])
  /\ UNCHANGED <<now, nodeState, st, held>>

\* random_job_to_random_position: a job is taken out of the plan, which is
\* updated, and put behind another job; a repetition of what it was behind is
\* not accepted.  Module PlanOptimization says what becomes of the result.
TakeOut(j) ==
  /\ phase = "idle" /\ caller.ok /\ caller.who # "take"
  /\ j \in Moved /\ j \in ToSet(plan) /\ st[j] = "Q"
  /\ Cardinality({i \in ToSet(plan) : st[i] = "Q"}) >= MinQueued
  /\ LET k == CHOOSE i \in DOMAIN plan : plan[i] = j IN
     Begin(RemoveAt(plan, k), [who |-> "take", job |-> j, tries |-> 1,
                               pred |-> IF k = 1 THEN 0 ELSE plan[k - 1], ok |-> FALSE])
  /\ job' = [job EXCEPT ![j].fixed = <<>>]
  /\ UNCHANGED <<now, nodeState, st, held>>

PutBack ==
  /\ phase = "idle" /\ caller.who = "take"
  /\ \E i \in (IF Len(plan) < MinQueued - 1 THEN {0} ELSE ToSet(plan)) \ {caller.pred} :
       LET k == IF i = 0 THEN 0 ELSE CHOOSE m \in DOMAIN plan : plan[m] = i IN
       Begin(InsertAt(plan, k + 1, caller.job), [caller EXCEPT !.who = "put", !.tries = 1, !.ok = FALSE])
  /\ UNCHANGED <<now, nodeState, st, held, job>>

(***************************************************************************)
(* What happens between cycles: a planned job is started, a running job    *)
(* ends, time passes, nodes change.                                        *)
(***************************************************************************)
Between == phase \in {"idle", "fetch"} /\ caller.who # "take"

Free == Cpus \ UNION {held[j] : j \in {i \in Jobs : st[i] = "R"}}
Lowest(S, k) == {c \in S : Cardinality({d \in S : d <= c}) <= k}

\* The CPUs on which the server starts a planned job.
StartCpus(j) ==
  UNION {IF Job[j].excl THEN CpusOf(n)
         ELSE Lowest(Free \intersect CpusOf(n), Chunks(job, j, n) * Job[j].ppn) : n \in ToSet(job[j].nodes)}

CanStart(j) ==
  /\ st[j] = "Q" /\ j \in ToSet(plan) /\ job[j].start <= now
  /\ \A n \in ToSet(job[j].nodes) : nodeState[n] = "free"
  /\ StartCpus(j) \subseteq Free /\ Cardinality(StartCpus(j)) >= Usage(j)

Refetch == phase' = "fetch" /\ gaps' = <<>> /\ caller' = TheCycle /\ marked' = {}

ServerStarts(j) ==
  /\ phase = "idle" /\ Between /\ CanStart(j)
  /\ st' = [st EXCEPT ![j] = "R"]
  /\ held' = [held EXCEPT ![j] = StartCpus(j)]
  /\ job' = [job EXCEPT ![j].start = now, ![j].completion = now + Job[j].time]
  /\ Refetch
  /\ UNCHANGED <<now, nodeState, plan, slots, todo, pos, found, horizon>>

ServerEnds(j) ==
  /\ Between /\ st[j] = "R"
  /\ st' = [st EXCEPT ![j] = "C"]
  /\ held' = [held EXCEPT ![j] = {}]
  /\ plan' = SelectSeq(plan, LAMBDA i : i # j)
  /\ job' = [job EXCEPT ![j] = NoPlan]
  /\ Refetch
  /\ UNCHANGED <<now, nodeState, slots, todo, pos, found, horizon>>

Tick ==
  /\ Between
  /\ now' \in (now + 1) .. MaxTime
  /\ Refetch
  /\ UNCHANGED <<nodeState, st, held, plan, job, slots, todo, pos, found, horizon>>

NodeChanges ==
  /\ Between
  /\ \E n \in Nodes : \E s \in NodeStates[n] \ {nodeState[n]} : nodeState' = [nodeState EXCEPT ![n] = s]
  /\ Refetch
  /\ UNCHANGED <<now, st, held, plan, job, slots, todo, pos, found, horizon>>

Init ==
  /\ now = 0
  /\ nodeState = [n \in Nodes |-> "free"]
  /\ st = [j \in Jobs |-> IF j \in ToSet(Running) THEN "R" ELSE "Q"]
  /\ held = Held
  /\ plan = Running /\ marked = {}
  /\ job = [j \in Jobs |-> IF j \in ToSet(Running) THEN [NoPlan EXCEPT !.start = 0, !.completion = Job[j].time]
                           ELSE NoPlan]
  /\ slots = <<>> /\ gaps = <<>> /\ todo = NoGaps
  /\ phase = "fetch" /\ pos = 0 /\ found = NoSearch /\ horizon = 0
  /\ caller = TheCycle

Update ==
  \/ WalkJob \/ PickCpu \/ PickNodes \/ Place
  \/ LastGaps \/ InsertGap \/ NextJob \/ Finish
  \/ Repeat \/ Cycle

Next ==
  \/ Update
  \/ \E j \in Jobs : NewJob(j) \/ TakeOut(j) \/ ServerStarts(j) \/ ServerEnds(j)
  \/ PutBack \/ Tick \/ NodeChanges

Spec == Init /\ [][Next]_vars /\ WF_vars(Update)

(***************************************************************************)
(* Properties.                                                             *)
(***************************************************************************)
Planned == {j \in ToSet(plan) : st[j] = "Q"}

TypeOK ==
  /\ now \in 0 .. MaxTime
  /\ nodeState \in [Nodes -> {"free", "down", "busy"}]
  /\ st \in [Jobs -> {"Q", "R", "C"}]
  /\ \A j \in Jobs : held[j] \subseteq Cpus
  /\ ToSet(plan) \subseteq Jobs /\ IsInjective(plan)
  /\ \A j \in Jobs : ToSet(job[j].cpus) \subseteq Cpus /\ ToSet(job[j].nodes) \subseteq Nodes
  /\ todo.at \in 0 .. Len(gaps) + 1
  /\ phase \in {"fetch", "walk", "search", "place", "gaps", "again", "idle"}

\* The last update went through all jobs.
Updated == phase = "idle" /\ caller.ok

\* find_earliest_node gives an exclusive job the node that is free first,
\* counting its latest CPU: no job runs on the node when it starts.
ExclusiveWaits ==
  Updated =>
    \A j \in Planned : Job[j].excl =>
      \A c \in ToSet(job[j].cpus) : \A i \in OnCpu(c) : Ends(i) <= job[j].start

\* Two planned jobs share a CPU only one after the other, and a CPU of a
\* running job is planned only from its end on: what first_free_slots and
\* update_job are for.  Plans with an exclusive job that does not wait are
\* excepted, see ExclusiveWaits.
CpuOnce ==
  Updated /\ ExclusiveWaits =>
    \A c \in Cpus, j \in Planned : c \in ToSet(job[j].cpus) =>
      /\ \A i \in Planned \ {j} : c \in ToSet(job[i].cpus) =>
           job[i].completion <= job[j].start \/ job[j].completion <= job[i].start
      /\ \A i \in OnCpu(c) : Ends(i) <= job[j].start

\* The CPUs of a planned job are those of the nodes it is planned on, with
\* ppn different CPUs for each time the node is listed, although chunks are given up
\* and CPUs inserted out of order on the way.  A job that lost a CPU of a
\* finished chunk (cut) is excepted: it has a CPU of the node given up instead.
CpusMatchNodes ==
  Updated =>
    \A j \in Planned : ~Job[j].excl /\ ~job[j].cut =>
      /\ IsInjective(job[j].cpus)
      /\ \A n \in Nodes :
           Cardinality({c \in ToSet(job[j].cpus) : NodeOf[c] = n}) = Chunks(job, j, n) * Job[j].ppn

\* CPUs of node n that are not free at time t.  An overdue job has none.
BusyAt(n, t) ==
  {c \in CpusOf(n) :
    \/ \E i \in OnCpu(c) : job[i].completion > t
    \/ \E j \in Planned : c \in ToSet(job[j].cpus) /\ job[j].start <= t /\ t < job[j].completion}



\* An update comes to an end, however often a job cannot be planned.
UpdateEnds == phase \notin {"idle", "fetch"} ~> phase = "idle"
=============================================================================
