------------------------------ MODULE NodeSpec ------------------------------
(***************************************************************************)
(* Which nodes a job gets: the tests of a node against a job and against a *)
(* part of its node specification (NodeInfo.cpp, logic/NodeLogic.cpp,      *)
(* base/Resource.cpp, base/DynamicResource.cpp), the preassignment of      *)
(* nodes to the parts (nodespec.cpp, logic/JobAssign.cpp), what a started  *)
(* job takes from them and its fairshare cost (JobInfo.cpp).               *)
(*                                                                         *)
(* A node is a number, in the order of the names.  What is fetched about   *)
(* it is info[n], what the cycle has taken from it use[n], and the job     *)
(* preassigned to it asg[n].  Virtual slave nodes are never created (the   *)
(* call of expand_virtual_nodes is commented out in query_server), so a    *)
(* node is its own physical node.  Costs are per core.                     *)
(***************************************************************************)
EXTENDS Integers, SequencesExt, FiniteSetsExt

CONSTANTS
  NumNodes,
  Jobs,
  Job,         \* Job[j]: what the servers report about a job
  Queue,       \* Queue[q]: what the servers report about a queue
  Account,     \* site_user_has_account: the users with an account on a node
  CloudUsers,  \* the virtual clusters in pbs_cache and who may use them
  Places,      \* the values registered for every placement property
  NameOk,      \* the placement properties known to the property registry
  MaxInstalling, \* max_installing_nodes of the server
  Now

Nodes == 1 .. NumNodes
Infinity == -2   \* RESC_INFINITY: no limit

VARIABLES
  info,   \* what was fetched about the nodes
  use,    \* what is used of a node: its cores, its resources, p_is_notusable
  asg,    \* the JobAssign part of a node
  dyn     \* dynamic_resources of the server

(***************************************************************************)
(* Results of checks.                                                      *)
(***************************************************************************)
Worst(results) ==
  CASE "NonFit" \in results -> "NonFit"
    [] "Occupied" \in results -> "Occupied"
    [] OTHER -> "Available"

IsAdmin(j) == Queue[Job[j].queue].admin

(***************************************************************************)
(* plan_jobs.cpp: the node specification of a planned job, which replaces  *)
(* the one it was submitted with.  Consecutive equal nodes become one      *)
(* part; requests to lack a property are removed.                          *)
(***************************************************************************)
PlannedPart(j, n, times) ==
  LET chunk == Job[j].parts[1]
  IN  [chunk EXCEPT !.count = 1, !.procs = times * @, !.mem = times * @,
                    !.props = {p \in @ : ~p.neg} \union {[name |-> "host", value |-> n, neg |-> FALSE]}]

\* ninfo_arr without the repetitions.
PlannedNodes(j) == ToSet(Job[j].plan)

\* Mutant: every planned node is a part with the chunk as requested once.
nodespec_without_times(j) ==
  [i \in 1 .. Cardinality(PlannedNodes(j)) |-> PlannedPart(j, Job[j].plan[i], 1)]

job_create_nodespec(j) ==
  LET Join(runs, n) ==
        IF runs # <<>> /\ Last(runs)[1] = n
        THEN [runs EXCEPT ![Len(runs)] = <<n, @[2] + 1>>]
        ELSE Append(runs, <<n, 1>>)
      runs == FoldLeft(Join, <<>>, Job[j].plan)
  IN  [i \in DOMAIN runs |-> PlannedPart(j, runs[i][1], runs[i][2])]

\* How many chunks, and how many cores, of a job are planned on a node.
Chunks(j, n) == Cardinality({i \in DOMAIN Job[j].plan : Job[j].plan[i] = n})
PlannedCores(j, n, nodes) ==
  IF Job[j].excl /\ Chunks(j, n) > 0 THEN nodes[n].cores ELSE Chunks(j, n) * Job[j].parts[1].procs

\* Does the new specification have more than one node?
IsMultinode(j) == Len(job_create_nodespec(j)) > 1

NoWalltime == -1   \* the job has no walltime resource
get_walltime(j) == IF Job[j].walltime = NoWalltime THEN 0 ELSE Job[j].walltime

(***************************************************************************)
(* Resources.  A static resource has a capacity max, a dynamic one only    *)
(* the amount avail (then max is -1); assigned is -1 when not reported.    *)
(***************************************************************************)
check_numeric_fit(r, assigned, amount) ==
  CASE r.max >= 0 /\ r.max < amount -> "NonFit"
    [] (IF r.max < 0 THEN r.avail ELSE r.max) - assigned >= amount -> "Available"
    [] OTHER -> "Occupied"

Resc(n) == DOMAIN info[n].resc

ResourceFit(n, name, amount) ==
  IF name \in Resc(n)
  THEN check_numeric_fit(info[n].resc[name], use[n].resc[name], amount)
  ELSE "NonFit"

Excess(d) == IF d.reported >= 0 /\ d.scheduled > d.reported THEN d.scheduled - d.reported ELSE 0

\* Mutant: what was scheduled but is not reported yet is forgotten.
would_fit_reported(d, amount) == d.avail - d.assigned >= amount

would_fit(d, amount) == d.avail - d.assigned - Excess(d) >= amount

(***************************************************************************)
(* NodeLogic: processors, memory, scratch and other resources of a node.   *)
(***************************************************************************)
has_proc(j, n, part) ==
  LET left == info[n].free - use[n].core
      needed == IF Job[j].excl THEN info[n].cores ELSE part.procs
  IN  IF IsAdmin(j) THEN info[n].adminSlot
      ELSE CASE info[n].cores < part.procs -> "NonFit"
             [] info[n].exclusive \/ left = 0 -> "Occupied"
             [] Job[j].excl /\ left # needed -> "Occupied"
             [] left < needed -> "Occupied"
             [] OTHER -> "Available"

has_mem(j, n, part) ==
  IF IsAdmin(j) \/ ("mem" \notin Resc(n) /\ part.mem = 0) THEN "Available"
  ELSE ResourceFit(n, "mem", part.mem)

SharedFit(n, amount) ==
  CASE info[n].pool \notin DOMAIN dyn -> "NonFit"
    [] would_fit(dyn[info[n].pool], amount) -> "Available"
    [] OTHER -> "Occupied"

ScratchFit(n, kind, amount) ==
  CASE kind = "ssd" -> ResourceFit(n, "scratch_ssd", amount)
    [] kind = "shared" -> SharedFit(n, amount)
    [] kind = "local" -> ResourceFit(n, "scratch_local", amount)

\* The cases of the switch have no break: the first priority is tried, then
\* the kinds listed after it, then the default returns CheckNonFit.
FallThrough(kind) ==
  CASE kind = "ssd" -> <<"ssd", "shared", "local">>
    [] kind = "shared" -> <<"shared", "local">>
    [] kind = "local" -> <<"local">>

\* The result of has_scratch and the kind of scratch it selects, given how
\* every kind fits.
FirstScratch(tried) ==
  IF tried = <<>> THEN [result |-> "NonFit", kind |-> "none"]
  ELSE [result |-> "Available", kind |-> tried[1]]

SelectScratch(fit, stype, kinds) ==
  IF \/ stype # "any" /\ fit[stype] = "NonFit"
     \/ \A k \in DOMAIN fit : fit[k] = "NonFit"
  THEN FirstScratch(<<>>)
  ELSE FirstScratch(SelectSeq(kinds, LAMBDA k : stype \in {"any", k} /\ fit[k] = "Available"))

has_scratch(j, n, part) ==
  IF IsAdmin(j) \/ part.stype = "none" THEN [result |-> "Available", kind |-> "none"]
  ELSE SelectScratch([k \in {"ssd", "shared", "local"} |-> ScratchFit(n, k, part.scratch)],
                     part.stype, FallThrough(info[n].priority[1]))

\* A resource in the properties of a part: dynamic and unchecked ones pass.
has_resc(n, name, amount) ==
  CASE name \in DOMAIN dyn \/ name \in {"host", "scratch"} -> "Available"
    [] name = "minspec" -> IF info[n].spec >= amount THEN "Available" ELSE "NonFit"
    [] name = "maxspec" -> IF info[n].spec <= amount THEN "Available" ELSE "NonFit"
    [] OTHER -> ResourceFit(n, name, amount)

(***************************************************************************)
(* node_info: properties, state and the whole test of a node.  A property  *)
(* is [name, value, neg]: a property proper has value 0 and may be         *)
(* negated, a resource or host has the value asked for.                    *)
(***************************************************************************)
has_prop(n, prop, physicalOnly) ==
  LET found == prop.name \in info[n].phys \union (IF physicalOnly THEN {} ELSE info[n].virt)
  IN  IF prop.value = 0
      THEN IF found # prop.neg THEN "Available" ELSE "NonFit"
      ELSE IF prop.name = "host" /\ prop.value = n
           THEN IF prop.neg THEN "NonFit" ELSE "Available"
           ELSE has_resc(n, prop.name, prop.value)

has_props_run(n, part) == Worst({has_prop(n, p, FALSE) : p \in part.props})

has_props_boot(n, part, alternative) ==
  Worst({IF p.name \in alternative THEN "Available" ELSE has_prop(n, p, TRUE) : p \in part.props})

has_spec(j, n, part) ==
  Worst({has_proc(j, n, part), has_mem(j, n, part), has_scratch(j, n, part).result})

Outside(n) ==
  \/ info[n].after # 0 /\ Now < info[n].after
  \/ info[n].before # 0 /\ Now > info[n].before

Hosted(h) == {m \in Nodes : info[m].host = h}

has_bootable_state(n, mode) ==
  LET h == info[n].host IN
  CASE info[n].type # "virtual" \/ info[n].alternatives = <<>> \/ h = 0 -> "NonFit"
    [] info[h].type # "cloud" \/ Outside(n) -> "NonFit"
    [] info[n].magrathea \notin {"none", "booting", "free-bootable", "down-bootable", "running-cluster"}
         -> "NonFit"
    [] info[n].magrathea \notin {"free-bootable", "down-bootable"} -> "Occupied"
    [] info[n].magrathea = "free-bootable" /\ info[n].state # "free" -> "Occupied"
    [] mode = "none" /\ ~info[n].rebootable -> "NonFit"
    [] info[h].state = "down" \/ (\E m \in {h} \union Hosted(h) : info[m].jobs) -> "Occupied"
    [] OTHER -> "Available"

has_runnable_state(n) ==
  CASE info[n].type \in {"timeshared", "cloud"} \/ Outside(n) -> "NonFit"
    [] info[n].type = "virtual" /\ info[n].magrathea \in {"down", "down-bootable"} -> "NonFit"
    [] info[n].type = "virtual" /\ info[n].magrathea \in {"none", "occupied"} -> "Occupied"
    [] info[n].state = "down" -> "Occupied"
    [] OTHER -> "Available"

\* What can_boot_job and can_run_job refuse before they differ.
Excluded(j, n) ==
  \/ use[n].notusable
  \/ Job[j].place # "" /\ info[n].place = 0
  \/ info[n].before # 0 /\ info[n].before - get_walltime(j) <= Now
  \/ info[n].nomultinode /\ IsMultinode(j)

\* Nodes on which a virtual cluster is being built.
IsBuildingCluster(n) ==
  \/ info[n].cluster = "internal"
  \/ info[n].cluster # "" /\ info[n].magrathea # "running-cluster"

Installing == Cardinality({n \in Nodes : IsBuildingCluster(n)})

installing_nodes_overlimit == MaxInstalling # Infinity /\ Installing >= MaxInstalling

can_boot_job(j, n) ==
  LET state == has_bootable_state(n, Job[j].mode) IN
  CASE Excluded(j, n) \/ state = "NonFit" \/ Job[j].mode = "use" -> "NonFit"
    [] Job[j].account \notin Account[n] -> "NonFit"
    [] installing_nodes_overlimit \/ info[n].cluster # "" -> "Occupied"
    [] OTHER -> state

\* A job with a cluster name never gets inside it: the name is asked to be
\* empty before it is compared.
can_run_job(j, n) ==
  LET state == has_runnable_state(n) IN
  CASE Excluded(j, n) \/ state = "NonFit" \/ Job[j].mode = "create" -> "NonFit"
    [] info[n].type = "cluster" /\ Job[j].mode # "none" -> "NonFit"
    [] Job[j].mode = "use" ->
         IF Job[j].cluster = "" /\ info[n].cluster # "" /\ info[n].cluster = Job[j].cluster
         THEN state ELSE "NonFit"
    [] Job[j].account \notin Account[n] -> "NonFit"
    [] info[n].cluster # "" -> "Occupied"
    [] OTHER -> state

can_fit_job_for_run(j, n, part) ==
  Worst({can_run_job(j, n), has_spec(j, n, part), has_props_run(n, part)})

\* The alternatives are tried in turn until one is available; the result of
\* the last one tried counts.
BootAlternative(n, part) ==
  LET alts == info[n].alternatives
      ok == {i \in DOMAIN alts : has_props_boot(n, part, alts[i]) = "Available"}
  IN  IF ok = {} THEN 0 ELSE Min(ok)

can_fit_job_for_boot(j, n, part) ==
  LET alts == info[n].alternatives
      last == IF BootAlternative(n, part) # 0 THEN "Available"
              ELSE IF alts = <<>> THEN "NonFit" ELSE has_props_boot(n, part, Last(alts))
  IN  Worst({can_boot_job(j, n), has_spec(j, n, part), last})

Suits(j, run, boot) ==
  \/ Job[j].mode # "create" /\ run # "NonFit"
  \/ Job[j].mode # "use" /\ boot # "NonFit"

NodeSuitableForJob(j, n) == Suits(j, can_run_job(j, n), can_boot_job(j, n))

NodeSuitableForSpec(j, n, part) ==
  Suits(j, can_fit_job_for_run(j, n, part), can_fit_job_for_boot(j, n, part))

(***************************************************************************)
(* JobAssign and the preassignment of nodes.                               *)
(***************************************************************************)
clean_assign == [spec |-> <<>>, scratch |-> "none", alt |-> 0, flag |-> FALSE]

\* Mutant: the fairshare flag survives.
preassign_clean_keeps_flag(a, nodes) ==
  [n \in Nodes |-> IF n \in nodes THEN [clean_assign EXCEPT !.flag = a[n].flag] ELSE a[n]]

nodes_preassign_clean(a, nodes) == [n \in Nodes |-> IF n \in nodes THEN clean_assign ELSE a[n]]

\* Any other status is unknown.
MagratheaStates ==
  {"removed", "down", "down-bootable", "booting", "free", "free-bootable", "occupied-would-preempt",
   "occupied", "running-preemptible", "running-priority", "running", "running-cluster", "preempted",
   "frozen", "down-disappeared", "shutting-down"}

magrathea_decode(status) == IF status \in MagratheaStates THEN status ELSE "none"

\* A status that contradicts the jobs on the node or its host is dropped.
process_magrathea_status(nodes, n, status) ==
  IF \/ status \in {"down-bootable", "free"} /\ nodes[n].jobs
     \/ status = "down-bootable" /\ nodes[n].host # 0 /\ nodes[nodes[n].host].jobs
  THEN "none" ELSE magrathea_decode(status)

MagratheaValue(n) ==
  CASE info[n].type # "virtual" -> -1
    [] info[n].magrathea = "running-cluster" -> 0
    [] info[n].magrathea = "running" -> 1
    [] info[n].magrathea = "down-bootable" -> 2
    [] info[n].magrathea = "free-bootable" -> 3
    [] info[n].magrathea = "free" -> 4
    [] OTHER -> 99

\* node_info::operator <
NodeStateSort(nodes) ==
  LET key(n) == <<-info[n].prio, MagratheaValue(n), info[n].free, n>>
      Before(m, n) == \E i \in 1 .. 4 :
        /\ key(m)[i] < key(n)[i]
        /\ \A k \in 1 .. (i - 1) : key(m)[k] = key(n)[k]
  IN  SetToSortSeq(nodes, Before)

MemTotal(n) == IF "mem" \in Resc(n) THEN info[n].resc["mem"].max ELSE 0

\* The part a node is given: an exclusive job takes all of the node.
Taken(j, n, part) ==
  IF Job[j].excl
  THEN [part EXCEPT !.procs = info[n].cores, !.mem = MemTotal(n)]
  ELSE part

\* st is [asg, schedule, result].  The node is given the part, with the
\* alternative to boot.
Give(st, j, n, part, given, alt) ==
  [st EXCEPT !.schedule = Append(@, n),
             !.asg[n].spec = <<given>>,
             !.asg[n].scratch = has_scratch(j, n, part).kind,
             !.asg[n].alt = alt]

Occupied(st) == [st EXCEPT !.result = "Occupied"]
FreeAmong(st, nodes) == SelectSeq(nodes, LAMBDA n : st.asg[n].spec = <<>>)

\* The first free node that fits.
assign_node(st, j, part, nodes) ==
  LET Fits(n) == "Available" = IF Job[j].mode = "create" THEN can_fit_job_for_boot(j, n, part)
                               ELSE can_fit_job_for_run(j, n, part)
      Assign(fit) ==
        IF fit = <<>> THEN Occupied(st)
        ELSE Give(st, j, fit[1], part, Taken(j, fit[1], part),
                  IF Job[j].mode = "create" THEN BootAlternative(fit[1], part) ELSE 0)
  IN  Assign(SelectSeq(FreeAmong(st, nodes), Fits))

ondemand_reboot(st, j, part, nodes) ==
  LET Fits(n) == can_fit_job_for_boot(j, n, part) = "Available"
      Assign(fit) ==
        IF fit = <<>> \/ Job[j].mode # "none" THEN Occupied(st)
        ELSE Give(st, j, fit[1], part, part, BootAlternative(fit[1], part))
  IN  Assign(SelectSeq(FreeAmong(st, nodes), Fits))

\* One requested node: a normal start, else an on-demand reboot.  Nothing is
\* tried without candidates, nor a reboot for a cluster job.
Either(started, booted, occupied) ==
  CASE started.result = "Available" -> started
    [] booted.result = "Available" -> booted
    [] OTHER -> occupied

AssignOne(st, j, part, run, boot) ==
  IF run = <<>> /\ (boot = <<>> \/ Job[j].mode # "none") THEN [st EXCEPT !.result = "NonFit"]
  ELSE Either(assign_node(st, j, part, run), ondemand_reboot(st, j, part, boot), Occupied(st))

try_assign_nodes(st, j, part, run, boot) ==
  FoldLeft(LAMBDA s, i : IF s.result = "Available" THEN AssignOne(s, j, part, run, boot) ELSE s,
           [st EXCEPT !.result = "Available"], [i \in 1 .. part.count |-> i])

\* One part of the specification; an occupied part does not end the search.
Keep(next, result) == IF next.result = "Available" THEN [next EXCEPT !.result = result] ELSE next

AssignPart(st, j, part, nodes) ==
  LET boot == {n \in nodes : st.asg[n].spec = <<>> /\ NodeSuitableForSpec(j, n, part)}
  IN  CASE st.result = "NonFit" -> st
        [] Cardinality(nodes) < part.count -> [st EXCEPT !.result = "NonFit"]
        [] OTHER -> Keep(try_assign_nodes(st, j, part, NodeStateSort(nodes), NodeStateSort(boot)),
                         st.result)

try_assign_spec(st, j, parts, nodes) ==
  FoldLeft(LAMBDA s, p : AssignPart(s, j, p, nodes), [st EXCEPT !.result = "Available"], parts)

\* With a placement the values of the property are tried in turn.
Better(next, result) == IF next.result = "NonFit" THEN [next EXCEPT !.result = result] ELSE next

find_nodes(st, j, parts, nodes) ==
  LET Try(s, v) ==
        IF s.result = "Available" THEN s
        ELSE Better(try_assign_spec([asg |-> nodes_preassign_clean(s.asg, nodes), schedule |-> <<>>,
                                     result |-> ""],
                                    j, parts, {n \in nodes : info[n].place = v}),
                    s.result)
  IN  IF Job[j].place = ""
      THEN try_assign_spec(st, j, parts, nodes)
      ELSE FoldLeft(Try, [st EXCEPT !.result = "NonFit"], [v \in 1 .. Places |-> v])

(***************************************************************************)
(* JobInfo: the cost of a job and what it takes from its nodes.            *)
(***************************************************************************)
\* The cheapest nodes that suit a part and carry no flag are flagged, one
\* per requested node; overrun when the vector ends before that.
\* The cost is a fraction, kept as numerator and denominator.
NodeCost(j, n, part) ==
  IF Job[j].excl THEN [num |-> info[n].cost * info[n].cores, den |-> 1]
  ELSE [num |-> info[n].cost * Max({part.procs * MemTotal(n), part.mem * info[n].cores}),
        den |-> MemTotal(n)]

Less(a, b) == a.num * b.den < b.num * a.den

Flag(st, order, count) ==
  LET chosen == {order[i] : i \in DOMAIN order \intersect 1 .. count}
  IN  [asg |-> [n \in Nodes |-> [st.asg[n] EXCEPT !.flag = @ \/ n \in chosen]],
       overrun |-> st.overrun \/ Len(order) < count]

FlagPart(st, j, part, nodes) ==
  LET free == {n \in nodes : ~st.asg[n].flag /\ NodeSuitableForSpec(j, n, part)}
      ByCost(cost) == SetToSortSeq(DOMAIN cost,
        LAMBDA m, n : Less(cost[m], cost[n]) \/ (~Less(cost[n], cost[m]) /\ m < n))
  IN  Flag(st, ByCost([n \in free |-> NodeCost(j, n, part)]), part.count)

calculate_fairshare_cost(a, j, parts, nodes) ==
  FoldLeft(LAMBDA s, p : FlagPart(s, j, p, nodes), [asg |-> a, overrun |-> FALSE], parts)

ScratchResource == [ssd |-> "scratch_ssd", local |-> "scratch_local"]

\* How much of a resource a part takes, with the scratch selected for it.
Amount(part, scratch, name) ==
  (IF name = "mem" THEN part.mem ELSE 0)
  + (IF scratch \in DOMAIN ScratchResource /\ name = ScratchResource[scratch] THEN part.scratch ELSE 0)
  + (LET p == {q \in part.props : q.name = name /\ q.value # 0} IN
     IF p = {} THEN 0 ELSE (CHOOSE q \in p : TRUE).value)

\* The nodes of the server that hold an assignment give what it asks for; a
\* cluster job makes the node and its sisters unusable.
plan_on_nodes(u, a, j) ==
  LET Busy == {n \in Nodes : a[n].spec # <<>>}
      Sisters == UNION {Hosted(info[n].host) : n \in Busy}
  IN  [n \in Nodes |->
        [core |-> u[n].core + (IF n \notin Busy THEN 0
                               ELSE IF Job[j].excl THEN info[n].cores ELSE a[n].spec[1].procs),
         resc |-> [r \in Resc(n) |-> u[n].resc[r] +
                    (IF n \in Busy THEN Amount(a[n].spec[1], a[n].scratch, r) ELSE 0)],
         notusable |-> u[n].notusable \/ (Job[j].mode = "create" /\ n \in Sisters)]]

\* Shared scratch counts as scheduled on the pool of the node.
plan_on_pools(d, a) ==
  [r \in DOMAIN d |->
    [d[r] EXCEPT !.scheduled = @ + SumFunctionOnSet(
       [n \in Nodes |-> IF a[n].scratch = "shared" /\ info[n].pool = r /\ info[n].poolKnown
                        THEN a[n].spec[1].scratch ELSE 0], Nodes)]]

Requested(j, r) == IF r \in DOMAIN Job[j].dyn THEN Job[j].dyn[r] ELSE 0

plan_on_server(d, j) == [r \in DOMAIN d |-> [d[r] EXCEPT !.assigned = @ + Requested(j, r)]]
=============================================================================
