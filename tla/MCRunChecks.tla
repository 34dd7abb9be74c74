---------------------------- MODULE MCRunChecks ----------------------------
(***************************************************************************)
(* Instances of RunChecks for TLC: a node of a cluster, a virtual node     *)
(* that can be booted, the cloud node that hosts it, and a small node.     *)
(***************************************************************************)
EXTENDS RunChecks

Chunk(count, procs, mem) ==
  [count |-> count, procs |-> procs, mem |-> mem, stype |-> "none", scratch |-> 0, props |-> {}]

Plain ==
  [account |-> "ann", group |-> "g", queue |-> "q", parts |-> <<Chunk(1, 1, 1)>>, excl |-> FALSE,
   mode |-> "none", cluster |-> "", place |-> "", walltime |-> 10, dyn |-> <<>>,
   starving |-> FALSE, plan |-> <<1>>]

Lic == [lic |-> 1]
Both == [lic |-> 1, tok |-> 1]

\* A job of two nodes with placement and a licence, an exclusive starving one
\* with scratch, a virtual cluster, a small job that competes for licences,
\* and two jobs with one chunk on their first and two on their second node.
MCJob ==
  <<[Plain EXCEPT !.parts = <<Chunk(2, 1, 1)>>, !.plan = <<1, 2>>, !.dyn = Lic, !.place = "site"],
    [Plain EXCEPT !.account = "bob", !.queue = "p", !.excl = TRUE, !.starving = TRUE, !.dyn = [tok |-> 1],
                  !.parts = <<[Chunk(1, 2, 1) EXCEPT !.stype = "any", !.scratch = 1]>>, !.plan = <<2>>],
    [Plain EXCEPT !.account = "bob", !.queue = "p", !.mode = "create", !.cluster = "vc", !.plan = <<2>>],
    [Plain EXCEPT !.account = "bob", !.dyn = Both],
    [Plain EXCEPT !.parts = <<Chunk(3, 1, 1)>>, !.plan = <<4, 2, 2>>],
    [Plain EXCEPT !.parts = <<Chunk(3, 1, 0)>>, !.plan = <<1, 2, 2>>]>>

MCQueue == [q |-> [admin |-> FALSE], p |-> [admin |-> FALSE]]

NoLimit == [run |-> Infinity, user |-> Infinity, group |-> Infinity]
MCLimit ==
  [server |-> [NoLimit EXCEPT !.user = 2, !.run = 2],
   q |-> [NoLimit EXCEPT !.group = 2],
   p |-> [NoLimit EXCEPT !.user = 1]]

Static(max) == [max |-> max, avail |-> 0]

Machine ==
  [resc |-> [mem |-> Static(2), scratch_local |-> Static(1)], free |-> 0, cores |-> 2, exclusive |-> FALSE,
   adminSlot |-> "Available", pool |-> "", poolKnown |-> FALSE, priority |-> <<"local", "ssd", "shared">>,
   spec |-> 1, phys |-> {}, virt |-> {}, after |-> 0, before |-> 0, host |-> 0, type |-> "cluster",
   alternatives |-> <<>>, magrathea |-> "none", state |-> "free", rebootable |-> FALSE, jobs |-> FALSE,
   place |-> 1, nomultinode |-> FALSE, cluster |-> "", prio |-> 0, cost |-> 1, dead |-> <<>>]

Virtual(status) ==
  [Machine EXCEPT !.type = "virtual", !.host = 3, !.alternatives = <<{"os"}>>, !.magrathea = status,
                  !.prio = 1]

Host == [Machine EXCEPT !.type = "cloud"]
Small == [Machine EXCEPT !.cores = 1, !.prio = 2, !.cost = 2]

MCSituations ==
  {<<Machine, [Virtual("free") EXCEPT !.dead = [scratch_local |-> 1]], Host, Small>>,
   <<Machine, Virtual("booting"), Host, Small>>,
   <<Machine, Virtual("down-bootable"), Host, Small>>,
   <<Machine, Virtual("running"), Host, Small>>,
   <<[Machine EXCEPT !.state = "down"], [Virtual("free") EXCEPT !.host = -1], Host, Small>>}

MCAccount == [n \in 1 .. 4 |-> {"ann", "bob"}]
MCLicences == [lic |-> 1, tok |-> 1]
MCDed == [from |-> 100, to |-> 200, now |-> FALSE]
MCCloudUsers == [other |-> {"ann"}]
=============================================================================
