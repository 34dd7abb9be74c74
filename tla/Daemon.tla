------------------------------- MODULE Daemon -------------------------------
(***************************************************************************)
(* The life of the scheduler process: the lock file and the signals        *)
(* (pbs_sched.cpp), the loop of World::plan_run with its configuration     *)
(* reloads, status updates, fetches and exceptions (SchedulerRealm.cpp,    *)
(* parse.cpp, fifo.cpp, prime.cpp, dedtime.cpp) and the connections to the *)
(* servers (SchedulerCore_ConnectionMgr.cpp).                              *)
(*                                                                         *)
(* What a cycle does between the fetch and the end is in PlanCycle and     *)
(* Fairshare.  Only the process that holds the lock gets to the loop, so   *)
(* the globals of the program are kept once and set anew by Boot.          *)
(***************************************************************************)
EXTENDS Integers, SequencesExt

CONSTANTS
  Procs,         \* process ids, positive numbers
  Master,        \* conf.local_server
  Slaves,        \* conf.slave_servers, a sequence
  Queues,        \* number of global queues of the master
  Canonical,     \* servers that are configured by their FQDN
  Moments,       \* the times at which the daemon may look at the clock: [time, yday, day, hour, min]
  HolidaysFile,  \* its lines: [word, first, second], times as HHMM or All or None
  All, None,     \* numbers that are no times
  Dedicated,     \* dedicated_time: its lines as [from, to], none twice
  PrimeFs, NonPrimeFs,  \* fair_share in the configuration
  MaxSleep,      \* moments that pass between two cycles
  MaxEvents      \* servers that go down, exceptions, signals and edits of the configuration

ASSUME ProcsAssumption == 0 \notin Procs

Moment == [time : Int, yday : Int, day : {"weekday", "saturday", "sunday"},
           hour : 0 .. 23, min : 0 .. 59]

ASSUME TimesAssumption ==
  /\ Moments \in Seq(Moment) /\ Moments # <<>>
  /\ Dedicated \subseteq [from : Int, to : Int] /\ IsFiniteSet(Dedicated)
  /\ MaxSleep \in Nat

Servers == {Master} \cup ToSet(Slaves)

VARIABLES
  pc,        \* where each process is
  flag,      \* scheduler_not_dying
  asked,     \* history: processes that were signalled while they ran the loop
  file,      \* the process that sched.lock names, 0 when it is empty
  holder,    \* the process that has locked sched.lock, 0 when none
  now,       \* index in Moments
  up,        \* servers that answer
  conn,      \* p_connections by FQDN: "none", "ok" or "dead"
  at,        \* the slave and the queue that fetch_servers is at
  fetched,   \* servers whose jobs are in p_info
  conf,      \* [fs, nfs, year, ded]: configuration, holidays, dedicated times
  cstat,     \* [is_prime, fair_share, is_ded_time]
  lastDay,   \* last_day of is_prime_time
  active,    \* history: dedicated times that a cycle of this process was in
  newer,     \* the configuration file is newer than conf
  qstat,     \* update_qstat
  events     \* number of these so far

world == <<conn, at, fetched, conf, cstat, lastDay, active, qstat>>
process == <<pc, flag, asked, file, holder>>
outside == <<up, newer>>
vars == <<process, world, outside, now, events>>

InLoop == {"loop", "fetch", "slaves", "cycle", "pause"}

(***************************************************************************)
(* Prime time and dedicated time.                                          *)
(***************************************************************************)
load_day(tok) ==
  IF tok \in {All, None} THEN [hour |-> 0, min |-> 0] ELSE [hour |-> tok \div 100, min |-> tok % 100]

\* parse_holidays: a later line replaces an earlier one.
LinesOf(word) == SelectSeq(HolidaysFile, LAMBDA l : l.word = word)
PrimeHours ==
  [d \in {"weekday", "saturday", "sunday"} |->
     IF LinesOf(d) = <<>> THEN [prime |-> [hour |-> 0, min |-> 0], nonprime |-> [hour |-> 0, min |-> 0]]
     ELSE [prime |-> load_day(Last(LinesOf(d)).first), nonprime |-> load_day(Last(LinesOf(d)).second)]]
Holidays == {l.first : l \in ToSet(LinesOf("holiday"))}
HolidayYear == LinesOf("YEAR") # <<>>
is_holiday(jdate) == jdate \in Holidays

\* The first four cases of the code are overwritten by the ones below.
check_prime(d, m) ==
  LET p == PrimeHours[d].prime
      n == PrimeHours[d].nonprime
  IN  IF n.hour >= p.hour
      THEN \/ m.hour > p.hour /\ m.hour < n.hour
           \/ m.hour = p.hour /\ p.hour = n.hour /\ m.min >= p.min /\ m.min < n.min
           \/ m.hour = p.hour /\ p.hour # n.hour /\ m.min > p.min
      ELSE m.hour > p.hour \/ m.hour < n.hour

\* Holidays are looked up once a day; without a holidays file it is always
\* prime time.
is_prime_time(year, last, m) ==
  IF ~year THEN TRUE
  ELSE ~(m.yday > last /\ is_holiday(m.yday + 1)) /\ check_prime(m.day, m)

LastDayAfter(year, last, m) == IF year /\ m.yday > last THEN m.yday ELSE last

Inside(d, t) == d.from < t /\ t < d.to

\* conf.ded_time[0]: the array is kept sorted by from.
FirstDed(ded) == CHOOSE d \in ded : \A e \in ded : d.from <= e.from

\* Only the first dedicated time is looked at.
is_ded_time(ded, t) == ded # {} /\ Inside(FirstDed(ded), t)

\* parse_ded_file: the times that have passed are ignored.
ParseDed(t) == {d \in Dedicated : ~(d.from < t /\ d.to < t)}

\* init_prime_time and init_non_prime_time.
Settings(c, prime) == [is_prime |-> prime, fair_share |-> IF prime THEN c.fs ELSE c.nfs]

\* Mutant: a dedicated time that is over stays in front.
status_keeps_ded(c, s, last, m) ==
  LET ded == is_ded_time(c.ded, m.time)
      prime == is_prime_time(c.year, last, m)
      set == IF prime # s.is_prime THEN Settings(c, prime) ELSE [is_prime |-> s.is_prime, fair_share |-> s.fair_share]
  IN  [conf |-> c,
       cstat |-> [is_prime |-> set.is_prime, fair_share |-> set.fair_share, is_ded_time |-> ded],
       lastDay |-> LastDayAfter(c.year, last, m)]

update_cycle_status(c, s, last, m) ==
  LET ded == is_ded_time(c.ded, m.time)
      prime == is_prime_time(c.year, last, m)
      set == IF prime # s.is_prime THEN Settings(c, prime) ELSE [is_prime |-> s.is_prime, fair_share |-> s.fair_share]
  IN  [conf |-> IF s.is_ded_time /\ ~ded THEN [c EXCEPT !.ded = @ \ {FirstDed(@)}] ELSE c,
       cstat |-> [is_prime |-> set.is_prime, fair_share |-> set.fair_share, is_ded_time |-> ded],
       lastDay |-> LastDayAfter(c.year, last, m)]

\* init_config: everything is zeroed, and prime time is initialized before
\* the file is parsed.
ZeroStatus == [is_prime |-> TRUE, fair_share |-> FALSE, is_ded_time |-> FALSE]
NoConnections == [s \in Servers |-> "none"]
ParsedConf == [fs |-> PrimeFs, nfs |-> NonPrimeFs, year |-> FALSE, ded |-> {}]

(***************************************************************************)
(* The process.                                                            *)
(***************************************************************************)
Launch(p) ==
  /\ pc[p] = "off" /\ pc' = [pc EXCEPT ![p] = "open"]
  /\ UNCHANGED <<flag, asked, file, holder, world, outside, now, events>>

\* Mutant: the pid is written before the file is locked.
open_writes_pid(p) ==
  /\ pc[p] = "open" /\ pc' = [pc EXCEPT ![p] = "lock"]
  /\ file' = p
  /\ UNCHANGED <<flag, asked, holder, world, outside, now, events>>

\* O_TRUNC.
OpenLock(p) ==
  /\ pc[p] = "open" /\ pc' = [pc EXCEPT ![p] = "lock"]
  /\ file' = 0
  /\ UNCHANGED <<flag, asked, holder, world, outside, now, events>>

\* F_SETLK: fails when the file is locked.
TakeLock(p) ==
  /\ pc[p] = "lock"
  /\ \/ holder = 0 /\ holder' = p /\ pc' = [pc EXCEPT ![p] = "write"]
     \/ holder # 0 /\ UNCHANGED holder /\ pc' = [pc EXCEPT ![p] = "gone"]
  /\ UNCHANGED <<flag, asked, file, world, outside, now, events>>

WritePid(p) ==
  /\ pc[p] = "write" /\ pc' = [pc EXCEPT ![p] = "signals"]
  /\ file' = p
  /\ UNCHANGED <<flag, asked, holder, world, outside, now, events>>

setup_signals(p) ==
  /\ pc[p] = "signals" /\ pc' = [pc EXCEPT ![p] = "ready"]
  /\ UNCHANGED <<flag, asked, file, holder, world, outside, now, events>>

\* scheduler_not_dying = true, and the World with schedinit: is_prime_time()
\* is tested as a number, which is never 0.
Boot(p) ==
  /\ pc[p] = "ready" /\ pc' = [pc EXCEPT ![p] = "loop"]
  /\ flag' = [flag EXCEPT ![p] = TRUE]
  /\ LET m == Moments[now]
         c == [ParsedConf EXCEPT !.year = HolidayYear, !.ded = ParseDed(m.time)]
         s == Settings(c, TRUE)
     IN  /\ conf' = c
         /\ cstat' = [is_prime |-> s.is_prime, fair_share |-> s.fair_share, is_ded_time |-> FALSE]
         /\ lastDay' = LastDayAfter(HolidayYear, -1, m)
  /\ newer' = FALSE
  /\ UNCHANGED <<conn, at, fetched, active, qstat, asked, file, holder, up, now, events>>

\* The end of a process unlocks its file and closes its sockets.
EndProcess(p) ==
  /\ pc' = [pc EXCEPT ![p] = "gone"] /\ flag' = [flag EXCEPT ![p] = FALSE]
  /\ holder' = IF holder = p THEN 0 ELSE holder
  /\ \/ /\ pc[p] \in InLoop
        /\ conn' = NoConnections /\ at' = <<1, 1>> /\ fetched' = {} /\ conf' = ParsedConf
        /\ cstat' = ZeroStatus /\ lastDay' = -1 /\ active' = {} /\ qstat' = 0
     \/ pc[p] \notin InLoop /\ UNCHANGED world
  /\ UNCHANGED file

\* SIGHUP, SIGINT or SIGTERM: before setup_signals the process is killed.
\* Before Boot the handler's work is overwritten.
Signal(p) ==
  /\ events < MaxEvents /\ events' = events + 1
  /\ pc[p] \notin {"off", "gone"}
  /\ \/ /\ pc[p] \in InLoop \cup {"ready"}
        /\ flag' = [flag EXCEPT ![p] = FALSE]
        /\ asked' = IF pc[p] = "ready" THEN asked ELSE asked \cup {p}
        /\ UNCHANGED <<pc, file, holder, world>>
     \/ pc[p] \notin InLoop \cup {"ready"} /\ EndProcess(p) /\ UNCHANGED asked
  /\ UNCHANGED <<outside, now>>

\* The loop ends and main returns.
Exit(p) ==
  /\ pc[p] \in {"loop", "pause"} /\ ~flag[p]
  /\ EndProcess(p)
  /\ UNCHANGED <<asked, outside, now, events>>

(***************************************************************************)
(* The loop of plan_run.                                                   *)
(***************************************************************************)
Later(n) == LET t == now + n IN IF t > Len(Moments) THEN Len(Moments) ELSE t

\* Mutant: the loop does not look at scheduler_not_dying.
begin_ignores_flag(p) ==
  /\ pc[p] = "loop" /\ pc' = [pc EXCEPT ![p] = "fetch"]
  /\ \E n \in 1 .. MaxSleep : now' = Later(n)
  /\ \E u \in {update_cycle_status(IF newer THEN ParsedConf ELSE conf,
                                   IF newer THEN ZeroStatus ELSE cstat, lastDay, Moments[now'])} :
       /\ conf' = u.conf /\ cstat' = u.cstat /\ lastDay' = u.lastDay
       /\ active' = IF u.cstat.is_ded_time THEN active \cup {FirstDed(u.conf.ded)} ELSE active
  /\ newer' = FALSE /\ fetched' = {}
  /\ UNCHANGED <<flag, asked, file, holder, conn, at, qstat, up, events>>

\* The configuration is reloaded when its file is newer, the daemon sleeps
\* and the status is updated.
BeginCycle(p) ==
  /\ pc[p] = "loop" /\ flag[p] /\ pc' = [pc EXCEPT ![p] = "fetch"]
  /\ \E n \in 1 .. MaxSleep : now' = Later(n)
  /\ \E u \in {update_cycle_status(IF newer THEN ParsedConf ELSE conf,
                                   IF newer THEN ZeroStatus ELSE cstat, lastDay, Moments[now'])} :
       /\ conf' = u.conf /\ cstat' = u.cstat /\ lastDay' = u.lastDay
       /\ active' = IF u.cstat.is_ded_time THEN active \cup {FirstDed(u.conf.ded)} ELSE active
  /\ newer' = FALSE /\ fetched' = {}
  /\ UNCHANGED <<flag, asked, file, holder, conn, at, qstat, up, events>>

\* A new connection, unless there is one; "none" when connecting fails.
make_connection(s) ==
  CASE conn[s] # "none" -> conn[s]
    [] conn[s] = "none" /\ s \in up -> "ok"
    [] OTHER -> "none"

\* p_connections is keyed by FQDN and looked up by the configured name.
reset_connection(s, c) == IF s \in Canonical THEN "none" ELSE c

\* Mutant: the connection is not reset.
fetch_keeps_connection(p) ==
  /\ pc[p] = "fetch"
  /\ \E c \in {make_connection(Master)} :
       \/ /\ c = "ok" /\ conn' = [conn EXCEPT ![Master] = "ok"]
          /\ fetched' = {Master} /\ pc' = [pc EXCEPT ![p] = "slaves"]
       \/ /\ c # "ok" /\ pc' = [pc EXCEPT ![p] = "loop"]
          /\ UNCHANGED <<conn, fetched>>
  /\ at' = <<1, 1>>
  /\ UNCHANGED <<flag, asked, file, holder, conf, cstat, lastDay, active, qstat, outside, now, events>>

\* query_server fails on a dead connection, which is then reset; when there
\* is no connection the exception is caught.  Either way the cycle is over.
FetchMaster(p) ==
  /\ pc[p] = "fetch"
  /\ \E c \in {make_connection(Master)} :
       \/ /\ c = "ok" /\ conn' = [conn EXCEPT ![Master] = "ok"]
          /\ fetched' = {Master} /\ pc' = [pc EXCEPT ![p] = "slaves"]
       \/ /\ c # "ok" /\ conn' = [conn EXCEPT ![Master] = reset_connection(Master, c)]
          /\ pc' = [pc EXCEPT ![p] = "loop"] /\ UNCHANGED fetched
  /\ at' = <<1, 1>>
  /\ UNCHANGED <<flag, asked, file, holder, conf, cstat, lastDay, active, qstat, outside, now, events>>

NextQueue == IF at[2] < Queues THEN <<at[1], at[2] + 1>> ELSE <<at[1] + 1, 1>>

\* A failing query is a soft error, and the next queue is tried; a failing
\* connection ends the loop over the queues of this server.
FetchSlave(p) ==
  /\ pc[p] = "slaves" /\ at[1] <= Len(Slaves)
  /\ LET s == Slaves[at[1]] IN
     \E c \in {make_connection(s)} :
       \/ /\ c = "ok" /\ conn' = [conn EXCEPT ![s] = "ok"] /\ fetched' = fetched \cup {s} /\ at' = NextQueue
       \/ c = "dead" /\ at' = NextQueue /\ UNCHANGED <<conn, fetched>>
       \/ /\ c = "none" /\ conn' = [conn EXCEPT ![s] = reset_connection(s, c)]
          /\ at' = <<at[1] + 1, 1>> /\ UNCHANGED fetched
  /\ UNCHANGED <<pc, flag, asked, file, holder, conf, cstat, lastDay, active, qstat, outside, now, events>>

FetchDone(p) ==
  /\ pc[p] = "slaves" /\ at[1] > Len(Slaves) /\ pc' = [pc EXCEPT ![p] = "cycle"]
  /\ at' = <<1, 1>>
  /\ UNCHANGED <<flag, asked, file, holder, conn, fetched, conf, cstat, lastDay, active, qstat, outside, now, events>>

\* update_qstat after an optimization or none: published when above 1.
Published(q) == IF q > 1 THEN 0 ELSE q
Counted(q) == IF q > 0 THEN q + 1 ELSE q

\* Mutant: update_qstat is only raised by the optimization.
end_counts_once(p) ==
  /\ pc[p] = "cycle" /\ pc' = [pc EXCEPT ![p] = "loop"]
  /\ \E optimized \in {0, 1} : qstat' = Published(qstat + optimized)
  /\ conn' = NoConnections
  /\ UNCHANGED <<flag, asked, file, holder, at, fetched, conf, cstat, lastDay, active, outside, now, events>>

\* The rest of the cycle, with or without an optimization, and
\* cleanup_servers.
EndCycle(p) ==
  /\ pc[p] = "cycle" /\ pc' = [pc EXCEPT ![p] = "loop"]
  /\ \E optimized \in {0, 1} : qstat' = Counted(Published(qstat + optimized))
  /\ conn' = NoConnections
  /\ UNCHANGED <<flag, asked, file, holder, at, fetched, conf, cstat, lastDay, active, outside, now, events>>

\* An exception leaves plan_run at once: the connections stay.  It may be
\* thrown before or after update_qstat is raised, set to 0 or counted.
Throw(p) ==
  /\ pc[p] = "cycle" /\ events < MaxEvents /\ events' = events + 1
  /\ pc' = [pc EXCEPT ![p] = "pause"]
  /\ \E q \in {qstat, qstat + 1} : qstat' \in {q, Published(q), Counted(Published(q))}
  /\ UNCHANGED <<flag, asked, file, holder, conn, at, fetched, conf, cstat, lastDay, active, outside, now>>

\* The five minutes of the pause are in the time that BeginCycle lets pass.
Retry(p) ==
  /\ pc[p] = "pause" /\ flag[p] /\ pc' = [pc EXCEPT ![p] = "loop"]
  /\ UNCHANGED <<flag, asked, file, holder, world, outside, now, events>>

(***************************************************************************)
(* The surroundings.                                                       *)
(***************************************************************************)
ServerDown(s) ==
  /\ s \in up /\ events < MaxEvents /\ events' = events + 1
  /\ up' = up \ {s}
  /\ conn' = [conn EXCEPT ![s] = IF @ = "ok" THEN "dead" ELSE @]
  /\ UNCHANGED <<process, at, fetched, conf, cstat, lastDay, active, qstat, newer, now>>

ServerUp(s) ==
  /\ s \notin up /\ up' = up \cup {s}
  /\ UNCHANGED <<process, world, newer, now, events>>

\* The administrator writes sched_config; it is looked at in the loop only.
EditConfig ==
  /\ \E p \in Procs : pc[p] = "loop"
  /\ ~newer /\ newer' = TRUE
  /\ events < MaxEvents /\ events' = events + 1
  /\ UNCHANGED <<process, world, up, now>>

Init ==
  /\ pc = [p \in Procs |-> "off"] /\ flag = [p \in Procs |-> FALSE] /\ asked = {}
  /\ file = 0 /\ holder = 0 /\ now = 1 /\ up = Servers
  /\ conn = NoConnections /\ at = <<1, 1>> /\ fetched = {} /\ conf = ParsedConf
  /\ cstat = ZeroStatus /\ lastDay = -1 /\ active = {} /\ qstat = 0 /\ newer = FALSE
  /\ events = 0

Step(p) ==
  \/ OpenLock(p) \/ TakeLock(p) \/ WritePid(p) \/ setup_signals(p) \/ Boot(p)
  \/ BeginCycle(p) \/ FetchMaster(p) \/ FetchSlave(p) \/ FetchDone(p) \/ EndCycle(p)
  \/ Retry(p) \/ Exit(p)

Next ==
  \/ \E p \in Procs : Launch(p) \/ Step(p) \/ Throw(p) \/ Signal(p)
  \/ \E s \in Servers : ServerDown(s) \/ ServerUp(s)
  \/ EditConfig

\* The processes go on, and servers that are down come back.
Fairness == WF_vars(\E p \in Procs : Step(p)) /\ WF_vars(\E s \in Servers : ServerUp(s))

Spec == Init /\ [][Next]_vars /\ Fairness

(***************************************************************************)
(* Properties.                                                             *)
(***************************************************************************)
\* Types of the variables; update_qstat is 0 or 2 between two cycles, but for
\* those that an exception ended.
TypeOK ==
  /\ pc \in [Procs -> InLoop \cup {"off", "open", "lock", "write", "signals", "ready", "gone"}]
  /\ flag \in [Procs -> BOOLEAN] /\ asked \subseteq Procs
  /\ file \in Procs \cup {0} /\ holder \in Procs \cup {0}
  /\ now \in DOMAIN Moments /\ up \subseteq Servers /\ fetched \subseteq Servers
  /\ conn \in [Servers -> {"none", "ok", "dead"}] /\ qstat \in 0 .. 2 + MaxEvents
  /\ cstat \in [is_prime : BOOLEAN, fair_share : BOOLEAN, is_ded_time : BOOLEAN]
  /\ newer \in BOOLEAN /\ events \in 0 .. MaxEvents

\* update_pid_file: of several daemons that are started at any time only one
\* gets to the loop, and sched.lock, from which the init script takes the
\* process to stop, never names another one (it may be empty: a second daemon
\* truncates it before it finds it locked).
LockNamesDaemon ==
  \A p \in Procs : pc[p] \in InLoop \cup {"signals", "ready"} => holder = p /\ file \in {p, 0}

\* update_cycle_status keeps the status right over all cycles until the
\* configuration is reloaded: fair share as configured for the period, prime
\* time by the clock but on holidays, and dedicated time whenever the clock is
\* in one, unless one has passed without any cycle in it.  This takes a cycle
\* between two dedicated times, as in the days of the instance.
StatusRight ==
  \A p \in Procs : (pc[p] \in {"fetch", "slaves", "cycle"} /\ conf.year) =>
    LET m == Moments[now]
        missed == {d \in conf.ded : d.to <= m.time /\ d \notin active}
    IN  /\ cstat.fair_share = IF cstat.is_prime THEN conf.fs ELSE conf.nfs
        /\ ~is_holiday(m.yday + 1) => cstat.is_prime = check_prime(m.day, m)
        /\ missed = {} => cstat.is_ded_time = \E d \in Dedicated : Inside(d, m.time)

\* sched_config: fair_share schedules "jobs based on usage and share values"
\* in the periods for which it is set, also after the file has been edited.
FairShareAsConfigured ==
  \A p \in Procs : pc[p] = "cycle" => cstat.fair_share = IF cstat.is_prime THEN conf.fs ELSE conf.nfs

\* A daemon that is signalled in its loop ends, wherever it is, an exception
\* and the pause after it included (graceful_exit_handler).
SignalStops == \A p \in Procs : (p \in asked) ~> (pc[p] = "gone")

\* Whatever connections were lost or left open by failed fetches and
\* exceptions, each server's jobs are fetched again once it is back
\* (reset_connection, disconnect_all).
Recovers ==
  \A s \in Servers :
    (\E p \in Procs : pc[p] = "loop") ~> (\/ \A p \in Procs : pc[p] \notin InLoop
                                         \/ \E p \in Procs : pc[p] = "cycle" /\ s \in fetched)

\* What the optimization has changed is published in a later cycle
\* (update_planned_start, update_planned_nodes).
PlanPublished == (qstat > 0) ~> (qstat = 0)
=============================================================================
