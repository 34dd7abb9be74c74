---------------------------- MODULE Daemon_proofs ----------------------------
(***************************************************************************)
(* sched.lock never names another process than the daemon that runs, for   *)
(* any set of processes (LockInv), and update_cycle_status shows every     *)
(* cycle the right prime time and dedicated time, for any moments and      *)
(* dedicated times with a cycle in between (StatusInv).                    *)
(***************************************************************************)
EXTENDS Daemon, BaseLemmas

\* The places of a process that has taken the lock, and those at which it has
\* written its pid as well.
Written == InLoop \cup {"signals", "ready"}
Locked == Written \cup {"write"}

LockTypes ==
  /\ pc \in [Procs -> Locked \cup {"off", "open", "lock", "gone"}]
  /\ holder \in Procs \cup {0} /\ file \in Procs \cup {0}

\* LockNamesDaemon is not inductive: the process that writes its pid must be
\* the holder of the lock, and a holder is at one of the places above.
LockInv ==
  /\ LockTypes
  /\ \A p \in Procs : pc[p] \in Locked <=> holder = p
  /\ \A p \in Procs : pc[p] \in Written => file \in {p, 0}

lockVars == <<pc, holder, file>>

\* No process has started.
LEMMA LockInit == Init => LockInv
  BY ProcsAssumption DEF Init, LockInv, LockTypes, Locked, Written, InLoop

\* Steps that leave the processes, the lock and the file alone.
LEMMA LockUnchanged == LockInv /\ UNCHANGED lockVars => LockInv'
  BY DEF LockInv, LockTypes, Locked, Written, InLoop, lockVars

\* A step of a daemon in its loop, or before it gets to the lock, that leaves
\* the file and the lock alone.
LEMMA LockMoves ==
  ASSUME LockInv, NEW p \in Procs, NEW to, UNCHANGED <<holder, file>>,
         pc' = [pc EXCEPT ![p] = to],
         \/ pc[p] \in Written /\ to \in Written
         \/ pc[p] \notin Locked /\ to \in {"open", "lock", "gone"}
  PROVE  LockInv'
  BY DEF LockInv, LockTypes, Locked, Written, InLoop

\* The end of a process gives up the lock only if it was its own.
LEMMA LockEnds ==
  ASSUME LockInv, NEW p \in Procs, EndProcess(p)
  PROVE  LockInv'
  <1>1. /\ pc' = [pc EXCEPT ![p] = "gone"] /\ file' = file
        /\ holder' = IF holder = p THEN 0 ELSE holder
    BY DEF EndProcess
  <1> QED BY <1>1, ProcsAssumption DEF LockInv, LockTypes, Locked, Written, InLoop

\* The steps of update_pid_file.
LEMMA LockStarts ==
  ASSUME LockInv, NEW p \in Procs, Launch(p) \/ OpenLock(p) \/ TakeLock(p) \/ WritePid(p)
  PROVE  LockInv'
  <1>1. CASE Launch(p)
    <2>1. /\ pc[p] = "off" /\ pc' = [pc EXCEPT ![p] = "open"]
          /\ UNCHANGED <<holder, file>>
      BY <1>1 DEF Launch
    <2> QED BY <2>1, LockMoves DEF Locked, Written, InLoop
  <1>2. CASE OpenLock(p)
    <2>1. /\ pc[p] = "open" /\ pc' = [pc EXCEPT ![p] = "lock"] /\ file' = 0 /\ holder' = holder
      BY <1>2 DEF OpenLock
    <2> QED BY <2>1 DEF LockInv, LockTypes, Locked, Written, InLoop
  <1>3. CASE TakeLock(p)
    <2>1. pc[p] = "lock" /\ file' = file
      BY <1>3 DEF TakeLock
    <2>2. CASE holder = 0
      <3>1. holder' = p /\ pc' = [pc EXCEPT ![p] = "write"]
        BY <1>3, <2>2 DEF TakeLock
      <3> QED BY <2>1, <2>2, <3>1, ProcsAssumption DEF LockInv, LockTypes, Locked, Written, InLoop
    <2>3. CASE holder # 0
      <3>1. holder' = holder /\ pc' = [pc EXCEPT ![p] = "gone"]
        BY <1>3, <2>3 DEF TakeLock
      <3> QED BY <2>1, <3>1, LockMoves DEF Locked, Written, InLoop
    <2> QED BY <2>2, <2>3
  <1>4. CASE WritePid(p)
    <2>1. /\ pc[p] = "write" /\ pc' = [pc EXCEPT ![p] = "signals"] /\ file' = p /\ holder' = holder
      BY <1>4 DEF WritePid
    <2> QED BY <2>1 DEF LockInv, LockTypes, Locked, Written, InLoop
  <1> QED BY <1>1, <1>2, <1>3, <1>4

\* The steps of a daemon that has written its pid.
LEMMA LockLoop ==
  ASSUME LockInv, NEW p \in Procs,
         \/ setup_signals(p) \/ Boot(p) \/ BeginCycle(p) \/ FetchMaster(p) \/ FetchDone(p)
         \/ EndCycle(p) \/ Throw(p) \/ Retry(p)
  PROVE  LockInv'
  <1>1. /\ pc[p] \in Written /\ UNCHANGED <<holder, file>>
        /\ \E to \in Written : pc' = [pc EXCEPT ![p] = to]
    BY DEF setup_signals, Boot, BeginCycle, FetchMaster, FetchDone, EndCycle, Throw, Retry, Written, InLoop
  <1>2. PICK to \in Written : pc' = [pc EXCEPT ![p] = to]
    BY <1>1
  <1> QED BY <1>1, <1>2, LockMoves

\* Every step keeps the invariant.
LEMMA LockNext == LockInv /\ [Next]_vars => LockInv'
  <1> SUFFICES ASSUME LockInv, [Next]_vars PROVE LockInv'
    OBVIOUS
  <1>1. CASE UNCHANGED vars
    BY <1>1, LockUnchanged DEF vars, process, lockVars
  <1>2. ASSUME NEW p \in Procs, Launch(p) \/ Step(p) \/ Throw(p) \/ Signal(p) PROVE LockInv'
    <2>1. CASE Launch(p) \/ OpenLock(p) \/ TakeLock(p) \/ WritePid(p)
      BY <2>1, LockStarts
    <2>2. CASE \/ setup_signals(p) \/ Boot(p) \/ BeginCycle(p) \/ FetchMaster(p) \/ FetchDone(p)
               \/ EndCycle(p) \/ Throw(p) \/ Retry(p)
      BY <2>2, LockLoop
    <2>3. CASE FetchSlave(p)
      BY <2>3, LockUnchanged DEF FetchSlave, lockVars
    <2>4. CASE Exit(p)
      BY <2>4, LockEnds DEF Exit
    <2>5. CASE Signal(p)
      <3>1. EndProcess(p) \/ UNCHANGED lockVars
        BY <2>5 DEF Signal, lockVars
      <3> QED BY <3>1, LockEnds, LockUnchanged
    <2> QED BY <1>2, <2>1, <2>2, <2>3, <2>4, <2>5 DEF Step
  <1>3. ASSUME NEW s \in Servers, ServerDown(s) \/ ServerUp(s) PROVE LockInv'
    BY <1>3, LockUnchanged DEF ServerDown, ServerUp, process, lockVars
  <1>4. CASE EditConfig
    BY <1>4, LockUnchanged DEF EditConfig, process, lockVars
  <1> QED BY <1>1, <1>2, <1>3, <1>4 DEF Next

\* However many daemons are started, signalled and ended at any time, the one
\* that is in its loop holds the lock, is alone, and sched.lock names it or
\* nobody (update_pid_file, release_pid_file).
THEOREM LockNamesDaemonAlways == Spec => []LockNamesDaemon
  <1>1. LockInv => LockNamesDaemon
    BY DEF LockInv, LockNamesDaemon, Locked, Written
  <1> QED BY <1>1, LockInit, LockNext, PTL DEF Spec
-----------------------------------------------------------------------------
(***************************************************************************)
(* The status of the cycles: fair share, prime time and dedicated time.    *)
(***************************************************************************)

\* The clock is not set back.
ClockForward ==
  \A i, j \in DOMAIN Moments : i <= j => Moments[i].time <= Moments[j].time

\* The daemon never sleeps from one dedicated time into another one: there is
\* a cycle between them.  Without it update_cycle_status drops the first and
\* looks at the second only in the cycle after.
CyclesBetween ==
  \A i, j \in DOMAIN Moments : i <= j /\ j <= i + MaxSleep =>
    \A d, e \in Dedicated :
      Inside(d, Moments[i].time) /\ Inside(e, Moments[j].time) => Inside(d, Moments[j].time)

\* The status and the dedicated times that are left.
StatusKept ==
  /\ cstat.fair_share = IF cstat.is_prime THEN conf.fs ELSE conf.nfs
  /\ conf.ded \subseteq Dedicated
  /\ \A d \in Dedicated : d \notin conf.ded => d.to <= Moments[now].time
  /\ cstat.is_ded_time => conf.ded # {} /\ Inside(FirstDed(conf.ded), Moments[now].time)
  /\ \A d \in active : d \in conf.ded => cstat.is_ded_time /\ d = FirstDed(conf.ded)

\* What a cycle shows of prime time and dedicated time.
StatusShown ==
  LET m == Moments[now]
      missed == {d \in conf.ded : d.to <= m.time /\ d \notin active}
  IN  /\ ~is_holiday(m.yday + 1) => cstat.is_prime = check_prime(m.day, m)
      /\ missed = {} => cstat.is_ded_time = \E d \in Dedicated : Inside(d, m.time)

StatusInv ==
  /\ LockInv
  /\ now \in DOMAIN Moments
  /\ conf \in [fs : {PrimeFs}, nfs : {NonPrimeFs}, year : BOOLEAN, ded : SUBSET Dedicated]
  /\ (\A p \in Procs : pc[p] \notin InLoop) => active = {}
  /\ \A p \in Procs : pc[p] \in InLoop /\ conf.year => StatusKept
  /\ \A p \in Procs : pc[p] \in {"fetch", "slaves", "cycle"} /\ conf.year => StatusShown

statusVars == <<now, conf, cstat, active>>

\* The dedicated time that stands first begins first.
LEMMA FirstDedLeast ==
  ASSUME NEW ded \in SUBSET Dedicated, ded # {}
  PROVE  FirstDed(ded) \in ded /\ \A e \in ded : FirstDed(ded).from <= e.from
<1> DEFINE f == [d \in ded |-> d.from]
<1>1. IsFiniteSet(ded) /\ \A d \in ded : f[d] \in Int
  BY TimesAssumption, FS_Subset
<1>2. \A d \in ded : f[d] = d.from
  OBVIOUS
<1> HIDE DEF f
<1>3. \E d \in ded : \A e \in ded : f[d] <= f[e]
  BY <1>1, LeastValue
<1>4. \E d \in ded : \A e \in ded : d.from <= e.from
  BY <1>2, <1>3
<1> QED BY <1>4 DEF FirstDed

\* The heart of the argument: one update of the status, after the clock has
\* gone on from one cycle to the next.
LEMMA StatusUpdated ==
  ASSUME ClockForward, CyclesBetween, StatusKept, now \in DOMAIN Moments,
         conf \in [fs : {PrimeFs}, nfs : {NonPrimeFs}, year : BOOLEAN, ded : SUBSET Dedicated],
         conf.year, now' \in DOMAIN Moments, now <= now', now' <= now + MaxSleep,
         NEW ded \in BOOLEAN, ded = is_ded_time(conf.ded, Moments[now'].time),
         conf'.fs = conf.fs, conf'.nfs = conf.nfs,
         conf'.ded = (IF cstat.is_ded_time /\ ~ded THEN conf.ded \ {FirstDed(conf.ded)} ELSE conf.ded),
         NEW prime, prime = is_prime_time(TRUE, lastDay, Moments[now']),
         cstat'.is_prime = prime, cstat'.is_ded_time = ded,
         cstat'.fair_share = (IF prime # cstat.is_prime THEN (IF prime THEN conf.fs ELSE conf.nfs)
                              ELSE cstat.fair_share),
         active' = (IF ded THEN active \cup {FirstDed(conf'.ded)} ELSE active)
  PROVE  StatusKept' /\ StatusShown'
<1> DEFINE h == FirstDed(conf.ded)
           old == Moments[now].time
           new == Moments[now'].time
<1>0. /\ old \in Int /\ new \in Int /\ old <= new
      /\ \A d \in Dedicated : d.from \in Int /\ d.to \in Int
      /\ conf.ded \in SUBSET Dedicated
  <2>1. \A i \in DOMAIN Moments : Moments[i].time \in Int
    <3>1. \A i \in DOMAIN Moments : Moments[i] \in Moment
      BY TimesAssumption
    <3>2. \A m \in Moment : m.time \in Int
      BY DEF Moment
    <3> QED BY <3>1, <3>2
  <2>2. \A d \in Dedicated : d.from \in Int /\ d.to \in Int
    BY TimesAssumption
  <2>3. old <= new
    BY Zenon DEF ClockForward
  <2> QED BY <2>1, <2>2, <2>3
<1>1. conf.ded # {} => h \in conf.ded /\ h \in Dedicated /\ \A e \in conf.ded : h.from <= e.from
  BY <1>0, FirstDedLeast
<1>2. ded <=> conf.ded # {} /\ Inside(h, new)
  BY DEF is_ded_time
<1>p. ~is_holiday(Moments[now'].yday + 1) => cstat'.is_prime = check_prime(Moments[now'].day, Moments[now'])
  <2>1. check_prime(Moments[now'].day, Moments[now']) \in BOOLEAN
    BY DEF check_prime
  <2>2. prime = (/\ ~(Moments[now'].yday > lastDay /\ is_holiday(Moments[now'].yday + 1))
                 /\ check_prime(Moments[now'].day, Moments[now']))
    BY Zenon DEF is_prime_time
  <2> QED BY <2>1, <2>2, Zenon
<1> HIDE DEF h, old, new
<1>3. cstat'.fair_share = IF cstat'.is_prime THEN conf'.fs ELSE conf'.nfs
  BY DEF StatusKept
<1>4. cstat.is_ded_time => conf.ded # {} /\ Inside(h, old)
  BY DEF StatusKept, h, old
<1>5. cstat.is_ded_time /\ ~ded => h.to <= new
  BY <1>0, <1>1, <1>2, <1>4 DEF Inside
<1>6. conf'.ded \subseteq Dedicated
  BY <1>0
<1>7. \A d \in Dedicated : d \notin conf'.ded => d.to <= new
  <2> SUFFICES ASSUME NEW d \in Dedicated, d \notin conf'.ded
               PROVE  d.to <= new
    OBVIOUS
  <2>1. CASE d \notin conf.ded
    <3>1. d.to <= old
      BY <2>1 DEF StatusKept, old
    <3> QED BY <1>0, <3>1
  <2>2. CASE d \in conf.ded
    <3>1. cstat.is_ded_time /\ ~ded /\ d = h
      BY <2>2 DEF h
    <3> QED BY <1>5, <3>1
  <2> QED BY <2>1, <2>2
<1>8. \A d \in active : d \in conf.ded => cstat.is_ded_time /\ d = h
  BY DEF StatusKept, h
<1>9. CASE ded
  <2>1. conf'.ded = conf.ded /\ active' = active \cup {h}
    BY <1>9 DEF h
  <2>2. FirstDed(conf'.ded) = h
    BY <2>1 DEF h
  <2>3. StatusKept'
    BY <1>2, <1>3, <1>6, <1>7, <1>8, <1>9, <2>1, <2>2 DEF StatusKept, new
  <2>4. \E d \in Dedicated : Inside(d, new)
    BY <1>1, <1>2, <1>9
  <2>5. cstat'.is_ded_time = \E d \in Dedicated : Inside(d, new)
    BY <1>9, <2>4
  <2> QED BY <2>3, <1>p, <2>5, Zenon DEF StatusShown, new
<1>10. CASE ~ded
  <2>1. active' = active
    BY <1>10
  <2>2. \A d \in active : d \notin conf'.ded
    <3>1. CASE cstat.is_ded_time
      BY <1>8, <1>10, <3>1 DEF h
    <3>2. CASE ~cstat.is_ded_time
      BY <1>8, <1>10, <3>2
    <3> QED BY <3>1, <3>2
  <2>3. StatusKept'
    BY <1>3, <1>6, <1>7, <1>10, <2>1, <2>2 DEF StatusKept, new
  <2>4. ASSUME {d \in conf'.ded : d.to <= new /\ d \notin active} = {},
               NEW d \in Dedicated, Inside(d, new)
        PROVE  FALSE
    <3>1. d \in conf.ded
      <4>1. d.to > old
        BY <1>0, <2>4 DEF Inside
      <4> QED BY <1>0, <4>1 DEF StatusKept, old
    <3>2. h \in conf.ded /\ h.from <= d.from /\ h \in Dedicated
      BY <1>1, <3>1
    <3>3. ~Inside(h, new)
      BY <1>2, <1>10, <3>1
    <3>4. h.to <= new
      BY <1>0, <2>4, <3>2, <3>3 DEF Inside
    <3>5. ~cstat.is_ded_time
      <4>1. SUFFICES ASSUME cstat.is_ded_time PROVE FALSE
        OBVIOUS
      <4>2. Inside(h, old)
        BY <1>4, <4>1
      <4> QED BY <2>4, <3>2, <3>3, <4>2 DEF CyclesBetween, old, new
    <3>6. conf'.ded = conf.ded /\ h \notin active
      BY <1>8, <3>2, <3>5
    <3> QED BY <2>4, <3>2, <3>4, <3>6
  <2>5. {d \in conf'.ded : d.to <= new /\ d \notin active'} = {}
          => cstat'.is_ded_time = \E d \in Dedicated : Inside(d, new)
    BY <1>10, <2>1, <2>4
  <2> QED BY <2>3, <1>p, <2>5, Zenon DEF StatusShown, new
<1> QED BY <1>9, <1>10

\* BeginCycle: the clock goes on and the status is updated; after a reload
\* there are no holidays any more and nothing is claimed.
LEMMA BeginCycleStatus ==
  ASSUME ClockForward, CyclesBetween, StatusInv, NEW p \in Procs, BeginCycle(p)
  PROVE  /\ now' \in DOMAIN Moments
         /\ conf' \in [fs : {PrimeFs}, nfs : {NonPrimeFs}, year : BOOLEAN, ded : SUBSET Dedicated]
         /\ conf'.year => StatusKept' /\ StatusShown'
<1> USE DEF StatusInv
<1>1. PICK n \in 1 .. MaxSleep : now' = Later(n)
  BY DEF BeginCycle
<1>2. now' \in DOMAIN Moments /\ now <= now' /\ now' <= now + MaxSleep
  <2>1. DOMAIN Moments = 1 .. Len(Moments) /\ Len(Moments) \in Nat
    BY TimesAssumption
  <2> QED BY <1>1, <2>1, TimesAssumption DEF Later
<1>3. pc[p] = "loop"
  BY DEF BeginCycle
<1>4. /\ conf \in [fs : {PrimeFs}, nfs : {NonPrimeFs}, year : BOOLEAN, ded : SUBSET Dedicated]
      /\ conf.year => StatusKept
  BY <1>3 DEF InLoop
<1> DEFINE c == IF newer THEN ParsedConf ELSE conf
           s == IF newer THEN ZeroStatus ELSE cstat
           u == update_cycle_status(c, s, lastDay, Moments[now'])
<1>5. /\ conf' = u.conf /\ cstat' = u.cstat
      /\ active' = IF u.cstat.is_ded_time THEN active \cup {FirstDed(u.conf.ded)} ELSE active
  BY DEF BeginCycle
<1> DEFINE ded == is_ded_time(c.ded, Moments[now'].time)
           prime == is_prime_time(c.year, lastDay, Moments[now'])
           set == IF prime # s.is_prime THEN Settings(c, prime)
                  ELSE [is_prime |-> s.is_prime, fair_share |-> s.fair_share]
<1>6. /\ conf' = (IF s.is_ded_time /\ ~ded THEN [c EXCEPT !.ded = @ \ {FirstDed(@)}] ELSE c)
      /\ cstat' = [is_prime |-> set.is_prime, fair_share |-> set.fair_share, is_ded_time |-> ded]
  BY <1>5 DEF update_cycle_status
<1>7. active' = IF cstat'.is_ded_time THEN active \cup {FirstDed(conf'.ded)} ELSE active
  BY <1>5
<1>8. ded \in BOOLEAN
  BY DEF is_ded_time, Inside
<1> HIDE DEF u, ded, prime
<1>9. CASE newer
  <2>1. c = ParsedConf /\ s.is_ded_time = FALSE
    BY <1>9 DEF ZeroStatus
  <2>2. conf' = ParsedConf
    BY <1>6, <2>1
  <2> QED BY <1>2, <2>2 DEF ParsedConf
<1>10. CASE ~newer
  <2>1. c = conf /\ s = cstat
    BY <1>10
  <2> HIDE DEF c, s
  <2>2. conf' = (IF cstat.is_ded_time /\ ~ded THEN [conf EXCEPT !.ded = @ \ {FirstDed(@)}] ELSE conf)
    BY <1>6, <2>1
  <2>3. /\ conf' \in [fs : {PrimeFs}, nfs : {NonPrimeFs}, year : BOOLEAN, ded : SUBSET Dedicated]
        /\ conf'.fs = conf.fs /\ conf'.nfs = conf.nfs /\ conf'.year = conf.year
        /\ conf'.ded = (IF cstat.is_ded_time /\ ~ded THEN conf.ded \ {FirstDed(conf.ded)} ELSE conf.ded)
    BY <1>4, <2>2
  <2>4. ASSUME conf.year
        PROVE  StatusKept' /\ StatusShown'
    <3>1. /\ cstat'.is_ded_time = ded
          /\ cstat'.is_prime = prime
          /\ cstat'.fair_share = (IF prime # cstat.is_prime THEN (IF prime THEN conf.fs ELSE conf.nfs)
                                  ELSE cstat.fair_share)
      BY <1>6, <2>1 DEF Settings
    <3>2. prime = is_prime_time(TRUE, lastDay, Moments[now'])
      BY <1>4, <2>1, <2>4 DEF prime
    <3>3. ded = is_ded_time(conf.ded, Moments[now'].time)
      BY <2>1 DEF ded
    <3>4. StatusKept
      BY <1>4, <2>4
    <3>5. active' = IF ded THEN active \cup {FirstDed(conf'.ded)} ELSE active
      BY <1>7, <3>1
    <3> QED BY <1>2, <1>4, <1>8, <2>3, <2>4, <3>1, <3>2, <3>3, <3>4, <3>5, StatusUpdated
  <2> QED BY <1>2, <2>3, <2>4
<1> QED BY <1>9, <1>10

\* schedinit: the status of a daemon that has just started.
LEMMA BootStatus ==
  ASSUME StatusInv, NEW p \in Procs, Boot(p)
  PROVE  /\ conf' \in [fs : {PrimeFs}, nfs : {NonPrimeFs}, year : BOOLEAN, ded : SUBSET Dedicated]
         /\ StatusKept'
<1> USE DEF StatusInv
<1> DEFINE t == Moments[now].time
<1>1. conf' = [ParsedConf EXCEPT !.year = HolidayYear, !.ded = ParseDed(t)]
  BY DEF Boot
<1>2. conf'.fs = PrimeFs /\ conf'.nfs = NonPrimeFs /\ conf'.year = HolidayYear /\ conf'.ded = ParseDed(t)
      /\ conf' = [fs |-> PrimeFs, nfs |-> NonPrimeFs, year |-> HolidayYear, ded |-> ParseDed(t)]
  BY <1>1 DEF ParsedConf
<1>3. HolidayYear \in BOOLEAN /\ ParseDed(t) \subseteq Dedicated
  BY DEF HolidayYear, ParseDed
<1>4. cstat'.is_prime = TRUE /\ cstat'.fair_share = conf'.fs /\ cstat'.is_ded_time = FALSE /\ now' = now
  BY <1>2 DEF Boot, Settings
<1>5. active' = {}
  <2>1. \A q \in Procs : pc[q] \notin InLoop
    <3>1. pc[p] = "ready"
      BY DEF Boot
    <3> QED BY <3>1 DEF LockInv, Locked, Written, InLoop
  <2> QED BY <2>1 DEF Boot
<1>6. \A d \in Dedicated : d \notin ParseDed(t) => d.to <= t
  <2>1. t \in Int /\ \A d \in Dedicated : d.to \in Int
    <3>1. Moments[now] \in Moment
      BY TimesAssumption
    <3> QED BY <3>1, TimesAssumption DEF Moment
  <2> QED BY <2>1 DEF ParseDed
<1>7. conf' \in [fs : {PrimeFs}, nfs : {NonPrimeFs}, year : BOOLEAN, ded : SUBSET Dedicated]
  BY <1>2, <1>3
<1>8. StatusKept'
  BY <1>2, <1>3, <1>4, <1>5, <1>6 DEF StatusKept
<1> QED BY <1>7, <1>8

\* Steps that leave the clock, the configuration and the status alone, and
\* take no process into the loop or on to a cycle.
LEMMA StatusUnchanged ==
  ASSUME StatusInv, LockInv', UNCHANGED statusVars,
         \A p \in Procs : pc'[p] \in InLoop <=> pc[p] \in InLoop,
         \A p \in Procs : pc'[p] \in {"fetch", "slaves", "cycle"} => pc[p] \in {"fetch", "slaves", "cycle"}
  PROVE  StatusInv'
<1>1. (StatusKept <=> StatusKept') /\ (StatusShown <=> StatusShown')
  BY DEF statusVars, StatusKept, StatusShown
<1> QED BY <1>1 DEF StatusInv, statusVars

\* The end of a process that was in the loop clears the status, the end of
\* another one leaves it alone.
LEMMA StatusEnds ==
  ASSUME StatusInv, LockInv', NEW p \in Procs, EndProcess(p), now' = now
  PROVE  StatusInv'
<1> USE DEF StatusInv
<1>1. /\ pc' = [pc EXCEPT ![p] = "gone"]
      /\ \A q \in Procs : q # p => pc'[q] = pc[q]
      /\ pc'[p] = "gone"
  BY DEF EndProcess, LockInv, LockTypes
<1>2. CASE pc[p] \in InLoop
  <2>1. conf' = ParsedConf /\ active' = {}
    BY <1>2 DEF EndProcess
  <2>2. \A q \in Procs : pc'[q] \notin InLoop
    BY <1>1, <1>2, ProcsAssumption DEF LockInv, Locked, Written, InLoop
  <2>3. \A q \in Procs : pc'[q] \notin {"fetch", "slaves", "cycle"}
    BY <2>2 DEF InLoop
  <2> QED BY <2>1, <2>2, <2>3 DEF ParsedConf
<1>3. CASE pc[p] \notin InLoop
  <2>1. UNCHANGED statusVars
    BY <1>3 DEF EndProcess, world, statusVars
  <2>2. \A q \in Procs : /\ pc'[q] \in InLoop <=> pc[q] \in InLoop
                         /\ pc'[q] \in {"fetch", "slaves", "cycle"} => pc[q] \in {"fetch", "slaves", "cycle"}
    BY <1>1, <1>3 DEF InLoop
  <2> QED BY <2>1, <2>2, StatusUnchanged
<1> QED BY <1>2, <1>3

\* Every step keeps the status right.
LEMMA StatusNext ==
  ASSUME ClockForward, CyclesBetween, StatusInv, [Next]_vars
  PROVE  StatusInv'
<1> USE DEF StatusInv
<1>0. LockInv' /\ LockInv
  BY LockNext
<1>t. pc \in [Procs -> Locked \cup {"off", "open", "lock", "gone"}]
  BY DEF LockInv, LockTypes
<1>1. CASE UNCHANGED vars
  BY <1>0, <1>1, StatusUnchanged DEF vars, process, world, statusVars
<1>2. ASSUME NEW p \in Procs, Launch(p) \/ Step(p) \/ Throw(p) \/ Signal(p)
      PROVE  StatusInv'
  <2>1. CASE BeginCycle(p)
    <3>1. \A q \in Procs : pc[q] \in InLoop => q = p
      <4>1. pc[p] \in InLoop
        BY <2>1 DEF BeginCycle, InLoop
      <4> QED BY <1>0, <4>1 DEF LockInv, Locked, Written, InLoop
    <3>2. pc'[p] = "fetch" /\ \A q \in Procs : q # p => pc'[q] = pc[q]
      BY <1>t, <2>1 DEF BeginCycle
    <3>3. /\ now' \in DOMAIN Moments
          /\ conf' \in [fs : {PrimeFs}, nfs : {NonPrimeFs}, year : BOOLEAN, ded : SUBSET Dedicated]
          /\ conf'.year => StatusKept' /\ StatusShown'
      BY <2>1, BeginCycleStatus
    <3>4. ~(\A q \in Procs : pc'[q] \notin InLoop)
      BY <3>2 DEF InLoop
    <3> QED BY <1>0, <3>3, <3>4
  <2>2. CASE Boot(p)
    <3>1. pc[p] = "ready" /\ pc'[p] = "loop" /\ (\A q \in Procs : q # p => pc'[q] = pc[q]) /\ now' = now
      BY <1>t, <2>2 DEF Boot
    <3>2. \A q \in Procs : q # p => pc[q] \notin InLoop
      BY <1>0, <3>1 DEF LockInv, Locked, Written, InLoop
    <3>3. /\ conf' \in [fs : {PrimeFs}, nfs : {NonPrimeFs}, year : BOOLEAN, ded : SUBSET Dedicated]
          /\ StatusKept'
      BY <2>2, BootStatus
    <3>4. \A q \in Procs : pc'[q] \notin {"fetch", "slaves", "cycle"}
      BY <3>1, <3>2 DEF InLoop
    <3>5. ~(\A q \in Procs : pc'[q] \notin InLoop)
      BY <3>1 DEF InLoop
    <3> QED BY <1>0, <3>1, <3>3, <3>4, <3>5
  <2>3. CASE Exit(p)
    BY <1>0, <2>3, StatusEnds DEF Exit
  <2>4. CASE Signal(p)
    <3>1. CASE EndProcess(p)
      BY <1>0, <2>4, <3>1, StatusEnds DEF Signal
    <3>2. CASE ~EndProcess(p)
      BY <1>0, <2>4, <3>2, StatusUnchanged DEF Signal, world, statusVars
    <3> QED BY <3>1, <3>2
  <2>5. CASE \/ Launch(p) \/ OpenLock(p) \/ TakeLock(p) \/ WritePid(p) \/ setup_signals(p)
             \/ FetchMaster(p) \/ FetchSlave(p) \/ FetchDone(p) \/ EndCycle(p) \/ Throw(p) \/ Retry(p)
    <3>1. UNCHANGED statusVars
      BY <2>5 DEF Launch, OpenLock, TakeLock, WritePid, setup_signals, FetchMaster, FetchSlave, FetchDone,
                  EndCycle, Throw, Retry, world, statusVars
    <3>2. \/ pc' = pc
          \/ \E to : /\ pc' = [pc EXCEPT ![p] = to]
                     /\ \/ pc[p] \in {"off", "open", "lock", "write", "signals"}
                           /\ to \in {"open", "lock", "write", "signals", "ready", "gone"}
                        \/ pc[p] \in {"fetch", "slaves"} /\ to \in {"slaves", "loop", "cycle"}
                        \/ pc[p] \in {"cycle", "pause"} /\ to \in {"loop", "pause"}
      BY <2>5 DEF Launch, OpenLock, TakeLock, WritePid, setup_signals, FetchMaster, FetchSlave, FetchDone,
                  EndCycle, Throw, Retry
    <3>3. \A q \in Procs : /\ pc'[q] \in InLoop <=> pc[q] \in InLoop
                           /\ pc'[q] \in {"fetch", "slaves", "cycle"} => pc[q] \in {"fetch", "slaves", "cycle"}
      BY <1>t, <3>2 DEF InLoop
    <3> QED BY <1>0, <3>1, <3>3, StatusUnchanged
  <2> QED BY <1>2, <2>1, <2>2, <2>3, <2>4, <2>5 DEF Step
<1>3. ASSUME NEW s \in Servers, ServerDown(s) \/ ServerUp(s)
      PROVE  StatusInv'
  BY <1>0, <1>3, StatusUnchanged DEF ServerDown, ServerUp, process, world, statusVars
<1>4. CASE EditConfig
  BY <1>0, <1>4, StatusUnchanged DEF EditConfig, process, world, statusVars
<1> QED BY <1>1, <1>2, <1>3, <1>4 DEF Next

\* For any holidays, any dedicated times and any times of the cycles, as long
\* as the clock is not set back and a cycle falls between two dedicated times:
\* update_cycle_status shows prime time, fair share and dedicated time right
\* in all cycles until the configuration is reloaded.
THEOREM StatusRightAlways == ASSUME ClockForward, CyclesBetween PROVE Spec => []StatusRight
<1>1. Init /\ LockInv => StatusInv
  <2> SUFFICES ASSUME Init, LockInv PROVE StatusInv
    OBVIOUS
  <2>1. now \in DOMAIN Moments
    BY TimesAssumption DEF Init
  <2>2. conf \in [fs : {PrimeFs}, nfs : {NonPrimeFs}, year : BOOLEAN, ded : SUBSET Dedicated] /\ active = {}
    BY DEF Init, ParsedConf
  <2>3. \A p \in Procs : pc[p] \notin InLoop /\ pc[p] \notin {"fetch", "slaves", "cycle"}
    BY DEF Init, InLoop
  <2> QED BY <2>1, <2>2, <2>3 DEF StatusInv
<1>2. StatusInv /\ [Next]_vars => StatusInv'
  BY StatusNext
<1>3. StatusInv => StatusRight
  <2> SUFFICES ASSUME StatusInv, NEW p \in Procs, pc[p] \in {"fetch", "slaves", "cycle"}, conf.year
               PROVE  StatusKept /\ StatusShown
    BY DEF StatusRight, StatusKept, StatusShown
  <2> QED BY DEF StatusInv, InLoop
<1> QED BY <1>1, <1>2, <1>3, LockInit, PTL DEF Spec
=============================================================================
