----------------------------- MODULE Fairshare -----------------------------
(***************************************************************************)
(* The fairshare usages: World::update_fairshare (SchedulerRealm.cpp), the *)
(* usage tree and its files (logic/FairshareTree.cpp) and the file with    *)
(* the time of the last decay, over cycles, exceptions, crashes and        *)
(* restarts.                                                               *)
(*                                                                         *)
(* The usages live in memory.  update_fairshare charges the jobs of the    *)
(* previous cycle, halves all usages once per half-life and stores that    *)
(* time in last_decay at once; the usages are stored in usage.<tree> and   *)
(* usage.<tree>.ini when sync_time has passed and when plan_run ends.      *)
(* Fair share is switched on, and plan_run sleeps at the head of a cycle,  *)
(* so the clock moves between cycles; it is read once per cycle.           *)
(***************************************************************************)
EXTENDS Integers, FiniteSets, Functions

CONSTANTS
  NumUsers,      \* the leaves of the tree, numbered in the order of the files
  Jobs,
  Owner,         \* the user of a job
  Procs,         \* resource procs of a job
  HalfLife, SyncTime,
  Slack,         \* 5*60 in the code
  StartTime,     \* clock at installation
  MaxTime,       \* bound on the clock
  SavedUsage,    \* usages stored at installation
  StoredDecay,   \* time in last_decay at installation, or -1 without that file
  Exceptions,    \* planning may throw
  Crashes,       \* the daemon may crash
  Torn           \* a crash may fall inside the writing of a file

ASSUME FairshareAssumption ==
  /\ IsFiniteSet(Jobs)
  /\ NumUsers \in Nat /\ HalfLife \in Nat \ {0} /\ SyncTime \in Nat /\ Slack \in Nat
  /\ Procs \in [Jobs -> Nat] /\ Owner \in [Jobs -> 1 .. NumUsers]
  /\ StartTime \in Nat /\ MaxTime \in Nat /\ StoredDecay \in -1 .. StartTime
  /\ SavedUsage \in [1 .. NumUsers -> Nat \ {0}]
  /\ {Exceptions, Crashes, Torn} \subseteq BOOLEAN

Users == 1 .. NumUsers

VARIABLES
  now,          \* the clock, cstat.current_time during a cycle
  job,          \* state and used walltime of every job, at the server
  pc,           \* phase of the daemon
  info,         \* the jobs as fetched in this cycle
  usage, temp,  \* usage and temp_usage of the users
  lastRunning,  \* p_last_running: recorded walltime of the jobs that ran
  lastSync,     \* last_sync
  newDecay,     \* the local variable last_decay, once a decay has happened
  oldFile, iniFile, decayFile,
  decays,       \* history: half-lives applied to the usages in memory
  spent,        \* history: walltime that each job has really used
  charged,      \* history: walltime that was charged for each job
  rerun,        \* history: jobs that started again while lastRunning still had them
  clean,        \* history: the daemon ended after write_usages
  garbage       \* history: last_decay was read from the empty file

memVars  == <<usage, temp, lastRunning, lastSync, decays>>
fileVars == <<oldFile, iniFile, decayFile>>
jobVars  == <<job, spent, rerun>>
vars == <<now, jobVars, pc, info, memVars, newDecay, fileVars, charged, clean, garbage>>

\* Contents of last_decay when it does not exist or is empty.
Missing == -1
Empty   == -2

\* What a usage file holds: the usages (1 for a user without a line; users
\* with usage 1 get none).  A bad ini file cannot be parsed.  As history, how
\* many half-lives the usages contain and whether the file was written whole.
Saved(us, n) == [usage |-> us, bad |-> FALSE, decays |-> n, whole |-> TRUE]

Init ==
  /\ now = StartTime
  /\ job = [j \in Jobs |-> [st |-> "Q", used |-> 0]]
  /\ pc = "down"
  /\ info = job
  /\ usage = SavedUsage /\ temp = SavedUsage
  /\ lastRunning = [j \in {} |-> 0] /\ lastSync = StartTime /\ newDecay = 0
  /\ oldFile = Saved(SavedUsage, 0) /\ iniFile = oldFile
  /\ decayFile = StoredDecay
  /\ decays = 0
  /\ rerun = {} /\ spent = [j \in Jobs |-> 0] /\ charged = [j \in Jobs |-> 0]
  /\ clean = TRUE /\ garbage = FALSE
-----------------------------------------------------------------------------
(***************************************************************************)
(* The clock and the servers.  Their steps during a cycle commute with the *)
(* steps of the daemon up to the end of the cycle.                         *)
(***************************************************************************)

Between == pc \in {"idle", "awake", "pause", "down"}

\* Time passes; plan_run's sleep is over after at least one unit.
Tick ==
  /\ Between /\ now < MaxTime
  /\ now' = now + 1
  /\ job' = [j \in Jobs |-> IF job[j].st = "R" THEN [job[j] EXCEPT !.used = @ + 1] ELSE job[j]]
  /\ spent' = [j \in Jobs |-> IF job[j].st = "R" THEN spent[j] + 1 ELSE spent[j]]
  /\ pc' = IF pc = "idle" THEN "awake" ELSE pc
  /\ UNCHANGED <<rerun, info, memVars, newDecay, fileVars, charged, clean, garbage>>

JobStep(j, from, to) ==
  /\ Between /\ job[j].st = from
  /\ job' = [job EXCEPT ![j] = to]
  /\ UNCHANGED <<now, spent, pc, info, memVars, newDecay, fileVars, charged, clean, garbage>>

\* A job that starts, again, has used no walltime.  lastRunning still has its
\* earlier run when no cycle has ended since the job was requeued: it was quick,
\* or the cycles in between threw.
Start(j) ==
  /\ JobStep(j, "Q", [st |-> "R", used |-> 0])
  /\ rerun' = IF j \in DOMAIN lastRunning THEN rerun \cup {j} ELSE rerun

Requeue(j)  == JobStep(j, "R", [job[j] EXCEPT !.st = "Q"]) /\ UNCHANGED rerun
Complete(j) == JobStep(j, "R", [job[j] EXCEPT !.st = "C"]) /\ UNCHANGED rerun
-----------------------------------------------------------------------------
(***************************************************************************)
(* update_fairshare.                                                       *)
(***************************************************************************)

\* The jobs of the last cycle that are charged, and the walltime since then.
Charged == {j \in DOMAIN lastRunning : job[j].st \in {"R", "C"}}
Since(j) == job[j].used - lastRunning[j]

\* The jobs are fetched and those that ran in the last cycle are charged.
Charge ==
  /\ pc = "awake" /\ pc' = "decay"
  /\ info' = job
  /\ LET worth == [j \in Charged |-> (Since(j) + Slack) * Procs[j]]
     IN usage' = [u \in Users |->
          usage[u] + SumFunctionOnSet(worth, {j \in Charged : Owner[j] = u})]
  /\ temp' = [u \in Users |->
       IF \E j \in DOMAIN lastRunning : Owner[j] = u THEN usage'[u] ELSE temp[u]]
  /\ charged' = [j \in Jobs |-> IF j \in Charged THEN charged[j] + Since(j) ELSE charged[j]]
  /\ UNCHANGED <<now, jobVars, lastRunning, lastSync, decays, newDecay, fileVars, clean, garbage>>

\* Mutant of decay_tree: a usage of 1 decays to 0.
decay_tree_to_zero(us) == [u \in Users |-> us[u] \div 2]

\* One decay; the division truncates.
decay_tree(us) ==
  [u \in Users |-> CASE us[u] > 1  -> us[u] \div 2
                     [] us[u] < -1 -> -((-us[u]) \div 2)
                     [] OTHER      -> 1]

\* Mutant of Decays: the loop runs once too often.
DecaysOnceMore(last) == Cardinality({n \in 0 .. MaxTime : now - n * HalfLife - last >= 0})

\* How often the loop of update_fairshare decays the trees.
Decays(last) == Cardinality({n \in 0 .. MaxTime : now - n * HalfLife - last > HalfLife})

\* The usages after n decays.
Decayed(n) ==
  LET tree[k \in 0 .. n] == IF k = 0 THEN usage ELSE decay_tree(tree[k - 1])
  IN tree[n]

\* The value of the local variable last_decay: nothing is extracted from an
\* empty file, and the variable keeps whatever it held.
LastDecay ==
  CASE decayFile = Missing -> {0}
    [] decayFile = Empty   -> 0 .. MaxTime
    [] OTHER               -> {decayFile}

\* Mutant of NewDecay: the next half-life starts now.
NewDecayNow(last) == now

\* "set the time to the acuall the half-life should have occured"
NewDecay(last) == now - ((now - last) % HalfLife)

Decay ==
  /\ pc = "decay"
  /\ \E last \in LastDecay :
       LET n == Decays(last)
       IN /\ usage' = Decayed(n) /\ decays' = decays + n
          /\ IF n > 0 THEN newDecay' = NewDecay(last) /\ pc' = "decayFile"
                      ELSE newDecay' = 0 /\ pc' = "sync"
  /\ garbage' = (garbage \/ decayFile = Empty)
  /\ UNCHANGED <<now, jobVars, info, temp, lastRunning, lastSync, fileVars, charged, clean>>

WriteDecayFile ==
  /\ pc = "decayFile" /\ pc' = "sync"
  /\ decayFile' = newDecay /\ newDecay' = 0
  /\ UNCHANGED <<now, jobVars, info, memVars, oldFile, iniFile, charged, clean, garbage>>

\* The usages are stored when sync_time has passed.
SyncTest ==
  /\ pc = "sync"
  /\ pc' = IF now - lastSync > SyncTime THEN "old" ELSE "plan"
  /\ UNCHANGED <<now, jobVars, info, memVars, newDecay, fileVars, charged, clean, garbage>>

\* write_usages: dump_to_file, then dump_to_ini.
WriteOld ==
  /\ pc \in {"old", "exitOld"}
  /\ oldFile' = Saved(usage, decays)
  /\ pc' = IF pc = "old" THEN "ini" ELSE "exitIni"
  /\ UNCHANGED <<now, jobVars, info, memVars, newDecay, iniFile, decayFile, charged, clean, garbage>>

\* Mutant of WriteIni: temp_usage is stored.
WriteIniTemp ==
  /\ pc \in {"ini", "exitIni"}
  /\ iniFile' = Saved(temp, decays)
  /\ IF pc = "ini" THEN pc' = "plan" /\ lastSync' = now /\ UNCHANGED clean
                   ELSE pc' = "down" /\ clean' = TRUE /\ UNCHANGED lastSync
  /\ UNCHANGED <<now, jobVars, info, usage, temp, lastRunning, decays, newDecay,
                 oldFile, decayFile, charged, garbage>>

WriteIni ==
  /\ pc \in {"ini", "exitIni"}
  /\ iniFile' = Saved(usage, decays)
  /\ IF pc = "ini" THEN pc' = "plan" /\ lastSync' = now /\ UNCHANGED clean
                   ELSE pc' = "down" /\ clean' = TRUE /\ UNCHANGED lastSync
  /\ UNCHANGED <<now, jobVars, info, usage, temp, lastRunning, decays, newDecay,
                 oldFile, decayFile, charged, garbage>>
-----------------------------------------------------------------------------
(***************************************************************************)
(* The rest of the cycle, start and end of the daemon.                     *)
(***************************************************************************)

\* update_last_running, at the end of a cycle.
UpdateLastRunning ==
  /\ pc = "plan" /\ pc' = "idle"
  /\ lastRunning' = [j \in {i \in Jobs : info[i].st = "R"} |-> info[j].used]
  /\ UNCHANGED <<now, jobVars, info, usage, temp, lastSync, decays, newDecay, fileVars, charged, clean, garbage>>

\* fetch_servers has failed: the loop of plan_run continues with its sleep.
FetchFails ==
  /\ pc = "awake" /\ pc' = "idle"
  /\ UNCHANGED <<now, jobVars, info, memVars, newDecay, fileVars, charged, clean, garbage>>

\* plan_run's catch: fetching, planning or the opening of a usage file has
\* thrown, and main pauses.  When the last write_usages throws main ends.
Exception ==
  /\ Exceptions
  /\ \/ pc \in {"awake", "plan", "old", "ini"} /\ pc' = "pause" /\ UNCHANGED clean
     \/ pc \in {"exitOld", "exitIni"} /\ pc' = "down" /\ clean' = FALSE
  /\ UNCHANGED <<now, jobVars, info, memVars, newDecay, fileVars, charged, garbage>>

\* main calls plan_run again.
Retry ==
  /\ pc = "pause" /\ pc' = "idle"
  /\ UNCHANGED <<now, jobVars, info, memVars, newDecay, fileVars, charged, clean, garbage>>

\* main finds scheduler_not_dying false before it calls plan_run again: nothing
\* is written.
EndInPause ==
  /\ pc = "pause" /\ pc' = "down" /\ clean' = FALSE
  /\ UNCHANGED <<now, jobVars, info, memVars, newDecay, fileVars, charged, garbage>>

\* scheduler_not_dying is false at the head of plan_run's loop.
Exit ==
  /\ pc = "idle" /\ pc' = "exitOld"
  /\ UNCHANGED <<now, jobVars, info, memVars, newDecay, fileVars, charged, clean, garbage>>

\* What a crash leaves of a file of which the lines of the users 1 .. k have
\* been written: the others read as 1, or the file cannot be parsed.
Prefix(k, bad) ==
  [usage |-> [u \in Users |-> IF u <= k THEN usage[u] ELSE 1], bad |-> bad,
   decays |-> decays, whole |-> k = NumUsers /\ ~bad]

\* A crash, also one that interrupts a write: every file is truncated first.
Crash ==
  /\ Crashes /\ pc # "down" /\ pc' = "down" /\ clean' = FALSE
  /\ \/ UNCHANGED fileVars
     \/ /\ Torn /\ pc = "decayFile"
        /\ decayFile' = Empty /\ UNCHANGED <<oldFile, iniFile>>
     \/ /\ Torn /\ pc \in {"old", "exitOld"}
        /\ \E k \in 0 .. NumUsers : oldFile' = Prefix(k, FALSE)
        /\ UNCHANGED <<iniFile, decayFile>>
     \/ /\ Torn /\ pc \in {"ini", "exitIni"}
        /\ \E k \in 0 .. NumUsers, b \in BOOLEAN : iniFile' = Prefix(k, b)
        /\ UNCHANGED <<oldFile, decayFile>>
  /\ newDecay' = 0
  /\ UNCHANGED <<now, jobVars, info, memVars, charged, garbage>>

\* The old file is read only when the ini file cannot be.
read_usage == IF iniFile.bad THEN oldFile ELSE iniFile

\* schedinit.
Boot ==
  /\ pc = "down" /\ pc' = "idle"
  /\ usage' = read_usage.usage /\ temp' = usage' /\ decays' = read_usage.decays
  /\ lastRunning' = [j \in {} |-> 0] /\ lastSync' = now
  /\ UNCHANGED <<now, jobVars, info, newDecay, fileVars, charged, clean, garbage>>

Next ==
  \/ Tick \/ \E j \in Jobs : Start(j) \/ Requeue(j) \/ Complete(j)
  \/ Charge \/ Decay \/ WriteDecayFile \/ SyncTest \/ WriteOld \/ WriteIni
  \/ UpdateLastRunning \/ FetchFails \/ Exception \/ Retry \/ EndInPause \/ Exit \/ Crash \/ Boot

Spec == Init /\ [][Next]_vars
-----------------------------------------------------------------------------
(***************************************************************************)
(* Properties.                                                             *)
(***************************************************************************)

UsageFile == [usage : [Users -> Int], bad : BOOLEAN, decays : Nat, whole : BOOLEAN]

\* Types of the daemon's variables, of the files and of the histories.
TypeOK ==
  /\ now \in Nat
  /\ job \in [Jobs -> [st : {"Q", "R", "C"}, used : Nat]]
  /\ info \in [Jobs -> [st : {"Q", "R", "C"}, used : Nat]]
  /\ pc \in {"down", "idle", "awake", "decay", "decayFile", "sync", "old", "ini", "plan",
             "exitOld", "exitIni", "pause"}
  /\ usage \in [Users -> Int] /\ temp \in [Users -> Int]
  /\ DOMAIN lastRunning \subseteq Jobs /\ \A j \in DOMAIN lastRunning : lastRunning[j] \in Nat
  /\ lastSync \in Nat /\ newDecay \in Nat /\ decays \in Nat
  /\ oldFile \in UsageFile /\ iniFile \in UsageFile /\ decayFile \in Nat \cup {Missing, Empty}
  /\ rerun \subseteq Jobs /\ spent \in [Jobs -> Nat] /\ charged \in [Jobs -> Int] /\ {clean, garbage} \subseteq BOOLEAN

\* No job of the user has started again before a cycle forgot its earlier run.
Regular(u) == \A j \in rerun : Owner[j] # u

\* The priority of a user, percentage / usage, is defined and positive: no
\* sequence of charges, decays, exceptions, crashes and restarts takes the usage
\* of a user below 1.  The owner of a job that has started again while
\* p_last_running still had its earlier run is excepted, for that job's next
\* charge may be negative; all other users are not affected by it.
UsagePositive == \A u \in Users : Regular(u) => usage[u] >= 1 /\ temp[u] >= 1

\* The half-lives counted from the last decay before the installation.
Origin == IF StoredDecay = Missing THEN 0 ELSE StoredDecay
HalfLivesOf(t) == (t - Origin) \div HalfLife

\* The usages, in memory and in the files, never contain more half-lives than
\* last_decay says, so that a crash between the writing of last_decay and of
\* the usages never makes the next start decay them a second time.  A crash
\* that leaves last_decay empty is excepted: the next start reads anything.
NotDecayedTwice ==
  decayFile >= 0 /\ ~garbage =>
    /\ iniFile.decays <= HalfLivesOf(decayFile) /\ oldFile.decays <= HalfLivesOf(decayFile)
    /\ pc \notin {"decayFile", "down"} => decays <= HalfLivesOf(decayFile)

\* After the decay loop of update_fairshare no half-life is overdue, however
\* long the daemon was down, and the half-lives still end at the times at
\* which they would have ended without any pause.
DecayInTime ==
  pc \in {"sync", "old", "ini", "plan"} /\ ~garbage =>
    LET last == IF decayFile = Missing THEN 0 ELSE decayFile
    IN now - last <= HalfLife /\ (last - Origin) % HalfLife = 0

\* "add the usage which was accumulated between the last cycle and this one":
\* no walltime of a job is charged to its owner twice.
ChargedOnce == \A j \in Jobs : charged[j] <= spent[j]

\* A daemon that found scheduler_not_dying false at the head of plan_run's loop
\* and has got through write_usages starts again with the usages it had.  The
\* other ends lose what was charged since the last sync: a crash, a signal in
\* the pause after an exception and a final write_usages that throws.
CleanRestart == [][Boot /\ clean => usage' = usage]_vars

\* "initialize the last_decay to the current time, since we do not know when
\* the last decay happened": the usages are not decayed before a half-life has
\* passed since the daemon was first started.
NoEarlyDecay == now - StartTime <= HalfLife => decays = 0

\* temp_usage is "usage plus any temporary usage", and plan_run adds none: the
\* jobs are sorted by the usages as they are.
TempIsUsage == pc = "plan" => temp = usage

\* "if we didn't manage to read the configuration, fall back to old file
\* format": what read_usage takes over was written completely.
ReadsWholeFile == pc = "down" => read_usage.whole
=============================================================================
