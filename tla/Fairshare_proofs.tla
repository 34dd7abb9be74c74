-------------------------- MODULE Fairshare_proofs --------------------------
(***************************************************************************)
(* Proofs about Fairshare, for any number of users and jobs, any half-life *)
(* and any time for which the daemon is down: types, positive usages,      *)
(* decays that are neither repeated nor late, and restarts after a         *)
(* complete end that lose nothing.                                         *)
(***************************************************************************)
EXTENDS Fairshare, BaseLemmas
-----------------------------------------------------------------------------
(***************************************************************************)
(* Arithmetic of the half-lives.                                           *)
(***************************************************************************)

\* Integer division.
LEMMA DivMod ==
  ASSUME NEW x \in Int, NEW h \in Nat \ {0}
  PROVE  x \div h \in Int /\ x % h \in 0 .. h - 1 /\ x = (x \div h) * h + (x % h)
OBVIOUS

\* A whole number of half-lives.
LEMMA MultDiv ==
  ASSUME NEW a \in Int, NEW h \in Nat \ {0}
  PROVE  (a * h) \div h = a /\ (a * h) % h = 0
OBVIOUS

\* A product with a positive factor is monotonic.
LEMMA MultLess ==
  ASSUME NEW a \in Int, NEW b \in Int, NEW h \in Nat \ {0}, a * h < b * h
  PROVE  a < b
OBVIOUS

\* The decay loop runs at most once per half-life that has passed, and it runs
\* when more than one has passed.
LEMMA DecaysBound ==
  ASSUME now \in Nat, NEW last \in Nat
  PROVE  /\ Decays(last) \in Nat
         /\ Decays(last) = 0 => now - last <= HalfLife
         /\ Decays(last) > 0 => /\ now - last > HalfLife
                                /\ Decays(last) <= (now - last) \div HalfLife
<1> DEFINE h == HalfLife
           S == {n \in 0 .. MaxTime : now - n * h - last > h}
           q == (now - last) \div h
           r == (now - last) % h
<1>1. h \in Nat \ {0} /\ MaxTime \in Nat
  BY FairshareAssumption
<1>2. q \in Int /\ r \in 0 .. h - 1 /\ now - last = q * h + r
  <2>1. now - last \in Int
    OBVIOUS
  <2> QED BY <1>1, <2>1, DivMod, Zenon
<1>3. Decays(last) = Cardinality(S)
  BY DEF Decays
<1>4. IsFiniteSet(S) /\ Cardinality(S) \in Nat
  <2>1. IsFiniteSet(0 .. MaxTime)
    BY <1>1, FS_Interval
  <2> QED BY <2>1, FS_Subset, FS_CardinalityType
<1>5. ASSUME NEW n \in S PROVE n \in 0 .. q - 1 /\ now - last > h
  <2>1. n \in Nat /\ now - last > n * h + h
    BY <1>1, <1>5
  <2> HIDE DEF q, r, h, S
  <2>2. n * h + h = (n + 1) * h /\ n * h \in Nat
    BY <1>1, <2>1
  <2>3. (n + 1) * h < (q + 1) * h
    BY <1>1, <1>2, <2>1, <2>2
  <2>4. n + 1 < q + 1
    BY <1>1, <1>2, <2>1, <2>3, MultLess
  <2> QED BY <1>1, <1>2, <2>1, <2>2, <2>4
<1>6. Cardinality(S) = 0 => now - last <= h
  <2>1. SUFFICES ASSUME Cardinality(S) = 0, now - last > h PROVE FALSE
    BY <1>1
  <2>2. 0 \in S
    BY <1>1, <2>1
  <2> QED BY <1>4, <2>1, <2>2, FS_EmptySet
<1>7. Cardinality(S) > 0 => now - last > h /\ Cardinality(S) <= q
  <2>1. SUFFICES ASSUME Cardinality(S) > 0 PROVE now - last > h /\ Cardinality(S) <= q
    OBVIOUS
  <2> HIDE DEF S, q
  <2>2. S # {}
    BY <2>1, FS_EmptySet
  <2>3. PICK n \in S : TRUE
    BY <2>2
  <2>4. n \in 0 .. q - 1 /\ now - last > h
    BY <1>5
  <2>5. S \subseteq 0 .. q - 1
    BY <1>5
  <2>6. IsFiniteSet(0 .. q - 1) /\ Cardinality(0 .. q - 1) = q
    <3>1. q - 1 \in Int /\ 0 \in Int /\ ~ (0 > q - 1) /\ (q - 1) - 0 + 1 = q
      BY <1>2, <2>4
    <3> QED BY <3>1, FS_Interval, Zenon
  <2>7. Cardinality(S) <= Cardinality(0 .. q - 1)
    <3>1. S \in SUBSET (0 .. q - 1)
      BY <2>5
    <3> QED BY <2>6, <3>1, FS_Subset, Zenon
  <2> QED BY <2>4, <2>6, <2>7
<1> HIDE DEF S
<1> QED BY <1>3, <1>4, <1>6, <1>7

\* The new value of last_decay is a whole number of half-lives after the old
\* one, as many as have passed, and less than one before now.
LEMMA NewDecayWhole ==
  ASSUME now \in Nat, NEW last \in Nat, NEW o \in Nat, o <= last, (last - o) % HalfLife = 0,
         now - last > HalfLife
  PROVE  /\ NewDecay(last) \in Nat /\ o <= NewDecay(last)
         /\ NewDecay(last) <= now /\ now - NewDecay(last) <= HalfLife
         /\ (NewDecay(last) - o) % HalfLife = 0
         /\ (NewDecay(last) - o) \div HalfLife =
              (last - o) \div HalfLife + (now - last) \div HalfLife
<1> DEFINE h == HalfLife
           q == (now - last) \div h
           r == (now - last) % h
           a == (last - o) \div h
<1>1. h \in Nat \ {0}
  BY FairshareAssumption
<1>2. q \in Int /\ r \in 0 .. h - 1 /\ now - last = q * h + r
  <2>1. now - last \in Int
    OBVIOUS
  <2> QED BY <1>1, <2>1, DivMod, Zenon
<1>3. a \in Int /\ last - o = a * h + ((last - o) % h)
  <2>1. last - o \in Int
    OBVIOUS
  <2> QED BY <1>1, <2>1, DivMod, Zenon
<1>4. last - o = a * h
  <2> HIDE DEF a
  <2> QED BY <1>1, <1>3
<1>5. NewDecay(last) = now - r
  BY DEF NewDecay
<1> HIDE DEF q, r, a
<1>6. NewDecay(last) - o = (a + q) * h
  <2>1. (a + q) * h = a * h + q * h /\ a * h \in Int /\ q * h \in Int
    BY <1>1, <1>2, <1>3
  <2>2. r \in Int
    BY <1>1, <1>2
  <2> HIDE DEF h
  <2> QED BY <1>2, <1>4, <1>5, <2>1, <2>2
<1>7. (NewDecay(last) - o) \div h = a + q /\ (NewDecay(last) - o) % h = 0
  <2>1. PICK c \in Int : c = a + q
    BY <1>2, <1>3
  <2>2. (c * h) \div h = c /\ (c * h) % h = 0
    BY <1>1, MultDiv, Zenon
  <2>3. NewDecay(last) - o = c * h
    BY <1>6, <2>1, Zenon
  <2> QED BY <2>1, <2>2, <2>3, Zenon
<1>8. /\ NewDecay(last) \in Nat /\ o <= NewDecay(last)
      /\ NewDecay(last) <= now /\ now - NewDecay(last) <= h
  BY <1>1, <1>2, <1>5
<1> QED BY <1>7, <1>8 DEF a, q
-----------------------------------------------------------------------------
(***************************************************************************)
(* What a decay and a charge do to the usages.                             *)
(***************************************************************************)

\* Usages of 1 and more stay so, any integers stay integers.
LEMMA DecayTree ==
  ASSUME NEW us \in [Users -> Int]
  PROVE  /\ decay_tree(us) \in [Users -> Int]
         /\ \A u \in Users : us[u] >= 1 => decay_tree(us)[u] >= 1
<1>1. ASSUME NEW u \in Users
      PROVE  decay_tree(us)[u] \in Int /\ (us[u] >= 1 => decay_tree(us)[u] >= 1)
  <2>1. us[u] \in Int
    OBVIOUS
  <2>2. decay_tree(us)[u] = CASE us[u] > 1  -> us[u] \div 2
                              [] us[u] < -1 -> -((-us[u]) \div 2)
                              [] OTHER      -> 1
    BY DEF decay_tree
  <2>3. CASE us[u] > 1
    BY <2>1, <2>2, <2>3
  <2>4. CASE us[u] < -1
    BY <2>1, <2>2, <2>4
  <2>5. CASE ~ (us[u] > 1) /\ ~ (us[u] < -1)
    BY <2>1, <2>2, <2>5
  <2> QED BY <2>3, <2>4, <2>5
<1>2. decay_tree(us) = [u \in Users |-> decay_tree(us)[u]]
  BY DEF decay_tree
<1> QED BY <1>1, <1>2

\* So do n decays, whatever n is.
LEMMA DecayedUsages ==
  ASSUME usage \in [Users -> Int], NEW n \in Nat
  PROVE  /\ Decayed(n) \in [Users -> Int]
         /\ \A u \in Users : usage[u] >= 1 => Decayed(n)[u] >= 1
<1> DEFINE Tree(m, g) == g = [k \in 0 .. m |-> IF k = 0 THEN usage ELSE decay_tree(g[k - 1])]
           E == {m \in Nat : \E g : Tree(m, g)}
<1>1. \A m \in Nat : m \in E
  <2>1. 0 \in E
    <3>1. Tree(0, [k \in 0 .. 0 |-> usage])
      OBVIOUS
    <3> QED BY <3>1
  <2>2. ASSUME NEW m \in Nat, m \in E PROVE m + 1 \in E
    <3>1. PICK g : Tree(m, g)
      BY <2>2
    <3> DEFINE t == [k \in 0 .. m + 1 |-> IF k = m + 1 THEN decay_tree(g[m]) ELSE g[k]]
    <3>2. ASSUME NEW k \in 0 .. m + 1
          PROVE  t[k] = IF k = 0 THEN usage ELSE decay_tree(t[k - 1])
      <4>1. CASE k = m + 1
        BY <4>1
      <4>2. CASE k # m + 1
        <5>1. k \in 0 .. m
          BY <4>2
        <5> HIDE DEF Tree
        <5>2. g[k] = IF k = 0 THEN usage ELSE decay_tree(g[k - 1])
          BY <3>1, <5>1 DEF Tree
        <5> QED BY <5>1, <5>2, <4>2
      <4> QED BY <4>1, <4>2
    <3>3. Tree(m + 1, t)
      BY <3>2
    <3> HIDE DEF Tree, t
    <3> QED BY <3>3
  <2> HIDE DEF E
  <2> QED BY <2>1, <2>2, SetInduction
<1> DEFINE tree == CHOOSE g : Tree(n, g)
<1>2. Tree(n, tree)
  BY <1>1
<1>3. Decayed(n) = tree[n]
  BY DEF Decayed
<1> HIDE DEF tree
<1>4. \A k \in 0 .. n : tree[k] = IF k = 0 THEN usage ELSE decay_tree(tree[k - 1])
  BY <1>2
<1> DEFINE Good(us) == us \in [Users -> Int] /\ \A u \in Users : usage[u] >= 1 => us[u] >= 1
           P == {k \in Nat : k <= n => Good(tree[k])}
<1>5. \A us : Good(us) => Good(decay_tree(us))
  BY DecayTree
<1>6. Good(usage)
  OBVIOUS
<1> HIDE DEF Good
<1>7. 0 \in P
  BY <1>4, <1>6
<1>8. ASSUME NEW k \in Nat, k \in P PROVE k + 1 \in P
  <2>1. SUFFICES ASSUME k + 1 <= n PROVE Good(tree[k + 1])
    OBVIOUS
  <2>2. k + 1 \in 0 .. n /\ k + 1 # 0 /\ (k + 1) - 1 = k /\ k <= n
    BY <2>1
  <2>3. tree[k + 1] = decay_tree(tree[k])
    BY <1>4, <2>2
  <2>4. Good(tree[k])
    BY <1>8, <2>2
  <2> QED BY <1>5, <2>3, <2>4
<1> HIDE DEF P
<1>9. n \in P
  BY <1>7, <1>8, SetInduction
<1> QED BY <1>3, <1>9 DEF P, Good
-----------------------------------------------------------------------------
(***************************************************************************)
(* Types.                                                                  *)
(***************************************************************************)

\* What the last_decay file stands for: without it the time is 0.
Stored == IF decayFile = Missing THEN 0 ELSE decayFile

\* The values that update_fairshare may find for last_decay.
LEMMA LastDecayNat ==
  ASSUME TypeOK, NEW last \in LastDecay
  PROVE  last \in Nat /\ (decayFile # Empty => last = Stored)
BY FairshareAssumption DEF LastDecay, Stored, TypeOK, Missing, Empty

\* The files that a crash leaves.
LEMMA PrefixType ==
  ASSUME TypeOK, NEW k \in 0 .. NumUsers, NEW b \in BOOLEAN
  PROVE  /\ Prefix(k, b) \in UsageFile /\ Prefix(k, b).decays = decays
         /\ \A u \in Users : usage[u] >= 1 => Prefix(k, b).usage[u] >= 1
<1> DEFINE us == [u \in Users |-> IF u <= k THEN usage[u] ELSE 1]
<1>1. us \in [Users -> Int] /\ decays \in Nat
  BY DEF TypeOK
<1>2. (k = NumUsers /\ ~b) \in BOOLEAN
  OBVIOUS
<1>3. \A u \in Users : usage[u] >= 1 => us[u] >= 1
  OBVIOUS
<1> HIDE DEF us
<1> QED BY <1>1, <1>2, <1>3 DEF UsageFile, Prefix, us

\* The charges of a user are natural numbers as long as no walltime of the
\* user's jobs runs backwards.
LEMMA ChargeType ==
  ASSUME TypeOK, Charge
  PROVE  /\ usage' \in [Users -> Int] /\ temp' \in [Users -> Int] /\ charged' \in [Jobs -> Int]
         /\ \A u \in Users :
              (\A j \in DOMAIN lastRunning : Owner[j] = u => lastRunning[j] <= job[j].used) =>
                usage'[u] >= usage[u]
<1> DEFINE worth == [j \in Charged |-> (Since(j) + Slack) * Procs[j]]
           of(u) == {j \in Charged : Owner[j] = u}
           sum(u) == SumFunctionOnSet(worth, of(u))
<1>1. \A j \in Charged : j \in Jobs /\ job[j].used \in Nat /\ lastRunning[j] \in Nat /\ Procs[j] \in Nat
  BY FairshareAssumption DEF TypeOK, Charged
<1>2. Slack \in Nat /\ IsFiniteSet(Jobs)
  BY FairshareAssumption
<1>3. \A j \in Charged : worth[j] \in Int
  BY <1>1, <1>2 DEF Since
<1>4. \A u \in Users : IsFiniteSet(of(u))
  <2>1. \A u \in Users : of(u) \in SUBSET Jobs
    BY <1>1
  <2> QED BY <1>2, <2>1, FS_Subset
<1>5. \A u \in Users : sum(u) \in Int
  <2> HIDE DEF worth
  <2> QED BY <1>3, <1>4, SumType
<1>6. usage' = [u \in Users |-> usage[u] + sum(u)]
  BY DEF Charge
<1> HIDE DEF sum
<1>7. usage' \in [Users -> Int]
  BY <1>5, <1>6 DEF TypeOK
<1>8. temp' \in [Users -> Int]
  BY <1>7 DEF Charge, TypeOK
<1>9. charged' \in [Jobs -> Int]
  BY <1>1 DEF Charge, TypeOK, Since
<1>10. ASSUME NEW u \in Users, \A j \in DOMAIN lastRunning : Owner[j] = u => lastRunning[j] <= job[j].used
       PROVE  usage'[u] >= usage[u]
  <2>1. \A j \in of(u) : worth[j] \in Nat
    <3>1. ASSUME NEW j \in of(u) PROVE (Since(j) + Slack) * Procs[j] \in Nat
      <4>1. Since(j) + Slack \in Nat
        BY <1>1, <1>2, <1>10 DEF Since, Charged
      <4>2. Procs[j] \in Nat
        BY <1>1
      <4> QED BY <4>1, <4>2
    <3> QED BY <3>1
  <2>2. sum(u) \in Nat
    <3> HIDE DEF worth, of
    <3> QED BY <1>4, <2>1, SumType DEF sum
  <2> QED BY <1>6, <2>2 DEF TypeOK
<1> QED BY <1>7, <1>8, <1>9, <1>10

LEMMA TypeInit == Init => TypeOK
<1> SUFFICES ASSUME Init PROVE TypeOK
  OBVIOUS
<1>1. SavedUsage \in [Users -> Int] /\ StoredDecay \in Nat \cup {Missing, Empty} /\ StartTime \in Nat
  BY FairshareAssumption DEF Users, Missing, Empty
<1>2. Saved(SavedUsage, 0) \in UsageFile
  BY <1>1 DEF Saved, UsageFile
<1>3. /\ job \in [Jobs -> [st : {"Q", "R", "C"}, used : Nat]] /\ info = job
      /\ spent \in [Jobs -> Nat] /\ charged \in [Jobs -> Int]
  BY DEF Init
<1>4. DOMAIN lastRunning = {}
  BY DEF Init
<1> QED BY <1>1, <1>2, <1>3, <1>4 DEF Init, TypeOK

LEMMA TypeStep == TypeOK /\ [Next]_vars => TypeOK'
<1> SUFFICES ASSUME TypeOK, [Next]_vars PROVE TypeOK'
  OBVIOUS
<1>1. CASE Tick
  BY <1>1 DEF TypeOK, Tick, memVars, fileVars
<1>2. ASSUME NEW j \in Jobs, Start(j) \/ Requeue(j) \/ Complete(j) PROVE TypeOK'
  <2>1. job' \in [Jobs -> [st : {"Q", "R", "C"}, used : Nat]]
    <3>1. /\ [st |-> "R", used |-> 0] \in [st : {"Q", "R", "C"}, used : Nat]
          /\ [job[j] EXCEPT !.st = "Q"] \in [st : {"Q", "R", "C"}, used : Nat]
          /\ [job[j] EXCEPT !.st = "C"] \in [st : {"Q", "R", "C"}, used : Nat]
      BY DEF TypeOK
    <3>2. \E to \in [st : {"Q", "R", "C"}, used : Nat] : job' = [job EXCEPT ![j] = to]
      BY <1>2, <3>1, Zenon DEF Start, Requeue, Complete, JobStep
    <3> QED BY <3>2 DEF TypeOK
  <2>2. rerun' \subseteq Jobs
    BY <1>2 DEF TypeOK, Start, Requeue, Complete
  <2> QED BY <1>2, <2>1, <2>2 DEF TypeOK, Start, Requeue, Complete, JobStep, memVars, fileVars
<1>3. CASE Charge
  BY <1>3, ChargeType DEF TypeOK, Charge, jobVars, fileVars
<1>4. CASE Decay
  <2>1. PICK last \in LastDecay :
          /\ usage' = Decayed(Decays(last)) /\ decays' = decays + Decays(last)
          /\ IF Decays(last) > 0 THEN newDecay' = NewDecay(last) /\ pc' = "decayFile"
                                 ELSE newDecay' = 0 /\ pc' = "sync"
    BY <1>4 DEF Decay
  <2>2. last \in Nat /\ now \in Nat
    BY LastDecayNat DEF TypeOK
  <2>3. Decays(last) \in Nat /\ (Decays(last) > 0 => now - last > HalfLife)
    BY <2>2, DecaysBound
  <2>4. usage' \in [Users -> Int]
    BY <2>1, <2>3, DecayedUsages DEF TypeOK
  <2>5. Decays(last) > 0 => NewDecay(last) \in Nat
    <3>1. last <= last /\ (last - last) % HalfLife = 0
      BY <2>2, FairshareAssumption
    <3> QED BY <2>2, <2>3, <3>1, NewDecayWhole
  <2>6. newDecay' \in Nat /\ decays' \in Nat
    BY <2>1, <2>3, <2>5 DEF TypeOK
  <2> QED BY <1>4, <2>1, <2>4, <2>6 DEF TypeOK, Decay, jobVars, fileVars
<1>5. CASE WriteDecayFile
  BY <1>5 DEF TypeOK, WriteDecayFile, jobVars, memVars
<1>6. CASE SyncTest
  BY <1>6 DEF TypeOK, SyncTest, jobVars, memVars, fileVars
<1>7. CASE WriteOld
  <2>1. oldFile' \in UsageFile
    BY <1>7 DEF TypeOK, WriteOld, Saved, UsageFile
  <2> QED BY <1>7, <2>1 DEF TypeOK, WriteOld, jobVars, memVars
<1>8. CASE WriteIni
  <2>1. iniFile' \in UsageFile
    BY <1>8 DEF TypeOK, WriteIni, Saved, UsageFile
  <2> QED BY <1>8, <2>1 DEF TypeOK, WriteIni, jobVars
<1>9. CASE UpdateLastRunning
  BY <1>9 DEF TypeOK, UpdateLastRunning, jobVars, fileVars
<1>10. CASE Exception
  BY <1>10 DEF TypeOK, Exception, jobVars, memVars, fileVars
<1>15. CASE FetchFails \/ Retry \/ EndInPause
  BY <1>15 DEF TypeOK, FetchFails, Retry, EndInPause, jobVars, memVars, fileVars
<1>11. CASE Exit
  BY <1>11 DEF TypeOK, Exit, jobVars, memVars, fileVars
<1>12. CASE Crash
  <2>1. oldFile' \in UsageFile /\ iniFile' \in UsageFile /\ decayFile' \in Nat \cup {Missing, Empty}
    <3>1. \/ oldFile' = oldFile /\ iniFile' = iniFile /\ decayFile' \in {decayFile, Empty}
          \/ (\E k \in 0 .. NumUsers : oldFile' = Prefix(k, FALSE)) /\ iniFile' = iniFile /\ decayFile' = decayFile
          \/ /\ \E k \in 0 .. NumUsers, b \in BOOLEAN : iniFile' = Prefix(k, b)
             /\ oldFile' = oldFile /\ decayFile' = decayFile
      BY <1>12 DEF Crash, fileVars
    <3> QED BY <3>1, PrefixType DEF TypeOK
  <2> QED BY <1>12, <2>1 DEF TypeOK, Crash, jobVars, memVars
<1>13. CASE Boot
  <2>1. read_usage \in UsageFile
    BY DEF TypeOK, read_usage
  <2> QED BY <1>13, <2>1 DEF TypeOK, Boot, UsageFile, jobVars, fileVars
<1>14. CASE UNCHANGED vars
  BY <1>14 DEF TypeOK, vars, jobVars, memVars, fileVars
<1> QED
  BY <1>1, <1>2, <1>3, <1>4, <1>5, <1>6, <1>7, <1>8, <1>9, <1>10, <1>11, <1>12, <1>13, <1>14, <1>15 DEF Next

\* The variables of the daemon, the files and the histories keep their types.
THEOREM TypeCorrect == Spec => []TypeOK
BY TypeInit, TypeStep, PTL DEF Spec
-----------------------------------------------------------------------------
(***************************************************************************)
(* Usages stay positive.  A charge is negative only when the walltime of a *)
(* job is below the recorded one, which takes a job that started again     *)
(* while p_last_running still had it.  The files are part of the           *)
(* invariant: what read_usage takes over was positive when it was written. *)
(***************************************************************************)

\* The daemon is inside update_fairshare or the planning of a cycle.
InCycle == pc \in {"decay", "decayFile", "sync", "old", "ini", "plan"}

PositiveInv ==
  /\ TypeOK
  /\ UsagePositive
  /\ \A u \in Users : Regular(u) => iniFile.usage[u] >= 1 /\ oldFile.usage[u] >= 1
  /\ InCycle => info = job
  /\ \A j \in DOMAIN lastRunning \ rerun : lastRunning[j] <= job[j].used

LEMMA PositiveInit == Init => PositiveInv
<1> SUFFICES ASSUME Init PROVE PositiveInv
  OBVIOUS
<1>1. TypeOK
  BY TypeInit
<1>2. \A u \in Users : SavedUsage[u] >= 1
  BY FairshareAssumption DEF Users
<1>3. usage = SavedUsage /\ temp = SavedUsage /\ iniFile.usage = SavedUsage /\ oldFile.usage = SavedUsage
  BY DEF Init, Saved
<1>4. DOMAIN lastRunning = {} /\ pc = "down"
  BY DEF Init
<1> QED BY <1>1, <1>2, <1>3, <1>4 DEF PositiveInv, UsagePositive, InCycle

LEMMA PositiveStep == PositiveInv /\ [Next]_vars => PositiveInv'
<1> SUFFICES ASSUME PositiveInv, [Next]_vars PROVE PositiveInv'
  OBVIOUS
<1>t. TypeOK /\ TypeOK'
  BY TypeStep DEF PositiveInv
<1> DEFINE Same == usage' = usage /\ temp' = temp
           SameFiles == iniFile' = iniFile /\ oldFile' = oldFile
           SameJobs == job' = job /\ lastRunning' = lastRunning /\ rerun' = rerun
<1>1. CASE Tick
  <2>1. Same /\ SameFiles /\ lastRunning' = lastRunning /\ rerun' = rerun /\ ~InCycle'
    BY <1>1 DEF Tick, Between, memVars, fileVars, InCycle
  <2>2. ASSUME NEW j \in DOMAIN lastRunning \ rerun PROVE lastRunning[j] <= job'[j].used
    <3>1. j \in Jobs /\ job[j].used \in Nat /\ lastRunning[j] \in Nat /\ lastRunning[j] <= job[j].used
      BY <1>t DEF PositiveInv, TypeOK
    <3>2. job'[j].used = job[j].used \/ job'[j].used = job[j].used + 1
      BY <1>t, <1>1, <3>1 DEF Tick, TypeOK
    <3> QED BY <3>1, <3>2
  <2> QED BY <1>t, <2>1, <2>2 DEF PositiveInv, UsagePositive, Regular
<1>2. ASSUME NEW j \in Jobs, Start(j) \/ Requeue(j) \/ Complete(j) PROVE PositiveInv'
  <2>1. Same /\ SameFiles /\ lastRunning' = lastRunning /\ pc' = pc /\ ~InCycle
    BY <1>2 DEF Start, Requeue, Complete, JobStep, Between, InCycle, memVars, fileVars
  <2>2. rerun \subseteq rerun'
    BY <1>2 DEF Start, Requeue, Complete
  <2>3. ASSUME NEW i \in DOMAIN lastRunning \ rerun' PROVE job'[i].used = job[i].used
    <3>1. i \in Jobs
      BY <1>t DEF TypeOK
    <3>2. CASE Start(j)
      <4>1. i # j
        BY <2>3, <3>2 DEF Start
      <4> QED BY <1>t, <3>1, <3>2, <4>1 DEF Start, JobStep, TypeOK
    <3>3. CASE Requeue(j)
      BY <1>t, <3>1, <3>3 DEF Requeue, JobStep, TypeOK
    <3>4. CASE Complete(j)
      BY <1>t, <3>1, <3>4 DEF Complete, JobStep, TypeOK
    <3> QED BY <1>2, <3>2, <3>3, <3>4
  <2>4. \A u \in Users : Regular(u)' => Regular(u)
    BY <2>2 DEF Regular
  <2> QED BY <1>t, <2>1, <2>2, <2>3, <2>4 DEF PositiveInv, UsagePositive, InCycle
<1>3. CASE Charge
  <2>1. SameFiles /\ SameJobs /\ info' = job
    BY <1>3 DEF Charge, jobVars, fileVars
  <2>2. \A u \in Users : Regular(u)' <=> Regular(u)
    BY <2>1 DEF Regular
  <2>3. ASSUME NEW u \in Users, Regular(u) PROVE usage'[u] >= 1 /\ temp'[u] >= 1
    <3>1. \A j \in DOMAIN lastRunning : Owner[j] = u => lastRunning[j] <= job[j].used
      BY <2>3 DEF Regular, PositiveInv
    <3>2. usage'[u] >= usage[u] /\ usage[u] >= 1 /\ temp[u] >= 1
      BY <1>t, <1>3, <2>3, <3>1, ChargeType DEF PositiveInv, UsagePositive
    <3>3. usage'[u] \in Int /\ usage[u] \in Int /\ temp[u] \in Int
      BY <1>t DEF TypeOK
    <3>4. temp'[u] = usage'[u] \/ temp'[u] = temp[u]
      BY <1>3 DEF Charge
    <3> QED BY <3>2, <3>3, <3>4
  <2>4. UsagePositive'
    BY <2>2, <2>3 DEF UsagePositive
  <2> QED BY <1>t, <2>1, <2>2, <2>4 DEF PositiveInv
<1>4. CASE Decay
  <2>1. SameFiles /\ SameJobs /\ info' = info /\ temp' = temp /\ InCycle
    BY <1>4 DEF Decay, jobVars, fileVars, InCycle
  <2>2. PICK last \in LastDecay : usage' = Decayed(Decays(last))
    BY <1>4 DEF Decay
  <2>3. last \in Nat /\ now \in Nat /\ usage \in [Users -> Int]
    BY <1>t, LastDecayNat DEF TypeOK
  <2>4. Decays(last) \in Nat
    BY <2>3, DecaysBound
  <2>5. \A u \in Users : Regular(u) => usage'[u] >= 1
    BY <2>2, <2>3, <2>4, DecayedUsages DEF PositiveInv, UsagePositive
  <2> QED BY <1>t, <2>1, <2>5 DEF PositiveInv, UsagePositive, Regular
<1>5. CASE WriteDecayFile
  BY <1>t, <1>5 DEF PositiveInv, UsagePositive, Regular, InCycle, WriteDecayFile, jobVars, memVars
<1>6. CASE SyncTest
  BY <1>t, <1>6 DEF PositiveInv, UsagePositive, Regular, InCycle, SyncTest, jobVars, memVars, fileVars
<1>7. CASE WriteOld
  <2>1. Same /\ SameJobs /\ iniFile' = iniFile /\ info' = info /\ oldFile'.usage = usage /\ (InCycle' => InCycle)
    BY <1>7 DEF WriteOld, Saved, jobVars, memVars, InCycle
  <2> QED BY <1>t, <2>1 DEF PositiveInv, UsagePositive, Regular
<1>8. CASE WriteIni
  <2>1. Same /\ SameJobs /\ oldFile' = oldFile /\ info' = info /\ iniFile'.usage = usage /\ (InCycle' => InCycle)
    BY <1>8 DEF WriteIni, Saved, jobVars, InCycle
  <2> QED BY <1>t, <2>1 DEF PositiveInv, UsagePositive, Regular
<1>9. CASE UpdateLastRunning
  <2>1. Same /\ SameFiles /\ job' = job /\ rerun' = rerun /\ info = job /\ ~InCycle'
    BY <1>9 DEF PositiveInv, UpdateLastRunning, jobVars, fileVars, InCycle
  <2>2. ASSUME NEW j \in DOMAIN lastRunning' PROVE lastRunning'[j] <= job[j].used
    <3>1. j \in Jobs /\ lastRunning'[j] = info[j].used
      BY <1>9 DEF UpdateLastRunning
    <3>2. job[j].used \in Nat
      BY <1>t, <3>1 DEF TypeOK
    <3> QED BY <2>1, <3>1, <3>2
  <2> QED BY <1>t, <2>1, <2>2 DEF PositiveInv, UsagePositive, Regular
<1>10. CASE Exception
  BY <1>t, <1>10 DEF PositiveInv, UsagePositive, Regular, InCycle, Exception, jobVars, memVars, fileVars
<1>15. CASE FetchFails \/ Retry \/ EndInPause
  BY <1>t, <1>15 DEF PositiveInv, UsagePositive, Regular, InCycle, FetchFails, Retry, EndInPause,
                     jobVars, memVars, fileVars
<1>11. CASE Exit
  BY <1>t, <1>11 DEF PositiveInv, UsagePositive, Regular, InCycle, Exit, jobVars, memVars, fileVars
<1>12. CASE Crash
  <2>1. Same /\ SameJobs /\ ~InCycle'
    BY <1>12 DEF Crash, jobVars, memVars, InCycle
  <2>2. /\ \/ oldFile' = oldFile
           \/ \E k \in 0 .. NumUsers : oldFile' = Prefix(k, FALSE)
        /\ \/ iniFile' = iniFile
           \/ \E k \in 0 .. NumUsers, b \in BOOLEAN : iniFile' = Prefix(k, b)
    BY <1>12 DEF Crash, fileVars
  <2>3. \A u \in Users : Regular(u) => iniFile'.usage[u] >= 1 /\ oldFile'.usage[u] >= 1
    BY <1>t, <2>2, PrefixType DEF PositiveInv, UsagePositive
  <2> QED BY <1>t, <2>1, <2>3 DEF PositiveInv, UsagePositive, Regular
<1>13. CASE Boot
  <2>1. usage' \in {iniFile.usage, oldFile.usage} /\ temp' = usage'
    BY <1>13 DEF Boot, read_usage
  <2>2. SameFiles /\ job' = job /\ rerun' = rerun /\ DOMAIN lastRunning' = {} /\ ~InCycle'
    BY <1>13 DEF Boot, jobVars, fileVars, InCycle
  <2> QED BY <1>t, <2>1, <2>2 DEF PositiveInv, UsagePositive, Regular
<1>14. CASE UNCHANGED vars
  BY <1>t, <1>14 DEF PositiveInv, UsagePositive, Regular, InCycle, vars, jobVars, memVars, fileVars
<1> QED
  BY <1>1, <1>2, <1>3, <1>4, <1>5, <1>6, <1>7, <1>8, <1>9, <1>10, <1>11, <1>12, <1>13, <1>14, <1>15 DEF Next

\* No sequence of charges, decays, exceptions, crashes in the middle of a
\* write and restarts takes a usage below 1, except that of the owner of a job
\* that has started again while p_last_running still had its earlier run.
THEOREM UsagePositiveAlways == Spec => []UsagePositive
<1>1. PositiveInv => UsagePositive
  BY DEF PositiveInv
<1> QED BY <1>1, PositiveInit, PositiveStep, PTL DEF Spec
-----------------------------------------------------------------------------
(***************************************************************************)
(* Restarts.  While a daemon that got through the write_usages at the end  *)
(* of plan_run is down, the ini file has the usages that it had and can be *)
(* parsed.                                                                 *)
(***************************************************************************)

StoppedInv == pc = "down" /\ clean => iniFile.usage = usage /\ ~iniFile.bad

\* A daemon that left plan_run's loop by a signal and wrote its usages starts
\* again with them.
THEOREM CleanRestartAlways == Spec => CleanRestart
<1>1. Init => StoppedInv
  BY DEF Init, StoppedInv, Saved
<1>2. StoppedInv /\ [Next]_vars => StoppedInv'
  <2> SUFFICES ASSUME StoppedInv, [Next]_vars PROVE StoppedInv'
    OBVIOUS
  <2>1. CASE WriteIni
    BY <2>1 DEF StoppedInv, WriteIni, Saved
  <2>2. CASE Tick \/ (\E j \in Jobs : Start(j) \/ Requeue(j) \/ Complete(j))
    BY <2>2 DEF StoppedInv, Tick, Start, Requeue, Complete, JobStep, memVars, fileVars
  <2>3. CASE Charge \/ Decay \/ WriteDecayFile \/ SyncTest \/ WriteOld
    BY <2>3 DEF StoppedInv, Charge, Decay, WriteDecayFile, SyncTest, WriteOld
  <2>4. CASE UpdateLastRunning \/ FetchFails \/ Exception \/ Retry \/ EndInPause \/ Exit \/ Crash \/ Boot
    BY <2>4 DEF StoppedInv, UpdateLastRunning, FetchFails, Exception, Retry, EndInPause, Exit, Crash, Boot
  <2>5. CASE UNCHANGED vars
    BY <2>5 DEF StoppedInv, vars, memVars, fileVars
  <2> QED BY <2>1, <2>2, <2>3, <2>4, <2>5 DEF Next
<1>3. StoppedInv => (Boot /\ clean => usage' = usage)
  BY DEF StoppedInv, Boot, read_usage
<1> QED BY <1>1, <1>2, <1>3, PTL DEF Spec, CleanRestart
-----------------------------------------------------------------------------
(***************************************************************************)
(* Decays.  The usages in memory are ahead of last_decay only between the  *)
(* decay and the writing of the file, and then behind the value that will  *)
(* be written; the usages in the files are never ahead.                    *)
(***************************************************************************)

\* A time at which a half-life has ended.
Boundary(t) == Origin <= t /\ t <= now /\ (t - Origin) % HalfLife = 0

DecayInv ==
  /\ TypeOK
  /\ decayFile = Empty /\ InCycle /\ pc # "decay" => garbage
  /\ ~garbage /\ decayFile # Empty =>
       /\ Boundary(Stored)
       /\ iniFile.decays <= HalfLivesOf(Stored) /\ oldFile.decays <= HalfLivesOf(Stored)
       /\ pc \notin {"decayFile", "down"} => decays <= HalfLivesOf(Stored)
       /\ pc \in {"sync", "old", "ini", "plan"} => now - Stored <= HalfLife
       /\ pc = "decayFile" =>
            /\ Boundary(newDecay) /\ now - newDecay <= HalfLife
            /\ decays <= HalfLivesOf(newDecay) /\ HalfLivesOf(Stored) <= HalfLivesOf(newDecay)

LEMMA OriginNat == Origin \in Nat /\ Origin <= StartTime /\ HalfLife \in Nat \ {0}
BY FairshareAssumption DEF Origin, Missing

LEMMA HalfLivesInt ==
  ASSUME NEW t \in Nat
  PROVE  HalfLivesOf(t) \in Int
<1>1. t - Origin \in Int
  BY OriginNat
<1> QED BY <1>1, OriginNat, DivMod DEF HalfLivesOf

\* What a decay loop that has run does to the number of half-lives.
LEMMA DecayAdvances ==
  ASSUME now \in Nat, NEW last \in Nat, Boundary(last), Decays(last) > 0
  PROVE  /\ Boundary(NewDecay(last)) /\ now - NewDecay(last) <= HalfLife
         /\ HalfLivesOf(last) + Decays(last) <= HalfLivesOf(NewDecay(last))
<1>1. Decays(last) \in Nat /\ now - last > HalfLife /\ Decays(last) <= (now - last) \div HalfLife
  BY DecaysBound
<1>2. /\ NewDecay(last) \in Nat /\ Origin <= NewDecay(last)
      /\ NewDecay(last) <= now /\ now - NewDecay(last) <= HalfLife
      /\ (NewDecay(last) - Origin) % HalfLife = 0
      /\ (NewDecay(last) - Origin) \div HalfLife =
           (last - Origin) \div HalfLife + (now - last) \div HalfLife
  BY <1>1, OriginNat, NewDecayWhole DEF Boundary
<1>3. HalfLivesOf(NewDecay(last)) = HalfLivesOf(last) + (now - last) \div HalfLife
  BY <1>2 DEF HalfLivesOf
<1>4. (now - last) \div HalfLife \in Int
  <2>1. now - last \in Int
    OBVIOUS
  <2> QED BY <2>1, OriginNat, DivMod
<1>5. HalfLivesOf(last) \in Int
  BY HalfLivesInt
<1>6. HalfLivesOf(last) + Decays(last) <= HalfLivesOf(NewDecay(last))
  BY <1>1, <1>3, <1>4, <1>5
<1> QED BY <1>2, <1>6 DEF Boundary

LEMMA DecayInit == Init => DecayInv
<1> SUFFICES ASSUME Init PROVE DecayInv
  OBVIOUS
<1>1. TypeOK
  BY TypeInit
<1>2. Stored = Origin /\ now = StartTime
  BY DEF Init, Stored, Origin
<1>3. Origin - Origin = 0 /\ 0 \div HalfLife = 0 /\ 0 % HalfLife = 0
  BY OriginNat
<1>4. Boundary(Stored)
  BY <1>2, <1>3, OriginNat DEF Boundary
<1>5. HalfLivesOf(Stored) = 0
  BY <1>2, <1>3 DEF HalfLivesOf
<1>6. iniFile.decays = 0 /\ oldFile.decays = 0
  BY DEF Init, Saved
<1>7. pc = "down"
  BY DEF Init
<1> QED BY <1>1, <1>4, <1>5, <1>6, <1>7 DEF DecayInv, InCycle

LEMMA DecayStep == DecayInv /\ [Next]_vars => DecayInv'
<1> SUFFICES ASSUME DecayInv, [Next]_vars PROVE DecayInv'
  OBVIOUS
<1>t. TypeOK /\ TypeOK'
  BY TypeStep DEF DecayInv
<1>h. decayFile # Empty => Stored \in Nat /\ HalfLivesOf(Stored) \in Int
  BY <1>t, HalfLivesInt DEF TypeOK, Stored, Missing, Empty
<1> DEFINE SameFiles == iniFile' = iniFile /\ oldFile' = oldFile /\ decayFile' = decayFile
           Same == now' = now /\ decays' = decays /\ newDecay' = newDecay /\ garbage' = garbage
<1>1. CASE Tick
  <2>1. SameFiles /\ now' = now + 1 /\ decays' = decays /\ newDecay' = newDecay /\ garbage' = garbage
    BY <1>1 DEF Tick, memVars, fileVars
  <2>2. /\ pc \in {"idle", "awake", "pause", "down"} /\ pc' \in {"idle", "awake", "pause", "down"}
        /\ pc' = "down" <=> pc = "down"
    BY <1>1 DEF Tick, Between
  <2>3. Stored' = Stored
    BY <2>1 DEF Stored
  <2>4. decayFile # Empty /\ Boundary(Stored) => Boundary(Stored)'
    BY <1>t, <1>h, <2>1, <2>3, OriginNat DEF Boundary, Origin, TypeOK
  <2> QED BY <1>t, <2>1, <2>2, <2>3, <2>4 DEF DecayInv, InCycle, HalfLivesOf, Origin
<1>2. ASSUME NEW j \in Jobs, Start(j) \/ Requeue(j) \/ Complete(j) PROVE DecayInv'
  <2>1. SameFiles /\ Same /\ pc' = pc
    BY <1>2 DEF Start, Requeue, Complete, JobStep, memVars, fileVars
  <2> QED BY <1>t, <2>1 DEF DecayInv, InCycle, HalfLivesOf, Origin, Boundary, Stored
<1>3. CASE Charge
  <2>1. SameFiles /\ Same /\ pc = "awake" /\ pc' = "decay"
    BY <1>3 DEF Charge, fileVars
  <2> QED BY <1>t, <2>1 DEF DecayInv, InCycle, HalfLivesOf, Origin, Boundary, Stored
<1>4. CASE Decay
  <2>1. SameFiles /\ now' = now /\ pc = "decay" /\ garbage' = (garbage \/ decayFile = Empty)
    BY <1>4 DEF Decay, fileVars
  <2>2. Stored' = Stored /\ (decayFile' = Empty => garbage')
    BY <2>1 DEF Stored
  <2>3. SUFFICES ASSUME ~garbage, decayFile # Empty PROVE DecayInv'
    BY <1>t, <2>1, <2>3 DEF DecayInv
  <2>4. PICK last \in LastDecay :
          /\ decays' = decays + Decays(last)
          /\ IF Decays(last) > 0 THEN newDecay' = NewDecay(last) /\ pc' = "decayFile"
                                 ELSE newDecay' = 0 /\ pc' = "sync"
    BY <1>4 DEF Decay
  <2>5. last = Stored /\ last \in Nat /\ now \in Nat /\ decays \in Nat
    BY <1>t, <2>3, LastDecayNat DEF TypeOK
  <2>6. Boundary(last) /\ decays <= HalfLivesOf(last) /\ HalfLivesOf(last) \in Int
    BY <1>h, <2>1, <2>3, <2>5 DEF DecayInv
  <2>7. Decays(last) \in Nat /\ (Decays(last) = 0 => now - last <= HalfLife)
    BY <2>5, DecaysBound
  <2>8. \A t : (Boundary(t)' <=> Boundary(t)) /\ HalfLivesOf(t)' = HalfLivesOf(t)
    BY <2>1 DEF Boundary, HalfLivesOf, Origin
  <2>9. CASE Decays(last) > 0
    <3>1. /\ Boundary(NewDecay(last)) /\ now - NewDecay(last) <= HalfLife
          /\ HalfLivesOf(last) + Decays(last) <= HalfLivesOf(NewDecay(last))
      BY <2>5, <2>6, <2>9, DecayAdvances
    <3>2. newDecay' = NewDecay(last) /\ pc' = "decayFile" /\ newDecay' \in Nat
      BY <1>t, <2>4, <2>9 DEF TypeOK
    <3>3. HalfLivesOf(newDecay') \in Int
      BY <3>2, HalfLivesInt
    <3>4. /\ decays' <= HalfLivesOf(newDecay') /\ HalfLivesOf(last) <= HalfLivesOf(newDecay')
          /\ Boundary(newDecay') /\ now - newDecay' <= HalfLife
      BY <2>4, <2>5, <2>6, <2>7, <3>1, <3>2, <3>3
    <3>5. /\ HalfLivesOf(newDecay)' = HalfLivesOf(newDecay') /\ (Boundary(newDecay)' <=> Boundary(newDecay'))
          /\ HalfLivesOf(Stored)' = HalfLivesOf(last) /\ (Boundary(Stored)' <=> Boundary(last))
      BY <2>1, <2>2, <2>5 DEF HalfLivesOf, Boundary, Origin
    <3> QED BY <1>t, <2>1, <2>2, <2>3, <2>5, <2>6, <3>2, <3>4, <3>5 DEF DecayInv
  <2>10. CASE ~ (Decays(last) > 0)
    <3>1. Decays(last) = 0 /\ pc' = "sync" /\ decays' = decays /\ now - last <= HalfLife
      BY <2>4, <2>5, <2>7, <2>10
    <3>2. HalfLivesOf(Stored)' = HalfLivesOf(last) /\ (Boundary(Stored)' <=> Boundary(last))
      BY <2>1, <2>2, <2>5 DEF HalfLivesOf, Boundary, Origin
    <3> QED BY <1>t, <2>1, <2>2, <2>3, <2>5, <2>6, <3>1, <3>2 DEF DecayInv
  <2> QED BY <2>9, <2>10
<1>5. CASE WriteDecayFile
  <2>1. /\ iniFile' = iniFile /\ oldFile' = oldFile /\ decays' = decays /\ now' = now /\ garbage' = garbage
        /\ pc = "decayFile" /\ pc' = "sync" /\ decayFile' = newDecay
    BY <1>5 DEF WriteDecayFile, memVars
  <2>2. newDecay \in Nat
    BY <1>t DEF TypeOK
  <2>3. decayFile' # Empty /\ Stored' = newDecay
    BY <2>1, <2>2 DEF Stored, Missing, Empty
  <2>4. HalfLivesOf(Stored)' = HalfLivesOf(newDecay) /\ (Boundary(Stored)' <=> Boundary(newDecay))
    BY <2>1, <2>3 DEF HalfLivesOf, Boundary, Origin
  <2>5. CASE garbage
    BY <1>t, <2>1, <2>3, <2>5 DEF DecayInv
  <2>6. CASE ~garbage
    <3>1. decayFile # Empty
      BY <2>1, <2>6 DEF DecayInv, InCycle
    <3>2. /\ Boundary(newDecay) /\ now - newDecay <= HalfLife
          /\ decays <= HalfLivesOf(newDecay) /\ HalfLivesOf(Stored) <= HalfLivesOf(newDecay)
          /\ iniFile.decays <= HalfLivesOf(Stored) /\ oldFile.decays <= HalfLivesOf(Stored)
      BY <2>1, <2>6, <3>1 DEF DecayInv
    <3>3. iniFile.decays \in Nat /\ oldFile.decays \in Nat /\ HalfLivesOf(newDecay) \in Int /\ HalfLivesOf(Stored) \in Int
      BY <1>t, <1>h, <2>2, <3>1, HalfLivesInt DEF TypeOK, UsageFile
    <3>4. iniFile.decays <= HalfLivesOf(newDecay) /\ oldFile.decays <= HalfLivesOf(newDecay)
      BY <3>2, <3>3
    <3> QED BY <1>t, <2>1, <2>3, <2>4, <3>2, <3>4 DEF DecayInv
  <2> QED BY <2>5, <2>6
<1>6. CASE SyncTest
  <2>1. SameFiles /\ Same /\ pc = "sync" /\ pc' \in {"old", "plan"}
    BY <1>6 DEF SyncTest, memVars, fileVars
  <2> QED BY <1>t, <2>1 DEF DecayInv, InCycle, HalfLivesOf, Origin, Boundary, Stored
<1>7. CASE WriteOld
  <2>1. /\ Same /\ iniFile' = iniFile /\ decayFile' = decayFile /\ oldFile'.decays = decays
        /\ (pc = "old" /\ pc' = "ini") \/ (pc = "exitOld" /\ pc' = "exitIni")
    BY <1>7 DEF WriteOld, Saved, memVars
  <2> QED BY <1>t, <2>1 DEF DecayInv, InCycle, HalfLivesOf, Origin, Boundary, Stored
<1>8. CASE WriteIni
  <2>1. /\ Same /\ oldFile' = oldFile /\ decayFile' = decayFile /\ iniFile'.decays = decays
        /\ (pc = "ini" /\ pc' = "plan") \/ (pc = "exitIni" /\ pc' = "down")
    BY <1>8 DEF WriteIni, Saved
  <2> QED BY <1>t, <2>1 DEF DecayInv, InCycle, HalfLivesOf, Origin, Boundary, Stored
<1>9. CASE UpdateLastRunning \/ FetchFails \/ Exception \/ Retry \/ EndInPause \/ Exit
  <2>1. /\ SameFiles /\ Same /\ pc' \in {"idle", "exitOld", "pause", "down"} /\ pc \notin {"decayFile", "down"}
    BY <1>9 DEF UpdateLastRunning, FetchFails, Exception, Retry, EndInPause, Exit, memVars, fileVars
  <2> QED BY <1>t, <2>1 DEF DecayInv, InCycle, HalfLivesOf, Origin, Boundary, Stored
<1>10. CASE Crash
  <2>1. now' = now /\ decays' = decays /\ garbage' = garbage /\ pc # "down" /\ pc' = "down"
    BY <1>10 DEF Crash, memVars
  <2>2. \/ SameFiles
        \/ decayFile' = Empty
        \/ /\ decayFile' = decayFile /\ iniFile' = iniFile /\ pc \in {"old", "exitOld"}
           /\ \E k \in 0 .. NumUsers : oldFile' = Prefix(k, FALSE)
        \/ /\ decayFile' = decayFile /\ oldFile' = oldFile /\ pc \in {"ini", "exitIni"}
           /\ \E k \in 0 .. NumUsers, b \in BOOLEAN : iniFile' = Prefix(k, b)
    BY <1>10 DEF Crash, fileVars
  <2>3. CASE decayFile' = Empty
    BY <1>t, <2>1, <2>3 DEF DecayInv, InCycle
  <2>4. CASE decayFile' = decayFile
    <3>1. /\ iniFile' = iniFile \/ (iniFile'.decays = decays /\ pc \in {"ini", "exitIni"})
          /\ oldFile' = oldFile \/ (oldFile'.decays = decays /\ pc \in {"old", "exitOld"})
      BY <1>t, <1>10, PrefixType DEF Crash, fileVars
    <3>2. Stored' = Stored /\ HalfLivesOf(Stored)' = HalfLivesOf(Stored) /\ (Boundary(Stored)' <=> Boundary(Stored))
      BY <2>1, <2>4 DEF HalfLivesOf, Boundary, Origin, Stored
    <3> QED BY <1>t, <2>1, <2>4, <3>1, <3>2 DEF DecayInv, InCycle
  <2> QED BY <2>2, <2>3, <2>4
<1>11. CASE Boot
  <2>1. SameFiles /\ now' = now /\ garbage' = garbage /\ pc' = "idle" /\ decays' \in {iniFile.decays, oldFile.decays}
    BY <1>11 DEF Boot, fileVars, read_usage
  <2>2. Stored' = Stored /\ HalfLivesOf(Stored)' = HalfLivesOf(Stored) /\ (Boundary(Stored)' <=> Boundary(Stored))
    BY <2>1 DEF HalfLivesOf, Boundary, Origin, Stored
  <2> QED BY <1>t, <2>1, <2>2 DEF DecayInv, InCycle
<1>12. CASE UNCHANGED vars
  <2>1. SameFiles /\ Same /\ pc' = pc
    BY <1>12 DEF vars, memVars, fileVars
  <2> QED BY <1>t, <2>1 DEF DecayInv, InCycle, HalfLivesOf, Origin, Boundary, Stored
<1> QED
  BY <1>1, <1>2, <1>3, <1>4, <1>5, <1>6, <1>7, <1>8, <1>9, <1>10, <1>11, <1>12 DEF Next

\* Wherever the daemon crashes, also between the writing of last_decay and of
\* the usages, no start decays the usages for a half-life that they already
\* contain, except after a crash that leaves last_decay empty.
THEOREM NotDecayedTwiceAlways == Spec => []NotDecayedTwice
<1>1. DecayInv => NotDecayedTwice
  BY DEF DecayInv, NotDecayedTwice, Stored, TypeOK, Missing, Empty
<1> QED BY <1>1, DecayInit, DecayStep, PTL DEF Spec

\* However long the daemon was down, no half-life is overdue after the decay
\* loop of update_fairshare, and the half-lives keep their phase.
THEOREM DecayInTimeAlways == Spec => []DecayInTime
<1>1. DecayInv => DecayInTime
  BY DEF DecayInv, DecayInTime, Stored, Boundary, InCycle
<1> QED BY <1>1, DecayInit, DecayStep, PTL DEF Spec

=============================================================================
