-------------------------- MODULE PlanLimits_proofs --------------------------
(***************************************************************************)
(* Proofs about plan_limits.cpp.                                           *)
(***************************************************************************)
EXTENDS PlanLimits, BaseLemmas
-----------------------------------------------------------------------------
(***************************************************************************)
(* Sums over the places of a sequence.                                     *)
(***************************************************************************)

\* A value put between the others adds itself.
LEMMA SumInserted ==
  ASSUME NEW n \in Nat, NEW i \in 1 .. n + 1, NEW v \in Int, NEW f, NEW g,
         \A x \in 1 .. n : f[x] \in Int,
         \A x \in 1 .. n + 1 : g[x] = IF x < i THEN f[x] ELSE IF x = i THEN v ELSE f[x - 1]
  PROVE  SumFunctionOnSet(g, 1 .. n + 1) = SumFunctionOnSet(f, 1 .. n) + v
<1> DEFINE F(m) == SumFunctionOnSet(f, 1 .. m)
           G(m) == SumFunctionOnSet(g, 1 .. m)
<1>1. \A x \in 1 .. n + 1 : g[x] \in Int
  OBVIOUS
<1>2. \A m \in 0 .. n + 1 : IsFiniteSet(1 .. m) /\ m + 1 \notin 1 .. m /\ 1 .. m + 1 = (1 .. m) \union {m + 1}
  BY FS_Interval
<1>3. \A m \in 0 .. n - 1 : F(m + 1) = f[m + 1] + F(m)
  <2>1. ASSUME NEW m \in 0 .. n - 1 PROVE F(m + 1) = f[m + 1] + F(m)
    <3>1. PICK T : T = 1 .. m
      OBVIOUS
    <3>2. f[m + 1] \in Int /\ \A x \in T : f[x] \in Int
      BY <3>1
    <3>3. IsFiniteSet(T) /\ m + 1 \notin T
      BY <1>2, <3>1
    <3>4. SumFunctionOnSet(f, T \union {m + 1}) = f[m + 1] + SumFunctionOnSet(f, T)
      BY <3>2, <3>3, SumAdd
    <3>5. 1 .. m + 1 = T \union {m + 1}
      BY <1>2, <3>1
    <3> QED BY <3>1, <3>4, <3>5
  <2> QED BY <2>1
<1>4. \A m \in 0 .. n : G(m + 1) = g[m + 1] + G(m)
  <2>1. ASSUME NEW m \in 0 .. n PROVE G(m + 1) = g[m + 1] + G(m)
    <3>1. PICK T : T = 1 .. m
      OBVIOUS
    <3>2. g[m + 1] \in Int /\ \A x \in T : g[x] \in Int
      BY <1>1, <3>1
    <3>3. IsFiniteSet(T) /\ m + 1 \notin T
      BY <1>2, <3>1
    <3>4. SumFunctionOnSet(g, T \union {m + 1}) = g[m + 1] + SumFunctionOnSet(g, T)
      BY <3>2, <3>3, SumAdd
    <3>5. 1 .. m + 1 = T \union {m + 1}
      BY <1>2, <3>1
    <3> QED BY <3>1, <3>4, <3>5
  <2> QED BY <2>1
<1>5. \A m \in 0 .. n : F(m) \in Int
  BY <1>2, SumType
<1>6. F(0) = 0 /\ G(0) = 0
  <2>1. 1 .. 0 = {}
    OBVIOUS
  <2> QED BY <2>1, FS_EmptySet, SumUnfold
<1> HIDE DEF F, G
<1> DEFINE S == {m \in Nat : m <= n + 1 => G(m) = IF m < i THEN F(m) ELSE F(m - 1) + v}
<1>7. 0 \in S
  BY <1>6
<1>8. ASSUME NEW m \in Nat, m \in S PROVE m + 1 \in S
  <2>1. SUFFICES ASSUME m + 1 <= n + 1
                 PROVE  G(m + 1) = IF m + 1 < i THEN F(m + 1) ELSE F(m) + v
    OBVIOUS
  <2>2. G(m) = (IF m < i THEN F(m) ELSE F(m - 1) + v) /\ m \in 0 .. n
    BY <1>8, <2>1
  <2>3. G(m + 1) = g[m + 1] + G(m)
    BY <1>4, <2>2
  <2>4. CASE m + 1 < i
    <3>1. g[m + 1] = f[m + 1] /\ G(m) = F(m) /\ m \in 0 .. n - 1
      BY <2>2, <2>4
    <3> QED BY <1>3, <2>3, <2>4, <3>1
  <2>5. CASE m + 1 = i
    <3>1. g[m + 1] = v /\ G(m) = F(m)
      BY <2>2, <2>5
    <3> QED BY <1>5, <2>2, <2>3, <2>5, <3>1
  <2>6. CASE m + 1 > i
    <3>1. g[m + 1] = f[m] /\ G(m) = F(m - 1) + v /\ m - 1 \in 0 .. n - 1
      BY <2>2, <2>6
    <3>2. F((m - 1) + 1) = f[(m - 1) + 1] + F(m - 1)
      BY <1>3, <3>1
    <3>3. F(m) = f[m] + F(m - 1) /\ f[m] \in Int /\ F(m - 1) \in Int
      BY <1>5, <2>2, <3>1, <3>2
    <3> QED BY <2>3, <2>6, <3>1, <3>3
  <2> QED BY <2>2, <2>4, <2>5, <2>6
<1> HIDE DEF S
<1>9. n + 1 \in S
  BY <1>7, <1>8, SetInduction
<1> QED BY <1>9 DEF S, F, G
-----------------------------------------------------------------------------
(***************************************************************************)
(* Accounts.                                                               *)
(***************************************************************************)

Entry == [id : Nat \ {0}, cpus : [Classes -> Nat]]
Limit == [time : Nat, accounts : Seq(Entry)]

\* The recursion of bin_search_account.
Ranges(a) == (1 .. Len(a) + 1) \X (0 .. Len(a))
Halve(a, id, g, r) ==
  LET mid == (r[1] + r[2]) \div 2
  IN IF r[2] < r[1] THEN 0
     ELSE IF a[mid].id = id THEN mid
     ELSE IF r[1] = r[2] THEN 0
     ELSE IF id > a[mid].id THEN g[<<mid + 1, r[2]>>]
     ELSE g[<<r[1], mid - 1>>]
Searching(a, id, g) == g = [r \in Ranges(a) |-> Halve(a, id, g, r)]

\* The middle of a range.
LEMMA Middle ==
  ASSUME NEW x \in Nat, NEW y \in Nat, x <= y
  PROVE  LET mid == (x + y) \div 2 IN mid \in Nat /\ x <= mid /\ mid <= y
OBVIOUS

\* The halves of a range are smaller ranges.
LEMMA Halves ==
  ASSUME NEW S, NEW a \in Seq(S), NEW r \in Ranges(a), r[1] < r[2]
  PROVE  LET mid == (r[1] + r[2]) \div 2
         IN /\ mid \in 1 .. Len(a)
            /\ <<mid + 1, r[2]>> \in Ranges(a) /\ r[2] - (mid + 1) < r[2] - r[1]
            /\ <<r[1], mid - 1>> \in Ranges(a) /\ (mid - 1) - r[1] < r[2] - r[1]
<1>1. PICK x \in 1 .. Len(a) + 1 : x = r[1]
  BY DEF Ranges
<1>2. PICK y \in 0 .. Len(a) : y = r[2]
  BY DEF Ranges
<1>3. Len(a) \in Nat
  OBVIOUS
<1>4. PICK mid : mid = (x + y) \div 2
  OBVIOUS
<1>5. mid \in Nat /\ x <= mid /\ mid <= y
  BY <1>1, <1>2, <1>3, <1>4, Middle
<1>6. mid \in 1 .. Len(a) /\ mid + 1 \in 1 .. Len(a) + 1 /\ mid - 1 \in 0 .. Len(a)
      /\ y - (mid + 1) < y - x /\ (mid - 1) - x < y - x
  BY <1>1, <1>2, <1>3, <1>5
<1> QED BY <1>1, <1>2, <1>4, <1>6 DEF Ranges

\* The recursion has a solution, and what it finds is a place of the array.
LEMMA SearchingExists ==
  ASSUME NEW a \in Seq(Entry), NEW id \in Nat
  PROVE  \E g : Searching(a, id, g)
<1> DEFINE Upto(n, g) == \A r \in Ranges(a) : r[2] - r[1] < n => g[r] = Halve(a, id, g, r)
           N == {n \in Nat : \E g : Upto(n, g)}
<1>0. \A r \in Ranges(a) : r[1] \in Nat /\ r[2] \in Nat /\ r[1] >= 1 /\ r[2] <= Len(a) /\ Len(a) \in Nat
  BY DEF Ranges
<1>1. 0 \in N
  <2>1. Upto(0, [r \in Ranges(a) |-> 0])
    BY <1>0 DEF Halve
  <2> HIDE DEF Upto
  <2> QED BY <2>1
<1>2. ASSUME NEW g, NEW h, NEW r \in Ranges(a),
             \A q \in Ranges(a) : q[2] - q[1] < r[2] - r[1] => g[q] = h[q]
      PROVE  Halve(a, id, g, r) = Halve(a, id, h, r)
  <2>1. CASE r[1] < r[2]
    <3>1. PICK mid : mid = (r[1] + r[2]) \div 2
      OBVIOUS
    <3>2. /\ <<mid + 1, r[2]>> \in Ranges(a) /\ r[2] - (mid + 1) < r[2] - r[1]
          /\ <<r[1], mid - 1>> \in Ranges(a) /\ (mid - 1) - r[1] < r[2] - r[1]
      BY <2>1, <3>1, Halves
    <3>3. g[<<mid + 1, r[2]>>] = h[<<mid + 1, r[2]>>] /\ g[<<r[1], mid - 1>>] = h[<<r[1], mid - 1>>]
      BY <1>2, <3>2
    <3> QED BY <3>1, <3>3 DEF Halve
  <2>2. CASE ~(r[1] < r[2])
    BY <1>0, <2>2 DEF Halve
  <2> QED BY <2>1, <2>2
<1>3. ASSUME NEW n \in Nat, n \in N PROVE n + 1 \in N
  <2>1. PICK g : Upto(n, g)
    BY <1>3
  <2> DEFINE h == [r \in Ranges(a) |-> Halve(a, id, g, r)]
  <2>2. ASSUME NEW r \in Ranges(a), r[2] - r[1] < n + 1 PROVE h[r] = Halve(a, id, h, r)
    <3>1. ASSUME NEW q \in Ranges(a), q[2] - q[1] < r[2] - r[1] PROVE g[q] = h[q]
      <4>1. q[2] - q[1] < n
        BY <1>0, <2>2, <3>1
      <4> QED BY <2>1, <4>1
    <3>2. Halve(a, id, g, r) = Halve(a, id, h, r)
      <4> HIDE DEF h
      <4> QED BY <1>2, <3>1
    <3> QED BY <3>2
  <2>3. Upto(n + 1, h)
    <3> HIDE DEF h
    <3> QED BY <2>2
  <2> HIDE DEF Upto, h
  <2> QED BY <2>3
<1> HIDE DEF N
<1>4. \A n \in Nat : n \in N
  BY <1>1, <1>3, SetInduction
<1>5. Len(a) \in N
  BY <1>4
<1>6. PICK g : Upto(Len(a), g)
  BY <1>5 DEF N
<1>7. \A r \in Ranges(a) : g[r] = Halve(a, id, g, r)
  BY <1>0, <1>6
<1> DEFINE h == [r \in Ranges(a) |-> g[r]]
<1>8. \A r \in Ranges(a) : Halve(a, id, g, r) = Halve(a, id, h, r)
  <2>1. \A q \in Ranges(a) : g[q] = h[q]
    OBVIOUS
  <2> HIDE DEF h
  <2> QED BY <1>2, <2>1
<1>9. h = [r \in Ranges(a) |-> Halve(a, id, h, r)]
  <2>1. h = [r \in Ranges(a) |-> Halve(a, id, g, r)]
    BY <1>7
  <2> HIDE DEF h
  <2> QED BY <1>8, <2>1
<1> HIDE DEF h
<1> QED BY <1>9 DEF Searching

\* What the search finds is a place of the array, or 0.
LEMMA FindType ==
  ASSUME NEW a \in Seq(Entry), NEW id \in Nat
  PROVE  limit_find_account(a, id) \in 0 .. Len(a)
<1> DEFINE g == CHOOSE g : Searching(a, id, g)
<1>0. Len(a) \in Nat
  OBVIOUS
<1>1. bin_search_account(a, id) = g[<<1, Len(a)>>]
  BY DEF bin_search_account, Searching, Halve, Ranges
<1>2. Searching(a, id, g)
  BY SearchingExists
<1> HIDE DEF g
<1> DEFINE S == {n \in Nat : \A r \in Ranges(a) : r[2] - r[1] < n => g[r] \in 0 .. Len(a)}
<1>3. \A r \in Ranges(a) : g[r] = Halve(a, id, g, r)
  BY <1>2 DEF Searching
<1>4. \A r \in Ranges(a) : r[1] \in Nat /\ r[2] \in Nat /\ r[1] >= 1 /\ r[2] <= Len(a)
  BY DEF Ranges
<1>5. 0 \in S
  <2>1. ASSUME NEW r \in Ranges(a), r[2] - r[1] < 0 PROVE g[r] \in 0 .. Len(a)
    <3>1. r[2] < r[1]
      BY <1>4, <2>1
    <3>2. g[r] = 0
      BY <1>3, <3>1 DEF Halve
    <3> QED BY <1>0, <3>2
  <2> QED BY <2>1
<1>6. ASSUME NEW n \in Nat, n \in S PROVE n + 1 \in S
  <2>1. ASSUME NEW r \in Ranges(a), r[2] - r[1] < n + 1 PROVE g[r] \in 0 .. Len(a)
    <3>1. CASE r[1] < r[2]
      <4>1. PICK mid : mid = (r[1] + r[2]) \div 2
        OBVIOUS
      <4>2. /\ mid \in 1 .. Len(a)
            /\ <<mid + 1, r[2]>> \in Ranges(a) /\ r[2] - (mid + 1) < r[2] - r[1]
            /\ <<r[1], mid - 1>> \in Ranges(a) /\ (mid - 1) - r[1] < r[2] - r[1]
        BY <3>1, <4>1, Halves
      <4>3. r[2] - (mid + 1) < n /\ (mid - 1) - r[1] < n
        BY <1>0, <1>4, <2>1, <4>2
      <4>4. g[<<mid + 1, r[2]>>] \in 0 .. Len(a) /\ g[<<r[1], mid - 1>>] \in 0 .. Len(a)
        BY <1>6, <4>2, <4>3
      <4>5. mid \in 0 .. Len(a) /\ 0 \in 0 .. Len(a)
        BY <1>0, <4>2
      <4>6. g[r] = Halve(a, id, g, r)
        BY <1>3
      <4> QED BY <4>1, <4>4, <4>5, <4>6 DEF Halve
    <3>2. CASE r[1] = r[2]
      <4>1. (r[1] + r[2]) \div 2 \in 0 .. Len(a)
        BY <1>0, <1>4, <3>2
      <4>2. g[r] = (r[1] + r[2]) \div 2 \/ g[r] = 0
        BY <1>3, <1>4, <3>2 DEF Halve
      <4> QED BY <1>0, <4>1, <4>2
    <3>3. CASE r[2] < r[1]
      <4>1. g[r] = 0
        BY <1>3, <3>3 DEF Halve
      <4> QED BY <1>0, <4>1
    <3> QED BY <1>4, <3>1, <3>2, <3>3
  <2> QED BY <2>1
<1> HIDE DEF S
<1>7. Len(a) \in S
  BY <1>0, <1>5, <1>6, SetInduction
<1>8. CASE a = <<>>
  BY <1>8 DEF limit_find_account
<1>9. CASE a # <<>>
  <2>1. Len(a) >= 1 /\ <<1, Len(a)>> \in Ranges(a)
    BY <1>0, <1>9 DEF Ranges
  <2>2. g[<<1, Len(a)>>] \in 0 .. Len(a)
    BY <1>0, <1>7, <2>1 DEF S
  <2>3. bin_search_account(a, id) \in 0 .. Len(a)
    BY <1>1, <2>2
  <2> QED BY <1>0, <2>3 DEF limit_find_account
<1> QED BY <1>8, <1>9

\* A new account is put at a place of the array.
LEMMA AddPositionType ==
  ASSUME NEW a \in Seq(Entry), NEW id
  PROVE  AddPosition(a, id) \in 1 .. Len(a) + 1
<1> DEFINE Q == {q \in 2 .. Len(a) + 1 : \A r \in q .. Len(a) : a[r].id > id}
<1>1. CASE a = <<>>
  <2>1. Len(a) = 0 /\ AddPosition(a, id) = 1
    BY <1>1 DEF AddPosition
  <2>2. 1 \in 1 .. 0 + 1
    OBVIOUS
  <2> QED BY <2>1, <2>2, Zenon
<1>2. CASE a # <<>>
  <2>1. Len(a) \in Nat /\ Len(a) >= 1
    BY <1>2
  <2>2. Len(a) + 1 \in Q
    BY <2>1
  <2>3. Q \subseteq Nat
    BY <2>1
  <2>4. AddPosition(a, id) = Min(Q)
    BY <1>2 DEF AddPosition
  <2>5. Q \subseteq 2 .. Len(a) + 1
    OBVIOUS
  <2> HIDE DEF Q
  <2>6. \E m \in Q : \A n \in Q : m <= n
    BY <2>2, <2>3, LeastNatural
  <2>7. Min(Q) \in Q
    BY <2>6 DEF Min
  <2>8. AddPosition(a, id) \in 2 .. Len(a) + 1
    BY <2>4, <2>5, <2>7, Zenon
  <2>9. 2 .. Len(a) + 1 \subseteq 1 .. Len(a) + 1
    BY <2>1
  <2> QED BY <2>8, <2>9, Zenon
<1> QED BY <1>1, <1>2

\* The sum of a limit is a natural number, 0 without accounts.
LEMMA SumOfLimit ==
  ASSUME NEW l \in Limit, NEW c \in Classes
  PROVE  /\ sum_limits_of_limit(l, c) \in Nat
         /\ l.accounts = <<>> => sum_limits_of_limit(l, c) = 0
<1> DEFINE f == [x \in DOMAIN l.accounts |-> l.accounts[x].cpus[c]]
           D == DOMAIN l.accounts
<1>1. l.accounts \in Seq(Entry)
  BY DEF Limit
<1>2. IsFiniteSet(D)
  <2>1. D = 1 .. Len(l.accounts) /\ Len(l.accounts) \in Int
    BY <1>1
  <2> HIDE DEF D
  <2> QED BY <2>1, FS_Interval
<1>3. sum_limits_of_limit(l, c) = SumFunctionOnSet(f, D)
  BY DEF sum_limits_of_limit, SumFunction
<1>4. ASSUME NEW x \in D PROVE f[x] \in Nat
  <2>1. PICK e \in Entry : e = l.accounts[x]
    BY <1>1
  <2>2. e.cpus[c] \in Nat
    BY DEF Entry
  <2> QED BY <2>1, <2>2
<1>5. l.accounts = <<>> => D = {}
  OBVIOUS
<1> HIDE DEF f, D
<1> QED BY <1>2, <1>3, <1>4, <1>5, SumType, SumUnfold

\* Limit r is l with n CPUs more in a class.
Added(l, r, class, n) ==
  /\ r \in Limit /\ r.time = l.time
  /\ \A c \in Classes :
       sum_limits_of_limit(r, c) = sum_limits_of_limit(l, c) + IF c = class THEN n ELSE 0

\* add_limit_to_limit adds the CPUs to the sum of their class, whether the
\* account is found or not, and even where the array is not sorted.
LEMMA LimitAdded ==
  ASSUME NEW l \in Limit, NEW id \in Nat \ {0}, NEW class \in Classes, NEW n \in Nat
  PROVE  Added(l, add_limit_to_limit(l, id, class, n), class, n)
<1>1. PICK a \in Seq(Entry) : a = l.accounts
  BY DEF Limit
<1>2. PICK k : k = limit_find_account(a, id)
  OBVIOUS
<1> DEFINE new == [id |-> id, cpus |-> [c \in Classes |-> IF c = class THEN n ELSE 0]]
           b == IF k # 0 THEN [a EXCEPT ![k].cpus[class] = @ + n] ELSE InsertAt(a, AddPosition(a, id), new)
           add(c) == IF c = class THEN n ELSE 0
<1>3. new \in Entry
  BY DEF Entry
<1>4. add_limit_to_limit(l, id, class, n) = [l EXCEPT !.accounts = b]
  BY <1>1, <1>2 DEF add_limit_to_limit
<1>5. k \in 0 .. Len(a) /\ Len(a) \in Nat
  BY <1>2, FindType
<1> DEFINE f(c) == [x \in DOMAIN a |-> a[x].cpus[c]]
           g(c) == [x \in DOMAIN b |-> b[x].cpus[c]]
<1>6. ASSUME NEW c \in Classes, NEW x \in 1 .. Len(a) PROVE f(c)[x] \in Nat /\ f(c)[x] = a[x].cpus[c]
  <2>1. PICK e \in Entry : e = a[x]
    OBVIOUS
  <2>2. e.cpus[c] \in Nat
    BY DEF Entry
  <2> QED BY <2>1, <2>2
<1>7. \A c \in Classes : add(c) \in Nat
  OBVIOUS
<1>8. b \in Seq(Entry) /\ \A c \in Classes :
         SumFunctionOnSet(g(c), DOMAIN b) = SumFunctionOnSet(f(c), DOMAIN a) + add(c)
  <2>1. CASE k # 0
    <3>1. k \in 1 .. Len(a) /\ a[k] \in Entry /\ \A x \in 1 .. Len(a) : a[x] \in Entry
      BY <1>5, <2>1
    <3>2. PICK e : e = [a[k] EXCEPT !.cpus[class] = @ + n]
      OBVIOUS
    <3>3. e \in Entry /\ \A c \in Classes : e.cpus[c] = a[k].cpus[c] + add(c)
      <4>1. PICK o \in Entry : o = a[k]
        BY <3>1
      <4>2. o.cpus \in [Classes -> Nat] /\ o.id \in Nat \ {0} /\ o = [id |-> o.id, cpus |-> o.cpus]
        BY DEF Entry
      <4>3. PICK m : m = [o.cpus EXCEPT ![class] = @ + n]
        OBVIOUS
      <4>4. m \in [Classes -> Nat] /\ \A c \in Classes : m[c] = o.cpus[c] + add(c)
        BY <4>2, <4>3
      <4>5. e = [id |-> o.id, cpus |-> m]
        BY <3>2, <4>1, <4>2, <4>3
      <4>6. e \in Entry /\ e.cpus = m
        BY <4>2, <4>4, <4>5 DEF Entry
      <4> QED BY <4>1, <4>4, <4>6
    <3>4. b = [a EXCEPT ![k] = e]
      BY <2>1, <3>2
    <3>5. b \in Seq(Entry) /\ DOMAIN b = DOMAIN a /\ DOMAIN a = 1 .. Len(a)
      BY <3>1, <3>3, <3>4, SMTT(30)
    <3>6. \A x \in 1 .. Len(a) : b[x] = IF x = k THEN e ELSE a[x]
      BY <3>1, <3>4, SMTT(30)
    <3> HIDE DEF b
    <3>7. ASSUME NEW c \in Classes
          PROVE  SumFunctionOnSet(g(c), DOMAIN b) = SumFunctionOnSet(f(c), DOMAIN a) + add(c)
      <4>1. PICK D : D = 1 .. Len(a)
        OBVIOUS
      <4>2. IsFiniteSet(D) /\ k \in D /\ IsFiniteSet(D \ {k})
        <5>1. PICK N \in Int : N = Len(a)
          BY <1>5
        <5>2. IsFiniteSet(D)
          BY <4>1, <5>1, FS_Interval
        <5> QED BY <3>1, <4>1, <5>2, FS_RemoveElement
      <4>3. PICK F : F = f(c)
        OBVIOUS
      <4>4. PICK G : G = g(c)
        OBVIOUS
      <4>5. \A x \in D : F[x] \in Nat /\ G[x] = IF x = k THEN F[x] + add(c) ELSE F[x]
        BY <1>6, <3>1, <3>3, <3>5, <3>6, <4>1, <4>3, <4>4
      <4>6. PICK d \in Nat : d = add(c)
        BY <1>7
      <4> HIDE DEF f, g, add
      <4>7. \A x \in D : F[x] \in Int /\ G[x] \in Int
        BY <4>5, <4>6
      <4>8. SumFunctionOnSet(F, D) = F[k] + SumFunctionOnSet(F, D \ {k})
            /\ SumFunctionOnSet(G, D) = G[k] + SumFunctionOnSet(G, D \ {k})
        BY <4>2, <4>7, SumTake
      <4>9. SumFunctionOnSet(F, D \ {k}) = SumFunctionOnSet(G, D \ {k})
        <5>1. \A x \in D \ {k} : F[x] = G[x]
          BY <4>5
        <5> QED BY <4>2, <5>1, SumEqual
      <4>10. SumFunctionOnSet(F, D \ {k}) \in Int
        <5>1. \A x \in D \ {k} : F[x] \in Int
          BY <4>7
        <5> QED BY <4>2, <5>1, SumType
      <4>11. SumFunctionOnSet(G, D) = SumFunctionOnSet(F, D) + d
        BY <4>2, <4>5, <4>6, <4>8, <4>9, <4>10
      <4> QED BY <3>5, <4>1, <4>3, <4>4, <4>6, <4>11
    <3> QED BY <3>5, <3>7
  <2>2. CASE k = 0
    <3>1. PICK p \in 1 .. Len(a) + 1 : p = AddPosition(a, id)
      BY AddPositionType
    <3>2. b = InsertAt(a, p, new)
      BY <2>2, <3>1
    <3> HIDE DEF new
    <3>3. /\ b \in Seq(Entry) /\ Len(b) = Len(a) + 1
          /\ \A x \in 1 .. Len(a) + 1 : b[x] = IF x < p THEN a[x] ELSE IF x = p THEN new ELSE a[x - 1]
      BY <1>3, <3>2, InsertAtElements
    <3> HIDE DEF b
    <3>4. ASSUME NEW c \in Classes
          PROVE  SumFunctionOnSet(g(c), DOMAIN b) = SumFunctionOnSet(f(c), DOMAIN a) + add(c)
      <4>1. new.cpus[c] = add(c)
        BY DEF new
      <4>2. PICK F : F = f(c)
        OBVIOUS
      <4>3. PICK G : G = g(c)
        OBVIOUS
      <4>4. DOMAIN b = 1 .. Len(a) + 1 /\ DOMAIN a = 1 .. Len(a)
        BY <1>5, <3>3
      <4>5. \A x \in 1 .. Len(a) : F[x] \in Int /\ F[x] = a[x].cpus[c]
        BY <1>6, <4>2, <4>4
      <4>6. \A x \in 1 .. Len(a) + 1 : G[x] = b[x].cpus[c]
        BY <4>3, <4>4
      <4>7. PICK d \in Nat : d = add(c)
        BY <1>7
      <4> HIDE DEF f, g, add
      <4>8. PICK N \in Nat : N = Len(a)
        BY <1>5
      <4>9. ASSUME NEW x \in 1 .. N + 1
            PROVE  G[x] = IF x < p THEN F[x] ELSE IF x = p THEN d ELSE F[x - 1]
        <5>1. G[x] = b[x].cpus[c] /\ b[x] = IF x < p THEN a[x] ELSE IF x = p THEN new ELSE a[x - 1]
          BY <3>3, <4>6, <4>8
        <5>2. CASE x < p
          <6>1. x \in 1 .. Len(a)
            BY <4>8, <5>2
          <6> QED BY <4>5, <5>1, <5>2, <6>1
        <5>3. CASE x = p
          BY <4>1, <4>7, <5>1, <5>3
        <5>4. CASE x > p
          <6>1. x - 1 \in 1 .. Len(a)
            BY <4>8, <5>4
          <6>2. F[x - 1] = a[x - 1].cpus[c]
            BY <4>5, <6>1
          <6> QED BY <5>1, <5>4, <6>2
        <5> QED BY <4>8, <5>2, <5>3, <5>4
      <4>10. SumFunctionOnSet(G, 1 .. N + 1) = SumFunctionOnSet(F, 1 .. N) + d
        BY <4>5, <4>7, <4>8, <4>9, SumInserted
      <4> QED BY <4>2, <4>3, <4>4, <4>7, <4>8, <4>10
    <3> QED BY <3>3, <3>4
  <2> QED BY <2>1, <2>2
<1> HIDE DEF b, new
<1>9. PICK r : r = [l EXCEPT !.accounts = b]
  OBVIOUS
<1>10. r \in Limit /\ r.time = l.time /\ r.accounts = b
  BY <1>8, <1>9 DEF Limit
<1>11. ASSUME NEW c \in Classes PROVE sum_limits_of_limit(r, c) = sum_limits_of_limit(l, c) + add(c)
  <2>1. sum_limits_of_limit(r, c) = SumFunctionOnSet(g(c), DOMAIN b)
    <3>1. DOMAIN g(c) = DOMAIN b
      OBVIOUS
    <3> QED BY <1>10, <3>1 DEF sum_limits_of_limit, SumFunction
  <2>2. sum_limits_of_limit(l, c) = SumFunctionOnSet(f(c), DOMAIN a)
    <3>1. DOMAIN f(c) = DOMAIN a
      OBVIOUS
    <3> QED BY <1>1, <3>1 DEF sum_limits_of_limit, SumFunction
  <2> HIDE DEF f, g, add
  <2> QED BY <1>8, <2>1, <2>2
<1>12. Added(l, r, class, n)
  BY <1>10, <1>11 DEF Added
<1> QED BY <1>4, <1>9, <1>12
-----------------------------------------------------------------------------
(***************************************************************************)
(* The list of limits as a step function.                                  *)
(***************************************************************************)

Increasing(ls) == \A x, y \in 1 .. Len(ls) : x < y => ls[x].time < ls[y].time

\* The list ends with the limit that begins when the last job has ended.
LastEmpty(ls) == ls # <<>> => ls[Len(ls)].accounts = <<>>

Good(ls) == ls \in Seq(Limit) /\ Increasing(ls) /\ LastEmpty(ls)

\* Limit x is the one in force at time t.
InForce(ls, x, t) ==
  x \in 1 .. Len(ls) /\ ls[x].time <= t /\ (x < Len(ls) => t < ls[x + 1].time)

NoneBefore(ls, t) == ls = <<>> \/ t < ls[1].time

\* The list says that class c uses v CPUs at time t.
Shows(ls, t, c, v) ==
  /\ NoneBefore(ls, t) => v = 0
  /\ \A x \in 1 .. Len(ls) : InForce(ls, x, t) => sum_limits_of_limit(ls[x], c) = v

\* What r adds to ls is nothing but timestamps.
SameUse(ls, r) ==
  \A t \in Nat, c \in Classes, v \in Nat : Shows(ls, t, c, v) => Shows(r, t, c, v)

LEMMA LimitFields ==
  ASSUME NEW ls, Good(ls)
  PROVE  /\ Len(ls) \in Nat
         /\ \A x \in 1 .. Len(ls) : ls[x] \in Limit /\ ls[x].time \in Nat /\ ls[x].accounts \in Seq(Entry)
<1>1. ls \in Seq(Limit)
  BY DEF Good
<1>2. Len(ls) \in Nat
  BY <1>1
<1>3. \A x \in 1 .. Len(ls) : ls[x] \in Limit
  BY <1>1
<1>4. \A l \in Limit : l.time \in Nat /\ l.accounts \in Seq(Entry)
  BY DEF Limit
<1> QED BY <1>2, <1>3, <1>4

LEMMA Created ==
  ASSUME NEW t \in Nat
  PROVE  limit_create(t) \in Limit /\ limit_create(t).time = t /\ limit_create(t).accounts = <<>>
<1>1. <<>> \in Seq(Entry)
  OBVIOUS
<1>2. [time |-> t, accounts |-> <<>>] \in Limit
  BY <1>1 DEF Limit
<1> QED BY <1>2 DEF limit_create

\* A limit is in force from the time of the first one on.
LEMMA InForceExists ==
  ASSUME NEW ls, Good(ls), NEW t \in Nat, ~NoneBefore(ls, t)
  PROVE  \E x \in 1 .. Len(ls) : InForce(ls, x, t)
<1>1. PICK n \in Nat : n = Len(ls)
  BY LimitFields
<1>2. n >= 1 /\ ls[1].time <= t
  <2>1. ls # <<>> /\ ~(t < ls[1].time) /\ ls \in Seq(Limit)
    BY DEF NoneBefore, Good
  <2>2. n >= 1
    BY <1>1, <2>1
  <2>3. ls[1].time \in Nat
    BY <1>1, <2>2, LimitFields
  <2> QED BY <2>1, <2>2, <2>3
<1> DEFINE T == {x \in 1 .. n : t < ls[x].time}
<1>3. CASE T = {}
  <2>1. ls[n].time <= t
    <3>1. ~(t < ls[n].time) /\ n \in 1 .. Len(ls)
      BY <1>1, <1>2, <1>3
    <3>2. ls[n].time \in Nat
      BY <3>1, LimitFields
    <3> QED BY <3>1, <3>2
  <2> QED BY <1>1, <1>2, <2>1 DEF InForce
<1>4. CASE T # {}
  <2>1. T \subseteq Nat /\ T \subseteq 1 .. n
    OBVIOUS
  <2>2. PICK m \in T : \A y \in T : m <= y
    <3> HIDE DEF T
    <3> QED BY <1>4, <2>1, LeastNatural
  <2>3. m \in 1 .. n /\ t < ls[m].time
    OBVIOUS
  <2>4. m # 1
    <3>1. ls[1].time \in Nat
      BY <1>1, <1>2, LimitFields
    <3> QED BY <1>2, <2>3, <3>1
  <2>5. m - 1 \in 1 .. n /\ (m - 1) + 1 = m /\ m - 1 \notin T
    BY <2>2, <2>3, <2>4
  <2>6. ls[m - 1].time <= t
    <3>1. ls[m - 1].time \in Nat /\ ~(t < ls[m - 1].time)
      BY <1>1, <2>5, LimitFields
    <3> QED BY <3>1
  <2> HIDE DEF T
  <2>7. InForce(ls, m - 1, t)
    BY <1>1, <2>3, <2>5, <2>6 DEF InForce
  <2> QED BY <1>1, <2>5, <2>7
<1> QED BY <1>3, <1>4

\* The limits up to the one in force are those that began.
LEMMA InForceOrder ==
  ASSUME NEW ls, Good(ls), NEW t \in Nat, NEW x \in 1 .. Len(ls), InForce(ls, x, t),
         NEW y \in 1 .. Len(ls)
  PROVE  /\ ls[y].time <= t <=> y <= x
         /\ ls[y].time <= t <=> ls[y].time <= ls[x].time
<1>1. PICK n \in Nat : n = Len(ls)
  BY LimitFields
<1>2. PICK p \in Nat : p = ls[x].time
  BY LimitFields
<1>3. PICK q \in Nat : q = ls[y].time
  BY LimitFields
<1>4. y < x => q < p
  BY <1>2, <1>3 DEF Good, Increasing
<1>5. p <= t
  BY <1>2 DEF InForce
<1>6. CASE y <= x
  BY <1>1, <1>2, <1>3, <1>4, <1>5, <1>6
<1>7. CASE x < y
  <2>1. x + 1 \in 1 .. Len(ls) /\ x < Len(ls)
    BY <1>1, <1>7
  <2>2. PICK s \in Nat : s = ls[x + 1].time
    BY <2>1, LimitFields
  <2>3. t < s
    BY <2>1, <2>2 DEF InForce
  <2>4. x + 1 < y => s < q
    BY <1>3, <2>1, <2>2 DEF Good, Increasing
  <2>5. x + 1 = y => s = q
    BY <1>3, <2>2
  <2>6. t < q /\ p < q
    BY <1>1, <1>5, <1>7, <2>3, <2>4, <2>5
  <2> QED BY <1>1, <1>2, <1>3, <1>7, <2>6
<1> QED BY <1>1, <1>6, <1>7

\* Limit e splits limit x of ls, the one in force at t, and has its accounts.
Splits(ls, t, x, e, r) ==
  /\ x \in 1 .. Len(ls) /\ InForce(ls, x, t) /\ ls[x].time # t
  /\ e \in Limit /\ e.time = t /\ e.accounts = ls[x].accounts
  /\ r \in Seq(Limit) /\ Len(r) = Len(ls) + 1
  /\ \A y \in 1 .. Len(ls) + 1 : r[y] = IF y < x + 1 THEN ls[y] ELSE IF y = x + 1 THEN e ELSE ls[y - 1]

LEMMA SplitKeeps ==
  ASSUME NEW ls, Good(ls), NEW t \in Nat, NEW x, NEW e, NEW r, Splits(ls, t, x, e, r)
  PROVE  /\ Good(r) /\ SameUse(ls, r) /\ r[1] = ls[1] /\ r[x + 1].time = t
         /\ \A y \in 1 .. Len(ls) : \E z \in 1 .. Len(r) : r[z].time = ls[y].time
<1>0. /\ x \in 1 .. Len(ls) /\ InForce(ls, x, t) /\ ls[x].time # t
      /\ e \in Limit /\ e.time = t /\ e.accounts = ls[x].accounts
      /\ r \in Seq(Limit) /\ Len(r) = Len(ls) + 1
      /\ \A y \in 1 .. Len(ls) + 1 : r[y] = IF y < x + 1 THEN ls[y] ELSE IF y = x + 1 THEN e ELSE ls[y - 1]
  BY DEF Splits
<1> USE <1>0
<1>1. PICK n \in Nat : n = Len(ls)
  BY LimitFields
<1>2. x \in 1 .. n /\ n >= 1 /\ Len(r) = n + 1 /\ Len(r) \in Nat
  BY <1>1
<1>3. /\ \A y \in 1 .. x : r[y] = ls[y]
      /\ r[x + 1] = e
      /\ \A y \in x + 2 .. n + 1 : r[y] = ls[y - 1]
  BY <1>1, <1>2
<1> DEFINE time(y) == ls[y].time
<1>4. \A y \in 1 .. n : time(y) \in Nat
  BY <1>1, LimitFields
<1>5. \A y \in 1 .. n : time(y) <= t <=> y <= x
  BY <1>1, InForceOrder
<1>6. \A y, z \in 1 .. n : y < z => time(y) < time(z)
  BY <1>1 DEF Good, Increasing
<1>7. time(x) < t
  BY <1>2, <1>4, <1>5
<1> DEFINE new(y) == r[y].time
<1>8. /\ \A y \in 1 .. x : new(y) = time(y)
      /\ new(x + 1) = t
      /\ \A y \in x + 2 .. n + 1 : new(y) = time(y - 1)
  BY <1>3
<1>9. e.accounts = ls[x].accounts
  OBVIOUS
<1>10. Increasing(r)
  <2>1. ASSUME NEW y \in 1 .. n + 1, NEW z \in 1 .. n + 1, y < z PROVE new(y) < new(z)
    <3> HIDE DEF new, time
    <3>1. CASE z <= x
      BY <1>2, <1>6, <1>8, <2>1, <3>1
    <3>2. CASE z = x + 1
      <4>1. y \in 1 .. x /\ y \in 1 .. n
        BY <1>2, <2>1, <3>2
      <4>2. new(y) = time(y) /\ time(y) <= t /\ time(y) \in Nat
        BY <1>4, <1>5, <1>8, <4>1
      <4>3. time(y) # t
        <5>1. y = x \/ time(y) < time(x)
          BY <1>2, <1>6, <4>1
        <5> QED BY <1>2, <1>4, <1>7, <4>2, <5>1
      <4> QED BY <1>8, <3>2, <4>2, <4>3
    <3>3. CASE z > x + 1
      <4>1. z \in x + 2 .. n + 1 /\ z - 1 \in 1 .. n /\ z - 1 > x
        BY <1>2, <2>1, <3>3
      <4>2. new(z) = time(z - 1) /\ time(z - 1) > t
        BY <1>4, <1>5, <1>8, <4>1
      <4>3. CASE y <= x
        <5>1. y \in 1 .. x /\ y \in 1 .. n
          BY <1>2, <4>3
        <5>2. new(y) = time(y) /\ time(y) <= t /\ time(y) \in Nat
          BY <1>4, <1>5, <1>8, <5>1
        <5> QED BY <1>4, <4>1, <4>2, <5>2
      <4>4. CASE y = x + 1
        BY <1>8, <4>2, <4>4
      <4>5. CASE y > x + 1
        <5>1. y \in x + 2 .. n + 1 /\ y - 1 \in 1 .. n /\ y - 1 < z - 1
          BY <1>2, <2>1, <4>5
        <5> QED BY <1>6, <1>8, <4>1, <4>2, <5>1
      <4> QED BY <4>3, <4>4, <4>5
    <3> QED BY <3>1, <3>2, <3>3
  <2> QED BY <1>2, <2>1 DEF Increasing
<1>11. LastEmpty(r)
  <2>1. ls # <<>>
    BY <1>1, <1>2
  <2>2. ls[n].accounts = <<>>
    BY <1>1, <2>1 DEF Good, LastEmpty
  <2>3. CASE x = n
    <3>1. r[n + 1] = e
      BY <1>3, <2>3
    <3> QED BY <1>2, <1>9, <2>2, <2>3, <3>1 DEF LastEmpty
  <2>4. CASE x # n
    <3>1. n + 1 \in x + 2 .. n + 1 /\ (n + 1) - 1 = n
      BY <1>2, <2>4
    <3>2. r[n + 1] = ls[n]
      BY <1>3, <3>1
    <3> QED BY <1>2, <2>2, <3>2 DEF LastEmpty
  <2> QED BY <2>3, <2>4
<1>12. Good(r)
  BY <1>10, <1>11 DEF Good
<1>13. \A y \in 1 .. Len(ls) : \E z \in 1 .. Len(r) : r[z].time = ls[y].time
  <2>1. ASSUME NEW y \in 1 .. n PROVE \E z \in 1 .. n + 1 : new(z) = time(y)
    <3> HIDE DEF new, time
    <3>1. CASE y <= x
      BY <1>2, <1>8, <3>1
    <3>2. CASE y > x
      <4>1. y + 1 \in x + 2 .. n + 1 /\ (y + 1) - 1 = y /\ y + 1 \in 1 .. n + 1
        BY <1>2, <3>2
      <4>2. new(y + 1) = time(y)
        BY <1>8, <4>1
      <4> QED BY <4>1, <4>2
    <3> QED BY <1>2, <3>1, <3>2
  <2> QED BY <1>1, <1>2, <2>1
<1>14. SameUse(ls, r)
  <2>1. ASSUME NEW u \in Nat, NEW c \in Classes, NEW v \in Nat, Shows(ls, u, c, v)
        PROVE  Shows(r, u, c, v)
    <3>1. NoneBefore(r, u) => NoneBefore(ls, u)
      <4>1. r # <<>> /\ r[1] = ls[1]
        BY <1>2, <1>3
      <4> QED BY <4>1 DEF NoneBefore
    <3>2. ASSUME NEW y \in 1 .. n + 1, InForce(r, y, u)
          PROVE  sum_limits_of_limit(r[y], c) = v
      <4>1. SUFFICES \E z \in 1 .. n : InForce(ls, z, u) /\ ls[z].accounts = r[y].accounts
        BY <1>1, <2>1 DEF Shows, sum_limits_of_limit
      <4>2. new(y) <= u /\ (y < n + 1 => u < new(y + 1))
        BY <1>2, <3>2 DEF InForce
      <4>3. CASE y < x
        <5>1. y \in 1 .. n /\ y \in 1 .. x /\ y + 1 \in 1 .. x
          BY <1>2, <4>3
        <5>2. InForce(ls, y, u)
          BY <1>1, <1>2, <1>8, <4>2, <5>1 DEF InForce
        <5>3. ls[y].accounts = r[y].accounts
          BY <1>3, <5>1
        <5> QED BY <5>1, <5>2, <5>3
      <4>4. CASE y = x
        <5>1. time(x) <= u /\ u < t
          BY <1>2, <1>8, <4>2, <4>4
        <5>2. x < n => u < time(x + 1)
          <6>1. SUFFICES ASSUME x < n PROVE u < time(x + 1)
            OBVIOUS
          <6>2. x + 1 \in 1 .. n
            BY <1>2, <6>1
          <6>3. time(x + 1) \in Nat /\ ~(time(x + 1) <= t)
            BY <1>2, <1>4, <1>5, <6>2
          <6> QED BY <5>1, <6>3
        <5>3. InForce(ls, x, u)
          BY <1>1, <5>1, <5>2 DEF InForce
        <5>4. ls[x].accounts = r[y].accounts
          BY <1>2, <1>3, <4>4
        <5> QED BY <1>2, <5>3, <5>4
      <4>5. CASE y = x + 1
        <5>1. t <= u
          BY <1>8, <4>2, <4>5
        <5>2. time(x) <= u
          BY <1>2, <1>4, <1>7, <5>1
        <5>3. x < n => u < time(x + 1)
          <6>1. SUFFICES ASSUME x < n PROVE u < time(x + 1)
            OBVIOUS
          <6>2. y + 1 \in x + 2 .. n + 1 /\ (y + 1) - 1 = x + 1 /\ y < n + 1
            BY <1>2, <4>5, <6>1
          <6> QED BY <1>8, <4>2, <6>2
        <5>4. InForce(ls, x, u)
          BY <1>1, <5>2, <5>3 DEF InForce
        <5>5. ls[x].accounts = r[y].accounts
          BY <1>3, <1>9, <4>5
        <5> QED BY <1>2, <5>4, <5>5
      <4>6. CASE y > x + 1
        <5>1. PICK z \in 1 .. n : z = y - 1
          BY <1>2, <4>6
        <5>2. y \in x + 2 .. n + 1 /\ (z < n => y + 1 \in x + 2 .. n + 1 /\ (y + 1) - 1 = z + 1 /\ y < n + 1)
          BY <1>2, <4>6, <5>1
        <5>3. time(z) <= u /\ (z < n => u < time(z + 1))
          BY <1>8, <4>2, <5>1, <5>2
        <5>4. InForce(ls, z, u)
          BY <1>1, <5>1, <5>3 DEF InForce
        <5>5. ls[z].accounts = r[y].accounts
          BY <1>3, <5>1, <5>2
        <5> QED BY <5>4, <5>5
      <4> QED BY <1>2, <4>3, <4>4, <4>5, <4>6
    <3> QED BY <1>2, <2>1, <3>1, <3>2 DEF Shows
  <2> QED BY <2>1 DEF SameUse
<1>15. r[1] = ls[1] /\ r[x + 1].time = t
  BY <1>2, <1>3
<1> QED BY <1>12, <1>13, <1>14, <1>15

\* r is ls with a limit at t.
HasTime(ls, t) == \E x \in 1 .. Len(ls) : ls[x].time = t

Extended(ls, r, t) ==
  /\ Good(r) /\ SameUse(ls, r) /\ r # <<>> /\ HasTime(r, t)
  /\ \A u \in Nat : HasTime(ls, u) => HasTime(r, u)

\* clone_limit_timestamp only adds a timestamp.
LEMMA Cloned ==
  ASSUME NEW ls, Good(ls), NEW t \in Nat, ~NoneBefore(ls, t)
  PROVE  /\ Extended(ls, clone_limit_timestamp(ls, t), t)
         /\ clone_limit_timestamp(ls, t)[1] = ls[1]
<1>1. PICK n \in Nat : n = Len(ls)
  BY LimitFields
<1>2. ls \in Seq(Limit) /\ ls # <<>> /\ DOMAIN ls = 1 .. n
  BY <1>1 DEF Good, NoneBefore
<1> DEFINE cut == {x \in DOMAIN ls : ls[x].time < t /\ (x = Len(ls) \/ ls[x + 1].time > t)}
           x == Min(cut)
           e == IF x = Len(ls) THEN limit_create(t) ELSE [ls[x] EXCEPT !.time = t]
           r == clone_limit_timestamp(ls, t)
<1>3. PICK w \in 1 .. n : InForce(ls, w, t)
  BY <1>1, InForceExists
<1>4. ls[w].time \in Nat /\ ls[w].time <= t /\ (w < n => t < ls[w + 1].time)
  BY <1>1, <1>3, LimitFields DEF InForce
<1>5. CASE HasTime(ls, t)
  <2>1. r = ls
    BY <1>1, <1>2, <1>5 DEF clone_limit_timestamp, HasTime
  <2>2. SameUse(ls, ls)
    BY DEF SameUse
  <2> HIDE DEF r
  <2> QED BY <1>2, <1>5, <2>1, <2>2 DEF Extended, r
<1>6. CASE ~HasTime(ls, t)
  <2>1. w \in cut
    <3>1. ls[w].time # t
      BY <1>1, <1>6 DEF HasTime
    <3>2. ls[w].time < t
      BY <1>4, <3>1
    <3>3. w = Len(ls) \/ ls[w + 1].time > t
      <4>1. CASE w = n
        BY <1>1, <4>1
      <4>2. CASE w # n
        <5>1. w < n /\ w + 1 \in 1 .. Len(ls)
          BY <1>1, <4>2
        <5>2. ls[w + 1].time \in Nat
          BY <5>1, LimitFields
        <5> QED BY <1>4, <5>1, <5>2
      <4> QED BY <4>1, <4>2
    <3> QED BY <1>2, <3>2, <3>3
  <2>2. r = InsertAt(ls, x + 1, e)
    BY <1>1, <1>2, <1>6, <2>1 DEF clone_limit_timestamp, HasTime
  <2>3. cut \subseteq Nat /\ cut \subseteq 1 .. n
    BY <1>2
  <2>4. \A y \in cut : ls[y].time < t /\ (y = Len(ls) \/ ls[y + 1].time > t)
    OBVIOUS
  <2> HIDE DEF cut
  <2>5. \E m \in cut : \A y \in cut : m <= y
    BY <2>1, <2>3, LeastNatural
  <2>6. x \in cut
    BY <2>5 DEF Min
  <2>7. x \in 1 .. n /\ x \in 1 .. Len(ls) /\ x + 1 \in 1 .. Len(ls) + 1
    <3> HIDE DEF x
    <3>1. x \in 1 .. n
      BY <2>3, <2>6
    <3> QED BY <1>1, <3>1
  <2>8. InForce(ls, x, t) /\ ls[x].time # t
    <3>1. ls[x].time < t /\ (x = Len(ls) \/ ls[x + 1].time > t)
      BY <2>4, <2>6
    <3>2. ls[x].time \in Nat
      BY <2>7, LimitFields
    <3>3. x < Len(ls) => t < ls[x + 1].time
      <4>1. SUFFICES ASSUME x < Len(ls) PROVE t < ls[x + 1].time
        OBVIOUS
      <4>2. x + 1 \in 1 .. Len(ls) /\ x # Len(ls)
        BY <1>1, <2>7, <4>1
      <4>3. ls[x + 1].time \in Nat
        BY <4>2, LimitFields
      <4> QED BY <3>1, <4>2, <4>3
    <3>4. ls[x].time <= t /\ ls[x].time # t
      BY <3>1, <3>2
    <3> HIDE DEF x
    <3> QED BY <2>7, <3>3, <3>4 DEF InForce
  <2> HIDE DEF x
  <2>9. e \in Limit /\ e.time = t /\ e.accounts = ls[x].accounts
    <3>1. CASE x = Len(ls)
      <4>1. ls[x].accounts = <<>>
        BY <1>2, <3>1 DEF Good, LastEmpty
      <4>2. e = limit_create(t)
        BY <3>1
      <4> QED BY <4>1, <4>2, Created
    <3>2. CASE x # Len(ls)
      <4>1. PICK l \in Limit : l = ls[x]
        BY <2>7, LimitFields
      <4>2. e = [l EXCEPT !.time = t]
        BY <3>2, <4>1
      <4>3. e \in Limit /\ e.time = t /\ e.accounts = l.accounts
        BY <4>2 DEF Limit
      <4> QED BY <4>1, <4>3
    <3> QED BY <3>1, <3>2
  <2> HIDE DEF e
  <2>10. PICK p \in 1 .. Len(ls) + 1 : p = x + 1
    BY <2>7
  <2>11. /\ InsertAt(ls, p, e) \in Seq(Limit) /\ Len(InsertAt(ls, p, e)) = Len(ls) + 1
         /\ \A y \in 1 .. Len(ls) + 1 : InsertAt(ls, p, e)[y] =
              IF y < p THEN ls[y] ELSE IF y = p THEN e ELSE ls[y - 1]
    BY <1>2, <2>9, InsertAtElements, SMTT(30)
  <2> HIDE DEF r
  <2>12. /\ r \in Seq(Limit) /\ Len(r) = Len(ls) + 1
         /\ \A y \in 1 .. Len(ls) + 1 : r[y] =
              IF y < x + 1 THEN ls[y] ELSE IF y = x + 1 THEN e ELSE ls[y - 1]
    BY <2>2, <2>10, <2>11
  <2>13. /\ Good(r) /\ SameUse(ls, r) /\ r[1] = ls[1] /\ r[x + 1].time = t
         /\ \A y \in 1 .. Len(ls) : \E z \in 1 .. Len(r) : r[z].time = ls[y].time
    <3>1. Splits(ls, t, x, e, r)
      BY <2>7, <2>8, <2>9, <2>12 DEF Splits
    <3> QED BY <3>1, SplitKeeps
  <2>14. x + 1 \in 1 .. Len(r) /\ r # <<>>
    BY <1>1, <2>7, <2>12
  <2>15. HasTime(r, t) /\ \A u \in Nat : HasTime(ls, u) => HasTime(r, u)
    BY <2>13, <2>14 DEF HasTime
  <2>16. Extended(ls, r, t) /\ r[1] = ls[1]
    BY <2>13, <2>14, <2>15 DEF Extended
  <2> QED BY <2>16 DEF r
<1> QED BY <1>5, <1>6

\* An empty limit in front of the list.
LEMMA Prepended ==
  ASSUME NEW ls, Good(ls), ls # <<>>, NEW t \in Nat, t < ls[1].time
  PROVE  LET r == <<limit_create(t)>> \o ls
         IN Extended(ls, r, t) /\ r[1].time = t
<1>1. PICK n \in Nat : n = Len(ls)
  BY LimitFields
<1>2. PICK e : e = limit_create(t)
  OBVIOUS
<1>3. e \in Limit /\ e.time = t /\ e.accounts = <<>>
  BY <1>2, Created
<1>4. ls \in Seq(Limit) /\ n >= 1
  BY <1>1 DEF Good
<1>5. PICK r : r = <<e>> \o ls
  OBVIOUS
<1>6. r \in Seq(Limit) /\ Len(r) = n + 1 /\ r[1] = e /\ r # <<>>
  BY <1>1, <1>3, <1>4, <1>5
<1>7. \A y \in 2 .. n + 1 : r[y] = ls[y - 1]
  BY <1>1, <1>3, <1>4, <1>5
<1>8. \A y \in 1 .. n : ls[y].time \in Nat /\ t < ls[y].time
  <2>1. ASSUME NEW y \in 1 .. n PROVE ls[y].time \in Nat /\ t < ls[y].time
    <3>1. ls[y].time \in Nat /\ ls[1].time \in Nat
      BY <1>1, <1>4, LimitFields
    <3>2. 1 < y => ls[1].time < ls[y].time
      BY <1>1, <1>4 DEF Good, Increasing
    <3> QED BY <3>1, <3>2
  <2> QED BY <2>1
<1>9. Increasing(r)
  <2>1. ASSUME NEW y \in 1 .. n + 1, NEW z \in 1 .. n + 1, y < z PROVE r[y].time < r[z].time
    <3>1. z \in 2 .. n + 1 /\ z - 1 \in 1 .. n
      BY <2>1
    <3>2. r[z].time = ls[z - 1].time
      BY <1>7, <3>1
    <3>3. CASE y = 1
      BY <1>3, <1>6, <1>8, <3>1, <3>2, <3>3
    <3>4. CASE y # 1
      <4>1. y \in 2 .. n + 1 /\ y - 1 \in 1 .. n /\ y - 1 < z - 1
        BY <2>1, <3>4
      <4>2. r[y].time = ls[y - 1].time
        BY <1>7, <4>1
      <4>3. ls[y - 1].time < ls[z - 1].time
        BY <1>1, <3>1, <4>1 DEF Good, Increasing
      <4> QED BY <3>2, <4>2, <4>3
    <3> QED BY <3>3, <3>4
  <2> QED BY <1>6, <2>1 DEF Increasing
<1>10. LastEmpty(r)
  <2>1. n + 1 \in 2 .. n + 1 /\ (n + 1) - 1 = n
    BY <1>4
  <2>2. r[n + 1] = ls[n]
    BY <1>7, <2>1
  <2> QED BY <1>1, <1>6, <2>2 DEF Good, LastEmpty
<1>11. SameUse(ls, r)
  <2>1. ASSUME NEW u \in Nat, NEW c \in Classes, NEW v \in Nat, Shows(ls, u, c, v)
        PROVE  Shows(r, u, c, v)
    <3>1. ls[1].time \in Nat
      BY <1>4, <1>8
    <3>2. NoneBefore(r, u) => NoneBefore(ls, u)
      BY <1>3, <1>6, <3>1 DEF NoneBefore
    <3>3. ASSUME NEW y \in 1 .. n + 1, InForce(r, y, u)
          PROVE  sum_limits_of_limit(r[y], c) = v
      <4>1. CASE y = 1
        <5>1. 2 \in 2 .. n + 1 /\ 2 - 1 = 1 /\ 1 < n + 1 /\ y + 1 = 2
          BY <1>4, <4>1
        <5>2. u < r[2].time /\ r[2] = ls[2 - 1]
          BY <1>6, <1>7, <3>3, <4>1, <5>1 DEF InForce
        <5>3. NoneBefore(ls, u)
          BY <5>1, <5>2 DEF NoneBefore
        <5>4. v = 0
          BY <2>1, <5>3 DEF Shows
        <5>5. sum_limits_of_limit(e, c) = 0
          BY <1>3, SumOfLimit
        <5> QED BY <1>6, <4>1, <5>4, <5>5
      <4>2. CASE y # 1
        <5>1. PICK z \in 1 .. n : z = y - 1
          BY <4>2
        <5>2. y \in 2 .. n + 1 /\ (z < n => y + 1 \in 2 .. n + 1 /\ (y + 1) - 1 = z + 1 /\ y < n + 1)
          BY <5>1
        <5>3. r[y] = ls[z] /\ (z < n => r[y + 1] = ls[z + 1])
          BY <1>7, <5>1, <5>2
        <5>4. r[y].time <= u /\ (y < n + 1 => u < r[y + 1].time)
          BY <1>6, <3>3 DEF InForce
        <5>5. InForce(ls, z, u)
          BY <1>1, <5>2, <5>3, <5>4 DEF InForce
        <5> QED BY <1>1, <2>1, <5>3, <5>5 DEF Shows
      <4> QED BY <4>1, <4>2
    <3> QED BY <1>6, <2>1, <3>2, <3>3 DEF Shows
  <2> QED BY <2>1 DEF SameUse
<1>12. HasTime(r, t)
  BY <1>3, <1>6 DEF HasTime
<1>13. ASSUME NEW u \in Nat, HasTime(ls, u) PROVE HasTime(r, u)
  <2>1. PICK y \in 1 .. n : ls[y].time = u
    BY <1>1, <1>13 DEF HasTime
  <2>2. y + 1 \in 2 .. n + 1 /\ (y + 1) - 1 = y /\ y + 1 \in 1 .. n + 1
    OBVIOUS
  <2>3. r[y + 1] = ls[y]
    BY <1>7, <2>2
  <2> QED BY <1>6, <2>1, <2>2, <2>3 DEF HasTime
<1>14. Extended(ls, r, t)
  BY <1>6, <1>9, <1>10, <1>11, <1>12, <1>13 DEF Extended, Good
<1> QED BY <1>2, <1>3, <1>5, <1>6, <1>14

LEMMA SameUseTransitive ==
  ASSUME NEW a, NEW b, NEW c, SameUse(a, b), SameUse(b, c)
  PROVE  SameUse(a, c)
BY DEF SameUse

\* Both ends of a job get a limit; nothing else changes.
LEMMA WithEndsKeeps ==
  ASSUME NEW ls, Good(ls), NEW start \in Nat, NEW end \in Nat, start <= end
  PROVE  LET r == WithEnds(ls, start, end)
         IN Extended(ls, r, end) /\ HasTime(r, start) /\ r[1].time <= start
<1> DEFINE l1 == IF ls = <<>> THEN <<limit_create(end)>> ELSE ls
           l2 == IF l1[1].time > start THEN <<limit_create(start)>> \o l1 ELSE l1
           l3 == clone_limit_timestamp(l2, start)
           r == clone_limit_timestamp(l3, end)
<1>1. Good(l1) /\ SameUse(ls, l1) /\ l1 # <<>> /\ \A u \in Nat : HasTime(ls, u) => HasTime(l1, u)
  <2>1. CASE ls = <<>>
    <3>1. PICK e \in Limit : e = limit_create(end) /\ e.accounts = <<>>
      BY Created
    <3>2. l1 = <<e>>
      BY <2>1, <3>1
    <3> HIDE DEF l1
    <3>3. l1 \in Seq(Limit) /\ Len(l1) = 1 /\ l1[1] = e /\ l1 # <<>>
      BY <3>2
    <3>4. Good(l1)
      BY <3>1, <3>3 DEF Good, Increasing, LastEmpty
    <3>5. SameUse(ls, l1)
      <4>1. ASSUME NEW u \in Nat, NEW c \in Classes, NEW v \in Nat, Shows(ls, u, c, v)
            PROVE  Shows(l1, u, c, v)
        <5>1. v = 0
          BY <2>1, <4>1 DEF Shows, NoneBefore
        <5>2. sum_limits_of_limit(e, c) = 0
          BY <3>1, SumOfLimit
        <5> QED BY <3>3, <5>1, <5>2 DEF Shows
      <4> QED BY <4>1 DEF SameUse
    <3>6. \A u \in Nat : ~HasTime(ls, u)
      <4>1. Len(ls) = 0
        BY <2>1
      <4> QED BY <4>1 DEF HasTime
    <3> QED BY <3>3, <3>4, <3>5, <3>6
  <2>2. CASE ls # <<>>
    <3>1. l1 = ls
      BY <2>2
    <3> HIDE DEF l1
    <3> QED BY <2>2, <3>1 DEF SameUse
  <2> QED BY <2>1, <2>2
<1> HIDE DEF l1
<1>2. l1[1].time \in Nat
  <2>1. 1 \in 1 .. Len(l1)
    <3>1. l1 \in Seq(Limit)
      BY <1>1 DEF Good
    <3> QED BY <1>1, <3>1
  <2> QED BY <1>1, <2>1, LimitFields
<1>3. /\ Good(l2) /\ SameUse(l1, l2) /\ l2 # <<>> /\ l2[1].time <= start
      /\ \A u \in Nat : HasTime(l1, u) => HasTime(l2, u)
  <2>1. CASE l1[1].time > start
    <3>1. l2 = <<limit_create(start)>> \o l1
      BY <2>1
    <3>2. start < l1[1].time
      BY <1>2, <2>1
    <3>3. Extended(l1, <<limit_create(start)>> \o l1, start) /\ (<<limit_create(start)>> \o l1)[1].time = start
      BY <1>1, <3>2, Prepended
    <3>4. Extended(l1, l2, start) /\ l2[1].time = start
      BY <3>1, <3>3
    <3> HIDE DEF l2
    <3> QED BY <3>4 DEF Extended
  <2>2. CASE ~(l1[1].time > start)
    <3>1. l2 = l1 /\ l1[1].time <= start
      BY <1>2, <2>2
    <3> HIDE DEF l2
    <3> QED BY <1>1, <3>1 DEF SameUse
  <2> QED BY <2>1, <2>2
<1> HIDE DEF l2
<1>4. l2[1].time \in Nat
  <2>1. 1 \in 1 .. Len(l2)
    <3>1. l2 \in Seq(Limit)
      BY <1>3 DEF Good
    <3> QED BY <1>3, <3>1
  <2> QED BY <1>3, <2>1, LimitFields
<1>5. ~NoneBefore(l2, start)
  BY <1>3, <1>4 DEF NoneBefore
<1>6. Extended(l2, l3, start) /\ l3[1] = l2[1]
  BY <1>3, <1>5, Cloned
<1> HIDE DEF l3
<1>7. Good(l3) /\ SameUse(l2, l3) /\ l3 # <<>> /\ HasTime(l3, start)
      /\ \A u \in Nat : HasTime(l2, u) => HasTime(l3, u)
  BY <1>6 DEF Extended
<1>8. ~NoneBefore(l3, end)
  BY <1>3, <1>4, <1>6, <1>7 DEF NoneBefore
<1>9. Extended(l3, r, end) /\ r[1] = l3[1]
  BY <1>7, <1>8, Cloned
<1> HIDE DEF r
<1>10. Good(r) /\ SameUse(l3, r) /\ r # <<>> /\ HasTime(r, end)
       /\ \A u \in Nat : HasTime(l3, u) => HasTime(r, u)
  BY <1>9 DEF Extended
<1>11. SameUse(ls, r)
  <2>1. SameUse(ls, l2)
    BY <1>1, <1>3, SameUseTransitive
  <2>2. SameUse(ls, l3)
    BY <1>7, <2>1, SameUseTransitive
  <2> QED BY <1>10, <2>2, SameUseTransitive
<1>12. \A u \in Nat : HasTime(ls, u) => HasTime(r, u)
  BY <1>1, <1>3, <1>7, <1>10
<1>13. HasTime(r, start) /\ r[1].time <= start
  BY <1>3, <1>6, <1>7, <1>9, <1>10
<1>14. WithEnds(ls, start, end) = r
  BY DEF WithEnds, l1, l2, l3, r
<1>15. Extended(ls, r, end)
  BY <1>10, <1>11, <1>12 DEF Extended
<1> QED BY <1>13, <1>14, <1>15

\* What job j adds to class c at time t.
Share(j, start, end, t, c) ==
  IF start <= t /\ t < end /\ c = walltime_suits_to_limit(end - start) THEN Cpus[j] ELSE 0

\* add_job_to_limits adds the job for as long as it runs and in its class
\* only, and keeps the shape of the list.
LEMMA JobAdded ==
  ASSUME NEW ls, Good(ls), NEW j \in Jobs, NEW start \in Nat, NEW end \in Nat, start <= end,
         walltime_suits_to_limit(end - start) \in Classes
  PROVE  LET r == add_job_to_limits(ls, j, start, end)
         IN /\ Good(r)
            /\ \A t \in Nat, c \in Classes, v \in Nat :
                 Shows(ls, t, c, v) => Shows(r, t, c, v + Share(j, start, end, t, c))
            /\ start < end => Len(r) # 1
<1> USE JobsAssumption
<1>0. PICK class \in Classes : class = walltime_suits_to_limit(end - start)
  OBVIOUS
<1>1. PICK l : l = WithEnds(ls, start, end)
  OBVIOUS
<1>2. Good(l) /\ SameUse(ls, l) /\ l # <<>> /\ HasTime(l, start) /\ HasTime(l, end) /\ l[1].time <= start
  BY <1>1, WithEndsKeeps DEF Extended
<1>3. PICK n \in Nat : n = Len(l) /\ n >= 1
  <2>1. l \in Seq(Limit)
    BY <1>2 DEF Good
  <2> QED BY <1>2, <2>1
<1>4. l \in Seq(Limit) /\ DOMAIN l = 1 .. n
  BY <1>2, <1>3 DEF Good
<1> DEFINE in(x) == l[x].time >= start /\ l[x].time < end
           add(x) == add_limit_to_limit(l[x], Account[j], class, Cpus[j])
           r == [x \in 1 .. n |-> IF in(x) THEN add(x) ELSE l[x]]
<1>5. add_job_to_limits(ls, j, start, end) = r
  BY <1>0, <1>1, <1>4 DEF add_job_to_limits
<1>6. \A x \in 1 .. n : l[x] \in Limit /\ l[x].time \in Nat
  BY <1>2, <1>3, LimitFields
<1>7. Account[j] \in Nat \ {0} /\ Cpus[j] \in Nat
  OBVIOUS
<1>8. ASSUME NEW x \in 1 .. n
      PROVE  /\ r[x] \in Limit /\ r[x].time = l[x].time
             /\ ~in(x) => r[x] = l[x]
             /\ \A c \in Classes : sum_limits_of_limit(r[x], c) =
                  sum_limits_of_limit(l[x], c) + IF in(x) /\ c = class THEN Cpus[j] ELSE 0
  <2>1. CASE in(x)
    <3>1. PICK k \in Limit : k = l[x]
      BY <1>6
    <3>2. PICK q \in Nat \ {0} : q = Account[j]
      BY <1>7
    <3>3. PICK w \in Nat : w = Cpus[j]
      BY <1>7
    <3>4. PICK m : m = add_limit_to_limit(k, q, class, w)
      OBVIOUS
    <3>5. m \in Limit /\ m.time = k.time /\ \A c \in Classes : sum_limits_of_limit(m, c) =
            sum_limits_of_limit(k, c) + (IF c = class THEN w ELSE 0)
      <4>1. Added(k, add_limit_to_limit(k, q, class, w), class, w)
        BY LimitAdded
      <4>2. Added(k, m, class, w)
        BY <3>4, <4>1, Zenon
      <4> QED BY <4>2 DEF Added
    <3>6. r[x] = m
      BY <2>1, <3>1, <3>2, <3>3, <3>4
    <3> HIDE DEF r, in
    <3> QED BY <2>1, <3>1, <3>3, <3>5, <3>6
  <2>2. CASE ~in(x)
    <3>1. r[x] = l[x]
      BY <2>2
    <3>2. \A c \in Classes : sum_limits_of_limit(l[x], c) \in Nat
      BY <1>6, SumOfLimit
    <3> HIDE DEF r, in
    <3> QED BY <1>6, <2>2, <3>1, <3>2
  <2> QED BY <2>1, <2>2
<1>9. r \in Seq(Limit) /\ Len(r) = n /\ DOMAIN r = 1 .. n
  <2>1. r \in [1 .. n -> Limit]
    BY <1>8
  <2> HIDE DEF r
  <2> QED BY <2>1
<1> HIDE DEF r
<1>10. PICK b \in 1 .. n : l[b].time = end
  BY <1>2, <1>3 DEF HasTime
<1>11. PICK a \in 1 .. n : l[a].time = start
  BY <1>2, <1>3 DEF HasTime
<1>12. \A x, y \in 1 .. n : x < y => l[x].time < l[y].time
  BY <1>2, <1>3 DEF Good, Increasing
<1>13. Good(r)
  <2>1. Increasing(r)
    BY <1>8, <1>9, <1>12 DEF Increasing
  <2>2. ~in(n)
    <3>1. b = n \/ l[b].time < l[n].time
      BY <1>3, <1>12
    <3> QED BY <1>3, <1>6, <1>10, <3>1
  <2>3. r[n] = l[n]
    BY <1>3, <1>8, <2>2
  <2>4. LastEmpty(r)
    BY <1>2, <1>3, <1>9, <2>3 DEF Good, LastEmpty
  <2> QED BY <1>9, <2>1, <2>4 DEF Good
<1>14. ASSUME NEW t \in Nat, NEW c \in Classes, NEW v \in Nat, Shows(ls, t, c, v)
       PROVE  Shows(r, t, c, v + Share(j, start, end, t, c))
  <2>1. Shows(l, t, c, v)
    BY <1>2, <1>14 DEF SameUse
  <2>2. NoneBefore(r, t) => v + Share(j, start, end, t, c) = 0
    <3>1. SUFFICES ASSUME NoneBefore(r, t) PROVE v + Share(j, start, end, t, c) = 0
      OBVIOUS
    <3>2. r # <<>> /\ 1 \in 1 .. n
      BY <1>3, <1>9
    <3>3. t < l[1].time
      BY <1>8, <3>1, <3>2 DEF NoneBefore
    <3>4. v = 0
      BY <2>1, <3>3 DEF Shows, NoneBefore
    <3>5. ~(start <= t)
      BY <1>2, <1>6, <3>2, <3>3, SMTT(30)
    <3> QED BY <3>4, <3>5 DEF Share
  <2>3. ASSUME NEW x \in 1 .. n, InForce(r, x, t)
        PROVE  sum_limits_of_limit(r[x], c) = v + Share(j, start, end, t, c)
    <3>1. InForce(l, x, t)
      <4>1. r[x].time <= t /\ (x < n => t < r[x + 1].time)
        BY <1>9, <2>3 DEF InForce
      <4>2. x < n => x + 1 \in 1 .. n
        OBVIOUS
      <4>3. l[x].time <= t /\ (x < n => t < l[x + 1].time)
        BY <1>8, <4>1, <4>2
      <4> QED BY <1>3, <4>3 DEF InForce
    <3>2. sum_limits_of_limit(l[x], c) = v
      BY <1>3, <2>1, <3>1 DEF Shows
    <3>3. /\ l[a].time <= t <=> l[a].time <= l[x].time
          /\ l[b].time <= t <=> l[b].time <= l[x].time
      BY <1>2, <1>3, <3>1, InForceOrder
    <3>4. in(x) <=> start <= t /\ t < end
      BY <1>6, <1>10, <1>11, <3>3
    <3> HIDE DEF in
    <3> QED BY <1>0, <1>8, <3>2, <3>4 DEF Share
  <2> QED BY <1>9, <2>2, <2>3 DEF Shows
<1>15. start < end => Len(r) # 1
  <2>1. start < end => a # b
    BY <1>10, <1>11
  <2> QED BY <1>9, <2>1
<1> QED BY <1>5, <1>13, <1>14, <1>15
-----------------------------------------------------------------------------
(***************************************************************************)
(* The walk of adjust_job_starttime.                                       *)
(***************************************************************************)

HasRoom(l, j) ==
  LET c == walltime_suits_to_limit(Walltime[j]) IN GlobalRoom(l, j, c) /\ UserRoom(l, j, c)

Visit(ls, j, s, x) ==
  IF s = NullSuccessor THEN s
  ELSE IF Meets(ls, x, s, s + Walltime[j]) /\ ~HasRoom(ls[x], j)
  THEN IF x = Len(ls) THEN NullSuccessor ELSE ls[x + 1].time
  ELSE s

StepOf(ls, j, earliest, g, x) == IF x = 0 THEN earliest ELSE Visit(ls, j, g[x - 1], x)

\* g holds the start time after every step of the walk.
Walked(ls, j, earliest, g) ==
  /\ g[0] = earliest
  /\ \A x \in 1 .. Len(ls) : g[x] = Visit(ls, j, g[x - 1], x)
  /\ adjust_job_starttime(ls, j, earliest) = g[Len(ls)]

LEMMA WalkExists ==
  ASSUME NEW ls, Len(ls) \in Nat, NEW j, NEW earliest
  PROVE  \E g : Walked(ls, j, earliest, g)
<1> DEFINE St(g, x) == StepOf(ls, j, earliest, g, x)
           Solves(g) == g = [x \in 0 .. Len(ls) |-> St(g, x)]
           Upto(n, g) == \A x \in 0 .. Len(ls) : x <= n => g[x] = St(g, x)
           N == {n \in Nat : \E g : Upto(n, g)}
<1>1. ASSUME NEW g, NEW h, NEW x \in Nat, x # 0 => g[x - 1] = h[x - 1]
      PROVE  St(g, x) = St(h, x)
  BY <1>1 DEF StepOf
<1>2. 0 \in N
  <2>1. Upto(0, [x \in 0 .. Len(ls) |-> earliest])
    BY DEF StepOf
  <2> HIDE DEF Upto
  <2> QED BY <2>1
<1>3. ASSUME NEW n \in Nat, n \in N PROVE n + 1 \in N
  <2>1. PICK g : Upto(n, g)
    BY <1>3
  <2> DEFINE h == [x \in 0 .. Len(ls) |-> St(g, x)]
  <2>2. ASSUME NEW x \in 0 .. Len(ls), x <= n + 1 PROVE h[x] = St(h, x)
    <3>1. x # 0 => g[x - 1] = h[x - 1]
      <4>1. SUFFICES ASSUME x # 0 PROVE g[x - 1] = h[x - 1]
        OBVIOUS
      <4>2. PICK y \in 0 .. Len(ls) : y = x - 1 /\ y <= n
        BY <2>2, <4>1
      <4>3. g[y] = St(g, y) /\ h[y] = St(g, y)
        <5> HIDE DEF St
        <5> QED BY <2>1, <4>2
      <4> HIDE DEF h, St
      <4> QED BY <4>2, <4>3
    <3>2. St(g, x) = St(h, x)
      <4> HIDE DEF h, St
      <4> QED BY <1>1, <3>1
    <3>3. h[x] = St(g, x)
      <4> HIDE DEF St
      <4> QED OBVIOUS
    <3> HIDE DEF h, St
    <3> QED BY <3>2, <3>3
  <2>3. Upto(n + 1, h)
    <3> HIDE DEF h, St
    <3> QED BY <2>2
  <2> HIDE DEF Upto, h
  <2> QED BY <2>3
<1> HIDE DEF N
<1>4. Len(ls) \in N
  BY <1>2, <1>3, SetInduction
<1>5. PICK g : Upto(Len(ls), g)
  BY <1>4 DEF N
<1> DEFINE h == [x \in 0 .. Len(ls) |-> g[x]]
<1>6. ASSUME NEW x \in 0 .. Len(ls) PROVE g[x] = St(h, x)
  <2>1. g[x] = St(g, x)
    <3> HIDE DEF St
    <3> QED BY <1>5
  <2>2. x # 0 => g[x - 1] = h[x - 1]
    <3>1. x # 0 => x - 1 \in 0 .. Len(ls)
      OBVIOUS
    <3> QED BY <3>1
  <2>3. St(g, x) = St(h, x)
    <3> HIDE DEF h, St
    <3> QED BY <1>1, <2>2
  <2> HIDE DEF h, St
  <2> QED BY <2>1, <2>3
<1>7. Solves(h)
  <2>1. h = [x \in 0 .. Len(ls) |-> St(h, x)]
    <3>1. \A x \in 0 .. Len(ls) : g[x] = St(h, x)
      <4> HIDE DEF h, St
      <4> QED BY <1>6
    <3> HIDE DEF St
    <3> QED BY <3>1, Zenon
  <2> HIDE DEF h, St
  <2> QED BY <2>1
<1> HIDE DEF h
<1> DEFINE w == CHOOSE k : Solves(k)
<1>8. Solves(w)
  <2> HIDE DEF Solves
  <2> QED BY <1>7
<1>9. adjust_job_starttime(ls, j, earliest) = w[Len(ls)]
  BY DEF adjust_job_starttime, StepOf, Visit, HasRoom
<1> HIDE DEF w
<1>10. \A x \in 0 .. Len(ls) : w[x] = St(w, x)
  <2> HIDE DEF St
  <2> QED BY <1>8
<1>11. w[0] = earliest /\ \A x \in 1 .. Len(ls) : w[x] = Visit(ls, j, w[x - 1], x)
  <2>1. 0 \in 0 .. Len(ls) /\ \A x \in 1 .. Len(ls) : x \in 0 .. Len(ls) /\ x # 0
    OBVIOUS
  <2> QED BY <1>10, <2>1 DEF StepOf
<1>12. Walked(ls, j, earliest, w)
  BY <1>9, <1>11 DEF Walked
<1> QED BY <1>12

\* After x steps of the walk no limit up to x that the job meets lacks room.
RoomUpto(ls, j, s, x) ==
  \A y \in 1 .. x : Meets(ls, y, s, s + Walltime[j]) => HasRoom(ls[y], j)

\* Where the walk ends every limit the job meets has room for it.
LEMMA WalkEndsInRoom ==
  ASSUME NEW ls, Good(ls), NEW j \in Jobs, NEW earliest \in Nat,
         NEW s, s = adjust_job_starttime(ls, j, earliest), s # NullSuccessor
  PROVE  s \in Nat /\ RoomUpto(ls, j, s, Len(ls))
<1>1. PICK n \in Nat : n = Len(ls)
  BY LimitFields
<1>2. PICK g : Walked(ls, j, earliest, g)
  BY <1>1, WalkExists
<1>3. g[0] = earliest /\ \A x \in 1 .. n : g[x] = Visit(ls, j, g[x - 1], x)
  BY <1>1, <1>2 DEF Walked
<1>4. s = g[n]
  BY <1>1, <1>2 DEF Walked
<1>5. \A x \in 1 .. n : ls[x].time \in Nat
  BY <1>1, LimitFields
<1> DEFINE Ok(x) == g[x] # NullSuccessor => g[x] \in Nat /\ RoomUpto(ls, j, g[x], x)
           S == {x \in Nat : x <= n => Ok(x)}
<1>6. 0 \in S
  BY <1>3 DEF RoomUpto
<1>7. ASSUME NEW x \in Nat, x \in S PROVE x + 1 \in S
  <2>0. SUFFICES ASSUME x + 1 <= n PROVE Ok(x + 1)
    <3> HIDE DEF Ok
    <3> QED OBVIOUS
  <2>1. SUFFICES ASSUME g[x + 1] # NullSuccessor
                 PROVE  g[x + 1] \in Nat /\ RoomUpto(ls, j, g[x + 1], x + 1)
    OBVIOUS
  <2>2. x + 1 \in 1 .. n /\ (x + 1) - 1 = x
    BY <2>0
  <2>3. g[x + 1] = Visit(ls, j, g[x], x + 1)
    BY <1>3, <2>2
  <2>4. g[x] # NullSuccessor
    BY <2>1, <2>3 DEF Visit
  <2>5. g[x] \in Nat /\ RoomUpto(ls, j, g[x], x)
    <3>1. x <= n
      BY <2>0
    <3> QED BY <1>7, <2>4, <3>1
  <2>6. CASE Meets(ls, x + 1, g[x], g[x] + Walltime[j]) /\ ~HasRoom(ls[x + 1], j)
    <3>1. x + 1 # n /\ g[x + 1] = ls[(x + 1) + 1].time
      BY <1>1, <2>1, <2>3, <2>4, <2>6 DEF Visit
    <3>2. PICK z \in 1 .. n : z = (x + 1) + 1
      BY <2>2, <3>1
    <3>3. PICK s1 \in Nat : s1 = ls[z].time /\ g[x + 1] = s1
      BY <1>5, <3>1, <3>2
    <3>4. ASSUME NEW y \in 1 .. x + 1 PROVE ~Meets(ls, y, s1, s1 + Walltime[j])
      <4>1. y \in 1 .. n /\ y + 1 \in 1 .. n /\ y < z /\ (y + 1 < z \/ y + 1 = z)
        BY <2>2, <3>2
      <4>2. ls[y].time < s1
        BY <1>1, <3>3, <4>1 DEF Good, Increasing
      <4>3. ls[y + 1].time <= s1
        <5>1. y + 1 < z => ls[y + 1].time < ls[z].time
          BY <1>1, <4>1 DEF Good, Increasing
        <5> QED BY <1>5, <3>3, <4>1, <5>1
      <4>4. ~(ls[y].time > s1) /\ ~(ls[y + 1].time > s1)
        BY <1>5, <4>1, <4>2, <4>3
      <4> QED BY <4>4 DEF Meets
    <3> QED BY <3>3, <3>4 DEF RoomUpto
  <2>7. CASE ~(Meets(ls, x + 1, g[x], g[x] + Walltime[j]) /\ ~HasRoom(ls[x + 1], j))
    <3>1. g[x + 1] = g[x]
      BY <2>3, <2>4, <2>7 DEF Visit
    <3>2. ASSUME NEW y \in 1 .. x + 1, Meets(ls, y, g[x], g[x] + Walltime[j]) PROVE HasRoom(ls[y], j)
      <4>1. CASE y = x + 1
        BY <2>7, <3>2, <4>1
      <4>2. CASE y # x + 1
        <5>1. y \in 1 .. x
          BY <4>2
        <5> QED BY <2>5, <3>2, <5>1 DEF RoomUpto
      <4> QED BY <4>1, <4>2
    <3> QED BY <2>5, <3>1, <3>2 DEF RoomUpto
  <2> QED BY <2>6, <2>7
<1> HIDE DEF S
<1>8. n \in S
  BY <1>6, <1>7, SetInduction
<1> QED BY <1>1, <1>4, <1>8 DEF S

\* A job stays at the start of a gap that limits_is_gap_ok accepts.  A job
\* without walltime is not compared with a limit that begins at its start.
LEMMA GapStays ==
  ASSUME NEW ls, Good(ls), NEW j \in Jobs, NEW start \in Nat, Walltime[j] > 0,
         limits_is_gap_ok(ls, j, start, start + Walltime[j])
  PROVE  adjust_job_starttime(ls, j, start) = start
<1>1. PICK n \in Nat : n = Len(ls)
  BY LimitFields
<1>2. PICK g : Walked(ls, j, start, g)
  BY <1>1, WalkExists
<1>3. g[0] = start /\ \A x \in 1 .. n : g[x] = Visit(ls, j, g[x - 1], x)
  BY <1>1, <1>2 DEF Walked
<1>4. PICK w \in Nat : w = Walltime[j] /\ w > 0
  BY JobsAssumption
<1>5. ASSUME NEW x \in 1 .. n, Meets(ls, x, start, start + Walltime[j]) PROVE HasRoom(ls[x], j)
  <2>1. PICK t \in Nat : t = ls[x].time
    BY <1>1, LimitFields
  <2>2. x \in DOMAIN ls
    BY <1>1 DEF Good
  <2>3. \/ ls[x].time >= start /\ ls[x].time < start + Walltime[j]
        \/ x < Len(ls) /\ ls[x].time < start /\ ls[x + 1].time > start
    <3>1. CASE x < Len(ls) /\ ls[x].time <= start /\ ls[x + 1].time > start
      <4>1. t < start \/ (t = start /\ t < start + w)
        BY <1>4, <2>1, <3>1
      <4> QED BY <1>4, <2>1, <3>1, <4>1
    <3>2. CASE ls[x].time > start /\ ls[x].time < start + Walltime[j]
      BY <2>1, <3>2
    <3> QED BY <1>5, <3>1, <3>2 DEF Meets
  <2> QED BY <2>2, <2>3 DEF limits_is_gap_ok, HasRoom
<1> DEFINE S == {x \in Nat : x <= n => g[x] = start}
<1>6. 0 \in S
  BY <1>3
<1>7. ASSUME NEW x \in Nat, x \in S PROVE x + 1 \in S
  <2>1. SUFFICES ASSUME x + 1 <= n PROVE g[x + 1] = start
    OBVIOUS
  <2>2. x + 1 \in 1 .. n /\ (x + 1) - 1 = x /\ g[x] = start
    BY <1>7, <2>1
  <2>3. g[x + 1] = Visit(ls, j, start, x + 1)
    BY <1>3, <2>2
  <2> QED BY <1>5, <2>2, <2>3 DEF Visit
<1> HIDE DEF S
<1>8. n \in S
  BY <1>6, <1>7, SetInduction
<1> QED BY <1>1, <1>2, <1>8 DEF S, Walked

\* A job that the last, empty limit has no room for has room nowhere.
LEMMA RoomNowhere ==
  ASSUME NEW ls, Good(ls), ls # <<>>, NEW j \in Jobs, values \in LimitValues,
         walltime_suits_to_limit(Walltime[j]) \in Classes,
         ~HasRoom(ls[Len(ls)], j)
  PROVE  \A x \in 1 .. Len(ls) : ~HasRoom(ls[x], j)
<1>1. PICK c \in Classes : c = walltime_suits_to_limit(Walltime[j])
  OBVIOUS
<1>2. PICK w \in Nat : w = Cpus[j]
  BY JobsAssumption
<1>3. PICK m \in Nat : m = values.global[c]
  <2>1. values.global \in [Classes -> Nat]
    BY ThresholdsAssumption DEF Classes
  <2> QED BY <2>1
<1>4. PICK l \in Limit : l = ls[Len(ls)] /\ l.accounts = <<>>
  <2>1. Len(ls) \in 1 .. Len(ls)
    BY DEF Good
  <2>2. ls[Len(ls)] \in Limit
    BY <2>1, LimitFields
  <2>3. ls[Len(ls)].accounts = <<>>
    BY DEF Good, LastEmpty
  <2> QED BY <2>2, <2>3
<1>5. UserRoom(l, j, c)
  <2>1. limit_find_account(l.accounts, Account[j]) = 0
    BY <1>4 DEF limit_find_account
  <2> QED BY <2>1 DEF UserRoom
<1>6. sum_limits_of_limit(l, c) = 0
  BY <1>4, SumOfLimit
<1>7. ~(w <= m)
  <2>1. ~GlobalRoom(l, j, c)
    BY <1>1, <1>4, <1>5 DEF HasRoom
  <2> QED BY <1>2, <1>3, <1>6, <2>1 DEF GlobalRoom
<1>8. ASSUME NEW x \in 1 .. Len(ls) PROVE ~HasRoom(ls[x], j)
  <2>1. PICK v \in Nat : v = sum_limits_of_limit(ls[x], c)
    BY LimitFields, SumOfLimit
  <2>2. ~(v + w <= m)
    BY <1>7
  <2>3. ~GlobalRoom(ls[x], j, c)
    BY <1>2, <1>3, <2>1, <2>2 DEF GlobalRoom
  <2> QED BY <1>1, <2>3 DEF HasRoom
<1> QED BY <1>8

\* The walk does not run off the list: a job without room anywhere moves from
\* limit to limit up to the last, which it then starts in, or it ends before
\* the first.  A list of one limit would be different.
LEMMA WalkStaysInList ==
  ASSUME NEW ls, Good(ls), Len(ls) # 1, NEW j \in Jobs, NEW earliest \in Nat, values \in LimitValues,
         walltime_suits_to_limit(Walltime[j]) \in Classes
  PROVE  adjust_job_starttime(ls, j, earliest) # NullSuccessor
<1>1. PICK n \in Nat : n = Len(ls)
  BY LimitFields
<1>2. PICK g : Walked(ls, j, earliest, g)
  BY <1>1, WalkExists
<1>3. g[0] = earliest /\ \A x \in 1 .. n : g[x] = Visit(ls, j, g[x - 1], x)
  BY <1>1, <1>2 DEF Walked
<1>4. SUFFICES ASSUME g[n] = NullSuccessor PROVE FALSE
  BY <1>1, <1>2 DEF Walked
<1>5. NullSuccessor \notin Nat
  BY DEF NullSuccessor
<1>6. n >= 2
  BY <1>1, <1>3, <1>4, <1>5
<1>7. \A x \in 1 .. n : ls[x].time \in Nat
  BY <1>1, LimitFields
<1>8. \A x, y \in 1 .. n : x < y => ls[x].time < ls[y].time
  BY <1>1 DEF Good, Increasing
<1>9. \A x \in 0 .. n - 1 : g[x] \in Nat
  <2> DEFINE S == {x \in Nat : x < n => g[x] \in Nat}
  <2>1. 0 \in S
    BY <1>3
  <2>2. ASSUME NEW x \in Nat, x \in S PROVE x + 1 \in S
    <3>1. SUFFICES ASSUME x + 1 < n PROVE g[x + 1] \in Nat
      OBVIOUS
    <3>2. x + 1 \in 1 .. n /\ (x + 1) + 1 \in 1 .. n /\ (x + 1) - 1 = x /\ x + 1 # n /\ g[x] \in Nat
      BY <2>2, <3>1
    <3>3. g[x + 1] = Visit(ls, j, g[x], x + 1)
      BY <1>3, <3>2
    <3>4. g[x + 1] = g[x] \/ g[x + 1] = ls[(x + 1) + 1].time
      BY <1>1, <3>2, <3>3 DEF Visit
    <3> QED BY <1>7, <3>2, <3>4
  <2> HIDE DEF S
  <2>3. \A x \in Nat : x \in S
    BY <2>1, <2>2, SetInduction
  <2> QED BY <2>3 DEF S
<1>10. PICK s \in Nat : s = g[n - 1]
  <2>1. n - 1 \in 0 .. n - 1
    BY <1>6
  <2> QED BY <1>9, <2>1
<1>11. Meets(ls, n, s, s + Walltime[j]) /\ ~HasRoom(ls[n], j)
  <2>1. n \in 1 .. n
    BY <1>6
  <2>2. Visit(ls, j, s, n) = NullSuccessor /\ s # NullSuccessor
    BY <1>3, <1>4, <1>5, <1>10, <2>1
  <2> QED BY <2>2 DEF Visit
<1>12. ls[n].time > s /\ ls[n].time < s + Walltime[j]
  BY <1>1, <1>11 DEF Meets
<1>13. \A x \in 1 .. n : ~HasRoom(ls[x], j)
  <2>1. ls # <<>>
    BY <1>1, <1>6
  <2> QED BY <1>1, <1>11, <2>1, RoomNowhere
<1>14. PICK w \in Nat : w = Walltime[j]
  BY JobsAssumption
<1> DEFINE Passed(x) == g[x] >= ls[x + 1].time \/ g[x] + w <= ls[1].time
           Q == {x \in Nat : x + 1 < n => Passed(x + 1)}
<1>15. ASSUME NEW x \in 1 .. n - 1
       PROVE  /\ g[x - 1] \in Nat /\ g[x] \in Nat
              /\ ls[x].time \in Nat /\ ls[x + 1].time \in Nat /\ ls[1].time \in Nat
              /\ ls[x].time < ls[x + 1].time
              /\ 1 < x => ls[1].time < ls[x].time
              /\ \/ g[x] = ls[x + 1].time
                 \/ /\ g[x] = g[x - 1]
                    /\ ~(ls[x].time <= g[x - 1] /\ ls[x + 1].time > g[x - 1])
                    /\ ~(ls[x].time > g[x - 1] /\ ls[x].time < g[x - 1] + w)
  <2>1. x \in 1 .. n /\ x + 1 \in 1 .. n /\ x < n /\ x # n /\ 1 \in 1 .. n
        /\ x - 1 \in 0 .. n - 1 /\ x \in 0 .. n - 1
    BY <1>6
  <2>2. g[x] = Visit(ls, j, g[x - 1], x) /\ ~HasRoom(ls[x], j)
    BY <1>3, <1>13, <2>1
  <2>3. g[x - 1] \in Nat /\ g[x - 1] # NullSuccessor /\ g[x] \in Nat
    BY <1>5, <1>9, <2>1
  <2>4. g[x] = IF Meets(ls, x, g[x - 1], g[x - 1] + w) THEN ls[x + 1].time ELSE g[x - 1]
    BY <1>1, <1>14, <2>1, <2>2, <2>3 DEF Visit
  <2>5. Meets(ls, x, g[x - 1], g[x - 1] + w) <=>
          \/ ls[x].time <= g[x - 1] /\ ls[x + 1].time > g[x - 1]
          \/ ls[x].time > g[x - 1] /\ ls[x].time < g[x - 1] + w
    BY <1>1, <2>1 DEF Meets
  <2>6. /\ ls[x].time \in Nat /\ ls[x + 1].time \in Nat /\ ls[1].time \in Nat
        /\ ls[x].time < ls[x + 1].time /\ (1 < x => ls[1].time < ls[x].time)
    BY <1>7, <1>8, <2>1
  <2> QED BY <2>3, <2>4, <2>5, <2>6
<1>16. 0 \in Q
  <2>1. SUFFICES ASSUME 1 < n PROVE Passed(1)
    OBVIOUS
  <2>2. 1 \in 1 .. n - 1
    BY <1>6
  <2> QED BY <1>15, <2>2
<1>17. ASSUME NEW x \in Nat, x \in Q PROVE x + 1 \in Q
  <2>1. SUFFICES ASSUME (x + 1) + 1 < n PROVE Passed((x + 1) + 1)
    <3> HIDE DEF Passed
    <3> QED OBVIOUS
  <2>2. PICK y \in 1 .. n - 1 : y = (x + 1) + 1
    BY <2>1
  <2>3. y - 1 = x + 1 /\ (y - 1) + 1 = y /\ 1 < y
    BY <2>2
  <2>4. g[y - 1] >= ls[y].time \/ g[y - 1] + w <= ls[1].time
    <3>1. x + 1 < n
      BY <2>1
    <3>2. Passed(x + 1)
      <4> HIDE DEF Passed
      <4> QED BY <1>17, <3>1
    <3> QED BY <2>2, <2>3, <3>2
  <2>5. g[y] >= ls[y + 1].time \/ g[y] + w <= ls[1].time
    BY <1>15, <2>3, <2>4
  <2> QED BY <2>2, <2>5
<1> HIDE DEF Q
<1>18. \A x \in Nat : x \in Q
  BY <1>16, <1>17, SetInduction
<1>19. Passed(n - 1)
  <2>1. n - 2 \in Nat /\ (n - 2) + 1 = n - 1 /\ n - 1 < n
    BY <1>6
  <2>2. n - 2 \in Q
    BY <1>18, <2>1
  <2> HIDE DEF Passed
  <2> QED BY <2>1, <2>2 DEF Q
<1>20. s >= ls[n].time \/ s + w <= ls[1].time
  <2>1. (n - 1) + 1 = n
    BY <1>6
  <2> QED BY <1>10, <1>19, <2>1
<1>21. ls[1].time \in Nat /\ ls[n].time \in Nat /\ ls[1].time < ls[n].time
  BY <1>6, <1>7, <1>8
<1> QED BY <1>12, <1>14, <1>20, <1>21
-----------------------------------------------------------------------------
(***************************************************************************)
(* The invariant: at every time, not only at the instants of LimitsExact,  *)
(* the list shows what the jobs use, and jobs not reached use nothing.     *)
(***************************************************************************)

InUse(s, t, c) ==
  {j \in Jobs : /\ s[j].start <= t /\ t < s[j].end
                /\ walltime_suits_to_limit(s[j].end - s[j].start) = c}

Exact == \A t \in Nat, c \in Classes : Shows(limits, t, c, UseAt(Jobs, t, c))

LInv ==
  /\ TypeOK
  /\ Good(limits)
  /\ \A j \in todo : slot[j] = NoSlot
  /\ Exact

LEMMA UseIsSum ==
  ASSUME NEW t, NEW c
  PROVE  /\ UseAt(Jobs, t, c) = SumFunctionOnSet(Cpus, InUse(slot, t, c))
         /\ UseAt(Jobs, t, c)' = SumFunctionOnSet(Cpus, InUse(slot', t, c))
BY DEF UseAt, InUse

LEMMA UseType ==
  ASSUME NEW s, NEW t, NEW c
  PROVE  IsFiniteSet(InUse(s, t, c)) /\ SumFunctionOnSet(Cpus, InUse(s, t, c)) \in Nat
<1>1. InUse(s, t, c) \subseteq Jobs
  BY DEF InUse
<1>2. IsFiniteSet(InUse(s, t, c))
  BY <1>1, JobsAssumption, FS_Subset
<1>3. \A j \in InUse(s, t, c) : Cpus[j] \in Nat
  BY <1>1, JobsAssumption
<1> QED BY <1>2, <1>3, SumType

\* Between slots s and r job j has got its own.
GetsSlot(s, r, j, start, end) ==
  /\ s \in [Jobs -> [start : Nat, end : Nat]] /\ s[j] = NoSlot
  /\ r = [s EXCEPT ![j] = [start |-> start, end |-> end]]

\* A job that gets its slot adds its share to the use.
LEMMA UseAdded ==
  ASSUME NEW s, NEW r, NEW j \in Jobs, NEW start \in Nat, NEW end \in Nat, NEW t \in Nat, NEW c,
         GetsSlot(s, r, j, start, end)
  PROVE  SumFunctionOnSet(Cpus, InUse(r, t, c)) =
           SumFunctionOnSet(Cpus, InUse(s, t, c)) + Share(j, start, end, t, c)
<1>1. r[j].start = start /\ r[j].end = end /\ \A i \in Jobs \ {j} : r[i] = s[i]
  BY DEF GetsSlot
<1>2. PICK U : U = InUse(s, t, c)
  OBVIOUS
<1>3. IsFiniteSet(U) /\ U \subseteq Jobs /\ SumFunctionOnSet(Cpus, U) \in Nat
  <2>1. U \subseteq Jobs
    BY <1>2 DEF InUse
  <2>2. IsFiniteSet(InUse(s, t, c)) /\ SumFunctionOnSet(Cpus, InUse(s, t, c)) \in Nat
    BY UseType, Zenon
  <2> QED BY <1>2, <2>1, <2>2, Zenon
<1>4. j \notin U
  BY <1>2 DEF GetsSlot, InUse, NoSlot
<1>5. Cpus[j] \in Nat /\ \A i \in U : Cpus[i] \in Int
  <2>1. \A i \in Jobs : Cpus[i] \in Nat
    BY JobsAssumption
  <2> QED BY <1>3, <2>1
<1>6. CASE start <= t /\ t < end /\ c = walltime_suits_to_limit(end - start)
  <2>1. InUse(r, t, c) = U \union {j}
    <3>1. ASSUME NEW i \in Jobs PROVE i \in InUse(r, t, c) <=> i \in U \union {j}
      <4>1. CASE i = j
        BY <1>1, <1>6, <4>1 DEF InUse
      <4>2. CASE i # j
        BY <1>1, <1>2, <4>2 DEF InUse
      <4> QED BY <4>1, <4>2
    <3>2. InUse(r, t, c) \subseteq Jobs
      BY DEF InUse
    <3> QED BY <1>3, <3>1, <3>2
  <2>2. SumFunctionOnSet(Cpus, U \union {j}) = Cpus[j] + SumFunctionOnSet(Cpus, U)
    BY <1>3, <1>4, <1>5, SumAdd
  <2>3. Share(j, start, end, t, c) = Cpus[j]
    BY <1>6 DEF Share
  <2>4. SumFunctionOnSet(Cpus, InUse(r, t, c)) = Cpus[j] + SumFunctionOnSet(Cpus, U)
    BY <2>1, <2>2, Zenon
  <2> QED BY <1>2, <1>3, <1>5, <2>3, <2>4
<1>7. CASE ~(start <= t /\ t < end /\ c = walltime_suits_to_limit(end - start))
  <2>1. InUse(r, t, c) = U
    <3>1. ASSUME NEW i \in Jobs PROVE i \in InUse(r, t, c) <=> i \in U
      <4>1. CASE i = j
        BY <1>1, <1>4, <1>7, <4>1 DEF InUse
      <4>2. CASE i # j
        BY <1>1, <1>2, <4>2 DEF InUse
      <4> QED BY <4>1, <4>2
    <3>2. InUse(r, t, c) \subseteq Jobs
      BY DEF InUse
    <3> QED BY <1>3, <3>1, <3>2
  <2>2. Share(j, start, end, t, c) = 0
    BY <1>7 DEF Share
  <2> QED BY <1>2, <1>3, <2>1, <2>2
<1> QED BY <1>6, <1>7

\* No job has a slot and the list is empty: after Init and StartUpdate.
LEMMA EmptyShows ==
  ASSUME NEW s, s = [j \in Jobs |-> NoSlot], NEW t \in Nat, NEW c
  PROVE  Shows(<<>>, t, c, SumFunctionOnSet(Cpus, InUse(s, t, c)))
<1>1. InUse(s, t, c) = {}
  BY DEF InUse, NoSlot
<1>2. SumFunctionOnSet(Cpus, {}) = 0
  BY FS_EmptySet, SumUnfold
<1>3. Len(<<>>) = 0 /\ 1 .. 0 = {}
  OBVIOUS
<1> QED BY <1>1, <1>2, <1>3 DEF Shows

LEMMA EmptyGood == Good(<<>>)
BY DEF Good, Increasing, LastEmpty

LEMMA TypesInit ==
  ASSUME Init
  PROVE  LInv
<1>1. TypeOK
  BY DEF Init, TypeOK, NoSlot
<1>2. Exact
  <2>1. ASSUME NEW t \in Nat, NEW c \in Classes PROVE Shows(limits, t, c, UseAt(Jobs, t, c))
    <3>1. limits = <<>> /\ slot = [j \in Jobs |-> NoSlot]
      BY DEF Init
    <3>2. Shows(<<>>, t, c, SumFunctionOnSet(Cpus, InUse(slot, t, c)))
      BY <3>1, EmptyShows
    <3> QED BY <3>1, <3>2, UseIsSum
  <2> QED BY <2>1 DEF Exact
<1> QED BY <1>1, <1>2, EmptyGood DEF Init, LInv

\* The step that gives job j its slot.
Placed(j, start, end) ==
  /\ limits' = add_job_to_limits(limits, j, start, end)
  /\ slot' = [slot EXCEPT ![j] = [start |-> start, end |-> end]]
  /\ todo' = todo \ {j}
  /\ UNCHANGED <<values, result>>

LEMMA PlacedKeeps ==
  ASSUME LInv, NEW j \in todo, NEW start \in Nat, NEW end \in Nat, start <= end,
         walltime_suits_to_limit(end - start) \in Classes, Placed(j, start, end)
  PROVE  LInv' /\ (start < end => Len(limits') # 1)
<1>1. j \in Jobs /\ slot \in [Jobs -> [start : Nat, end : Nat]] /\ slot[j] = NoSlot /\ todo \subseteq Jobs
      /\ values \in LimitValues /\ result \in {"ok", "noClass", "nullSuccessor"}
  BY DEF LInv, TypeOK
<1>2. /\ Good(limits')
      /\ \A t \in Nat, c \in Classes, v \in Nat :
           Shows(limits, t, c, v) => Shows(limits', t, c, v + Share(j, start, end, t, c))
      /\ start < end => Len(limits') # 1
  <2>1. Good(limits) /\ limits' = add_job_to_limits(limits, j, start, end)
    BY DEF LInv, Placed
  <2> QED BY <1>1, <2>1, JobAdded
<1>3. slot' = [slot EXCEPT ![j] = [start |-> start, end |-> end]]
  BY DEF Placed
<1>4. Exact'
  <2>1. ASSUME NEW t \in Nat, NEW c \in Classes PROVE Shows(limits', t, c, UseAt(Jobs, t, c)')
    <3>1. PICK v \in Nat : v = SumFunctionOnSet(Cpus, InUse(slot, t, c))
      BY UseType
    <3>2. Shows(limits, t, c, v)
      BY <3>1, UseIsSum DEF LInv, Exact
    <3>3. Shows(limits', t, c, v + Share(j, start, end, t, c))
      BY <1>2, <3>2
    <3>4. SumFunctionOnSet(Cpus, InUse(slot', t, c)) = v + Share(j, start, end, t, c)
      <4>1. GetsSlot(slot, slot', j, start, end)
        BY <1>1, <1>3 DEF GetsSlot
      <4> QED BY <1>1, <3>1, <4>1, UseAdded
    <3> QED BY <3>3, <3>4, UseIsSum
  <2> QED BY <2>1 DEF Exact, Shows, NoneBefore, InForce
<1>5. TypeOK'
  <2>1. limits' \in Seq(Limit)
    BY <1>2 DEF Good
  <2>2. slot' \in [Jobs -> [start : Nat, end : Nat]]
    BY <1>1, <1>3
  <2>3. todo' \subseteq Jobs /\ values' \in LimitValues /\ result' \in {"ok", "noClass", "nullSuccessor"}
    BY <1>1 DEF Placed
  <2> QED BY <2>1, <2>2, <2>3 DEF TypeOK, Limit, Entry
<1>6. \A i \in todo' : slot'[i] = NoSlot
  <2>1. ASSUME NEW i \in todo' PROVE slot'[i] = NoSlot
    <3>1. i \in todo /\ i # j
      BY DEF Placed
    <3>2. i \in Jobs /\ slot[i] = NoSlot
      BY <1>1, <3>1 DEF LInv
    <3> QED BY <1>1, <1>3, <3>1, <3>2
  <2> QED BY <2>1
<1>7. Good(limits)'
  BY <1>2 DEF Good, Increasing, LastEmpty
<1> QED BY <1>2, <1>4, <1>5, <1>6, <1>7 DEF LInv

\* A job without a walltime class only ends the behaviour; nor does the null
\* successor change the plan.
LEMMA NothingPlaced ==
  ASSUME LInv, UNCHANGED <<limits, todo, slot, values>>, result' \in {"ok", "noClass", "nullSuccessor"}
  PROVE  LInv'
<1>1. limits' = limits /\ todo' = todo /\ slot' = slot /\ values' = values
  OBVIOUS
<1>2. TypeOK'
  BY <1>1 DEF LInv, TypeOK
<1>3. Exact'
  <2>1. ASSUME NEW t \in Nat, NEW c \in Classes PROVE Shows(limits', t, c, UseAt(Jobs, t, c)')
    <3>1. UseAt(Jobs, t, c)' = UseAt(Jobs, t, c)
      BY <1>1, UseIsSum
    <3>2. Shows(limits, t, c, UseAt(Jobs, t, c))
      BY DEF LInv, Exact
    <3> QED BY <1>1, <3>1, <3>2
  <2> QED BY <2>1 DEF Exact, Shows, NoneBefore, InForce
<1>4. Good(limits')
  BY <1>1 DEF LInv
<1>5. Good(limits)'
  BY <1>4 DEF Good, Increasing, LastEmpty
<1>6. \A j \in todo' : slot'[j] = NoSlot
  BY <1>1 DEF LInv
<1> QED BY <1>2, <1>3, <1>5, <1>6 DEF LInv

LEMMA StartUpdateKeeps ==
  ASSUME LInv, StartUpdate
  PROVE  LInv'
<1>1. limits' = <<>> /\ todo' = Jobs /\ slot' = [j \in Jobs |-> NoSlot] /\ values' \in LimitValues
      /\ result' = result
  BY DEF StartUpdate
<1>2. TypeOK'
  <2>1. slot' \in [Jobs -> [start : Nat, end : Nat]]
    BY <1>1 DEF NoSlot
  <2> QED BY <1>1, <2>1 DEF LInv, TypeOK
<1>3. Exact'
  <2>1. ASSUME NEW t \in Nat, NEW c \in Classes PROVE Shows(limits', t, c, UseAt(Jobs, t, c)')
    <3>1. Shows(<<>>, t, c, SumFunctionOnSet(Cpus, InUse(slot', t, c)))
      BY <1>1, EmptyShows
    <3> QED BY <1>1, <3>1, UseIsSum
  <2> QED BY <2>1 DEF Exact, Shows, NoneBefore, InForce
<1>4. Good(limits')
  BY <1>1, EmptyGood
<1>5. Good(limits)'
  BY <1>4 DEF Good, Increasing, LastEmpty
<1>6. \A j \in todo' : slot'[j] = NoSlot
  BY <1>1
<1> QED BY <1>2, <1>3, <1>5, <1>6 DEF LInv

PositiveWalltimes == \A j \in Jobs : Walltime[j] > 0

\* What a step of either kind of job does.
LEMMA AddRunningStep ==
  ASSUME LInv, NEW j \in Jobs, AddRunning(j)
  PROVE  \/ UNCHANGED <<limits, todo, slot, values>> /\ result' = "noClass"
         \/ \E start, end \in Nat :
              /\ start <= end /\ (PositiveWalltimes => start < end)
              /\ walltime_suits_to_limit(end - start) \in Classes /\ Placed(j, start, end)
<1>1. PICK w \in Nat : w = Walltime[j]
  BY JobsAssumption
<1>2. Now \in Nat /\ Horizon \in Nat /\ values' = values
  BY JobsAssumption DEF AddRunning
<1>3. PICK start \in 0 .. Horizon : \E end \in {start + w} \cup {e \in {Now + 1} : start + w <= Now} :
          IF walltime_suits_to_limit(end - start) \in Classes
          THEN /\ limits' = add_job_to_limits(limits, j, start, end)
               /\ slot' = [slot EXCEPT ![j] = [start |-> start, end |-> end]]
               /\ todo' = todo \ {j}
               /\ UNCHANGED result
          ELSE result' = "noClass" /\ UNCHANGED <<limits, slot, todo>>
  BY <1>1 DEF AddRunning
<1>4. PICK end \in {start + w} \cup {e \in {Now + 1} : start + w <= Now} :
          IF walltime_suits_to_limit(end - start) \in Classes
          THEN /\ limits' = add_job_to_limits(limits, j, start, end)
               /\ slot' = [slot EXCEPT ![j] = [start |-> start, end |-> end]]
               /\ todo' = todo \ {j}
               /\ UNCHANGED result
          ELSE result' = "noClass" /\ UNCHANGED <<limits, slot, todo>>
  BY <1>3
<1>5. start \in Nat /\ end \in Nat /\ start <= end /\ (w > 0 => start < end)
  BY <1>2
<1>6. PositiveWalltimes => w > 0
  BY <1>1 DEF PositiveWalltimes
<1>7. CASE walltime_suits_to_limit(end - start) \in Classes
  <2>1. Placed(j, start, end)
    BY <1>2, <1>4, <1>7 DEF Placed
  <2> QED BY <1>5, <1>6, <1>7, <2>1
<1>8. CASE walltime_suits_to_limit(end - start) \notin Classes
  BY <1>2, <1>4, <1>8
<1> QED BY <1>7, <1>8

LEMMA PlanQueuedStep ==
  ASSUME LInv, NEW j \in Jobs, PlanQueued(j)
  PROVE  \/ UNCHANGED <<limits, todo, slot, values>> /\ result' = "noClass"
         \/ /\ walltime_suits_to_limit(Walltime[j]) \in Classes
            /\ \E earliest \in Nat : LET start == adjust_job_starttime(limits, j, earliest)
                                     IN \/ /\ start = NullSuccessor
                                           /\ UNCHANGED <<limits, todo, slot, values>>
                                           /\ result' = "nullSuccessor"
                                        \/ /\ start # NullSuccessor
                                           /\ Placed(j, start, start + Walltime[j])
<1>1. values' = values /\ Now .. Horizon \subseteq Nat
  BY JobsAssumption DEF PlanQueued
<1>2. CASE walltime_suits_to_limit(Walltime[j]) \notin Classes
  BY <1>1, <1>2 DEF PlanQueued
<1>3. CASE walltime_suits_to_limit(Walltime[j]) \in Classes
  <2>1. PICK earliest \in Now .. Horizon :
          IF adjust_job_starttime(limits, j, earliest) = NullSuccessor
          THEN result' = "nullSuccessor" /\ UNCHANGED <<limits, slot, todo>>
          ELSE /\ limits' = add_job_to_limits(limits, j, adjust_job_starttime(limits, j, earliest),
                              adjust_job_starttime(limits, j, earliest) + Walltime[j])
               /\ slot' = [slot EXCEPT ![j] = [start |-> adjust_job_starttime(limits, j, earliest),
                             end |-> adjust_job_starttime(limits, j, earliest) + Walltime[j]]]
               /\ todo' = todo \ {j}
               /\ UNCHANGED result
    BY <1>3 DEF PlanQueued
  <2>2. PICK start : start = adjust_job_starttime(limits, j, earliest)
    OBVIOUS
  <2>3. earliest \in Nat
    BY <1>1
  <2>4. CASE start = NullSuccessor
    BY <1>1, <1>3, <2>1, <2>2, <2>3, <2>4
  <2>5. CASE start # NullSuccessor
    <3>1. Placed(j, start, start + Walltime[j])
      BY <1>1, <2>1, <2>2, <2>5 DEF Placed
    <3> QED BY <1>3, <2>2, <2>3, <2>5, <3>1
  <2> QED BY <2>4, <2>5
<1> QED BY <1>2, <1>3

\* A queued job that gets a slot: where the walk ended.
LEMMA PlanQueuedSlot ==
  ASSUME LInv, NEW j \in Jobs, PlanQueued(j), result' = "ok"
  PROVE  /\ walltime_suits_to_limit(Walltime[j]) \in Classes
         /\ \E start \in Nat : /\ RoomUpto(limits, j, start, Len(limits))
                               /\ Placed(j, start, start + Walltime[j])
<1>1. walltime_suits_to_limit(Walltime[j]) \in Classes
  BY PlanQueuedStep
<1>2. PICK earliest \in Nat : /\ adjust_job_starttime(limits, j, earliest) # NullSuccessor
                              /\ Placed(j, adjust_job_starttime(limits, j, earliest),
                                        adjust_job_starttime(limits, j, earliest) + Walltime[j])
  BY PlanQueuedStep
<1>3. PICK start : start = adjust_job_starttime(limits, j, earliest)
  OBVIOUS
<1>4. Good(limits)
  BY DEF LInv
<1>5. start \in Nat /\ RoomUpto(limits, j, start, Len(limits))
  BY <1>2, <1>3, <1>4, WalkEndsInRoom
<1> QED BY <1>1, <1>2, <1>3, <1>5

\* The invariant is inductive.  With positive walltimes the list never has
\* just one limit, which is what keeps the walk inside it.
Long == Len(limits) # 1 /\ result # "nullSuccessor"

LEMMA StepKeeps ==
  ASSUME LInv, [Next]_vars
  PROVE  LInv' /\ (PositiveWalltimes /\ Long => Long')
<1>1. CASE UNCHANGED vars
  <2>1. UNCHANGED <<limits, todo, slot, values>> /\ result' \in {"ok", "noClass", "nullSuccessor"}
    BY <1>1 DEF vars, LInv, TypeOK
  <2> QED BY <1>1, <2>1, NothingPlaced DEF vars, Long
<1>2. CASE StartUpdate
  <2>1. limits' = <<>> /\ result' = "ok"
    BY <1>2 DEF StartUpdate
  <2> QED BY <1>2, <2>1, StartUpdateKeeps DEF Long
<1>3. ASSUME NEW j \in Jobs, AddRunning(j) PROVE LInv' /\ (PositiveWalltimes /\ Long => Long')
  <2>1. j \in todo
    BY <1>3 DEF AddRunning
  <2>2. CASE UNCHANGED <<limits, todo, slot, values>> /\ result' = "noClass"
    BY <2>2, NothingPlaced DEF Long
  <2>3. ASSUME NEW start \in Nat, NEW end \in Nat, start <= end, PositiveWalltimes => start < end,
               walltime_suits_to_limit(end - start) \in Classes, Placed(j, start, end)
        PROVE  LInv' /\ (PositiveWalltimes /\ Long => Long')
    <3>1. LInv' /\ (start < end => Len(limits') # 1)
      BY <2>1, <2>3, PlacedKeeps
    <3>2. result' = result
      BY <2>3 DEF Placed
    <3> QED BY <2>3, <3>1, <3>2 DEF Long
  <2> QED BY <1>3, <2>2, <2>3, AddRunningStep
<1>4. ASSUME NEW j \in Jobs, PlanQueued(j) PROVE LInv' /\ (PositiveWalltimes /\ Long => Long')
  <2>1. j \in todo /\ Good(limits) /\ values \in LimitValues /\ result = "ok"
    BY <1>4 DEF PlanQueued, LInv, TypeOK
  <2>2. CASE UNCHANGED <<limits, todo, slot, values>> /\ result' = "noClass"
    BY <2>2, NothingPlaced DEF Long
  <2>3. CASE result' = "nullSuccessor"
    <3>1. walltime_suits_to_limit(Walltime[j]) \in Classes
      BY <1>4, <2>3, PlanQueuedStep
    <3>2. PICK earliest \in Nat : /\ adjust_job_starttime(limits, j, earliest) = NullSuccessor
                                  /\ UNCHANGED <<limits, todo, slot, values>>
      <4>1. \A s, e : ~Placed(j, s, e)
        BY <2>1, <2>3 DEF Placed
      <4> QED BY <1>4, <2>3, <4>1, PlanQueuedStep
    <3>3. LInv'
      BY <2>3, <3>2, NothingPlaced
    <3>4. Len(limits) = 1
      BY <2>1, <3>1, <3>2, WalkStaysInList
    <3> QED BY <3>3, <3>4 DEF Long
  <2>4. CASE result' = "ok"
    <3>1. walltime_suits_to_limit(Walltime[j]) \in Classes
      BY <1>4, <2>4, PlanQueuedSlot
    <3>2. PICK start \in Nat : Placed(j, start, start + Walltime[j])
      BY <1>4, <2>4, PlanQueuedSlot
    <3>3. PICK w \in Nat : w = Walltime[j]
      BY JobsAssumption
    <3>4. PICK end \in Nat : end = start + w /\ start <= end /\ end - start = w
      OBVIOUS
    <3>5. LInv' /\ (start < end => Len(limits') # 1)
      BY <2>1, <3>1, <3>2, <3>3, <3>4, PlacedKeeps
    <3>6. PositiveWalltimes => start < end
      BY <3>3, <3>4 DEF PositiveWalltimes
    <3> QED BY <2>4, <3>5, <3>6 DEF Long
  <2>5. result' \in {"ok", "noClass", "nullSuccessor"}
    BY <1>4, <2>1, PlanQueuedStep DEF Placed
  <2>6. result' = "noClass" => UNCHANGED <<limits, todo, slot, values>>
    BY <1>4, <2>1, PlanQueuedStep DEF Placed
  <2> QED BY <2>2, <2>3, <2>4, <2>5, <2>6
<1> QED BY <1>1, <1>2, <1>3, <1>4 DEF Next
-----------------------------------------------------------------------------
(***************************************************************************)
(* Theorems.                                                               *)
(***************************************************************************)

LEMMA InvariantAlways == Spec => []LInv
<1>1. Init => LInv
  BY TypesInit
<1>2. LInv /\ [Next]_vars => LInv'
  BY StepKeeps
<1> QED BY <1>1, <1>2, PTL DEF Spec

\* Whatever jobs update_sched adds, in whatever order and at whatever times,
\* clone_limit_timestamp and add_job_to_limits keep the timestamps increasing.
THEOREM OneLimitPerIntervalAlways == Spec => []OneLimitPerInterval
<1>1. LInv => OneLimitPerInterval
  <2>1. SUFFICES ASSUME LInv PROVE OneLimitPerInterval
    OBVIOUS
  <2>2. Increasing(limits) /\ DOMAIN limits = 1 .. Len(limits)
    BY <2>1 DEF LInv, Good
  <2> QED BY <2>2 DEF Increasing, OneLimitPerInterval
<1> QED BY <1>1, InvariantAlways, PTL

\* At every instant the limit in force holds the CPUs of the jobs that run
\* then, for any jobs, accounts, walltime classes and start times: no job is
\* lost or counted twice by splitting, prepending and appending limits, and
\* not even by accounts that limit_add_account put out of order.
THEOREM LimitsExactAlways == Spec => []LimitsExact
<1>1. LInv => LimitsExact
  <2>1. SUFFICES ASSUME LInv, NEW t \in Instants, NEW c \in Classes
                 PROVE  LET before == {x \in DOMAIN limits : limits[x].time <= t}
                        IN UseAt(Jobs, t, c) =
                             IF before = {} THEN 0 ELSE sum_limits_of_limit(limits[Max(before)], c)
    BY DEF LimitsExact
  <2>2. t \in Nat
    BY <2>1 DEF Instants, LInv, TypeOK
  <2>3. Good(limits) /\ Shows(limits, t, c, UseAt(Jobs, t, c)) /\ DOMAIN limits = 1 .. Len(limits)
    BY <2>1, <2>2 DEF LInv, Exact, Good
  <2> DEFINE before == {x \in DOMAIN limits : limits[x].time <= t}
  <2>4. CASE NoneBefore(limits, t)
    <3>1. before = {}
      <4>1. ASSUME NEW x \in 1 .. Len(limits), limits[x].time <= t PROVE FALSE
        <5>1. limits # <<>> /\ t < limits[1].time /\ 1 \in 1 .. Len(limits)
          <6>1. limits \in Seq(Limit) /\ limits # <<>>
            BY <2>3, <4>1 DEF Good
          <6> QED BY <2>4, <6>1 DEF NoneBefore
        <5>2. limits[1].time \in Nat /\ limits[x].time \in Nat
          BY <2>3, <5>1, LimitFields
        <5>3. Len(limits) \in Nat
          BY <2>3, LimitFields
        <5>4. 1 < x => limits[1].time < limits[x].time
          BY <2>3, <5>1 DEF Good, Increasing
        <5> QED BY <2>2, <4>1, <5>1, <5>2, <5>3, <5>4
      <4> QED BY <2>3, <4>1
    <3>2. UseAt(Jobs, t, c) = 0
      BY <2>3, <2>4 DEF Shows
    <3> QED BY <3>1, <3>2
  <2>5. CASE ~NoneBefore(limits, t)
    <3>1. PICK x \in 1 .. Len(limits) : InForce(limits, x, t)
      BY <2>2, <2>3, <2>5, InForceExists
    <3>2. \A y \in 1 .. Len(limits) : limits[y].time <= t <=> y <= x
      BY <2>2, <2>3, <3>1, InForceOrder
    <3>3. Len(limits) \in Nat
      BY <2>3, LimitFields
    <3>4. before = 1 .. x
      BY <2>3, <3>2, <3>3
    <3>5. x \in 1 .. x /\ \A y \in 1 .. x : x >= y /\ (y >= x => y = x)
      BY <3>3
    <3>6. Max(1 .. x) = x
      <4>1. PICK B : B = 1 .. x
        OBVIOUS
      <4>2. x \in B /\ \A y \in B : x >= y /\ (y >= x => y = x)
        BY <3>5, <4>1
      <4>3. Max(B) = x
        BY <4>2 DEF Max
      <4> QED BY <4>1, <4>3
    <3>7. sum_limits_of_limit(limits[x], c) = UseAt(Jobs, t, c)
      BY <2>3, <3>1 DEF Shows
    <3> QED BY <3>4, <3>5, <3>6, <3>7
  <2> QED BY <2>4, <2>5
<1> QED BY <1>1, InvariantAlways, PTL

\* adjust_job_starttime never dereferences the missing successor of the last
\* limit, also when the values leave the job no room at any time, provided
\* that no job has the walltime 0.
THEOREM NoNullSuccessorAlways ==
  ASSUME PositiveWalltimes
  PROVE  Spec => []NoNullSuccessor
<1>1. Init => LInv /\ Long
  BY TypesInit DEF Init, Long
<1>2. LInv /\ Long /\ [Next]_vars => (LInv /\ Long)'
  BY PositiveWalltimes, StepKeeps
<1>3. LInv /\ Long => NoNullSuccessor
  BY DEF Long, NoNullSuccessor
<1> QED BY <1>1, <1>2, <1>3, PTL DEF Spec

\* limits_is_gap_ok and adjust_job_starttime agree: a job stays where the gap
\* was accepted, provided that no job has the walltime 0.
THEOREM GapCheckAgreesAlways ==
  ASSUME PositiveWalltimes
  PROVE  Spec => []GapCheckAgrees
<1>1. LInv => GapCheckAgrees
  <2>1. SUFFICES ASSUME LInv, NEW j \in todo \ Running, NEW start \in Now .. Horizon,
                        limits_is_gap_ok(limits, j, start, start + Walltime[j])
                 PROVE  adjust_job_starttime(limits, j, start) = start
    BY DEF GapCheckAgrees
  <2>2. j \in Jobs /\ Good(limits)
    BY <2>1 DEF LInv, TypeOK
  <2>3. start \in Nat
    BY JobsAssumption
  <2>4. Walltime[j] > 0
    BY <2>2, PositiveWalltimes DEF PositiveWalltimes
  <2> QED BY <2>1, <2>2, <2>3, <2>4, GapStays
<1> QED BY <1>1, InvariantAlways, PTL

\* A queued job is never planned where its class then exceeds the global
\* value, however often adjust_job_starttime had to shift it: one walk over
\* the limits is enough.
THEOREM GlobalLimitKeptAlways == Spec => GlobalLimitKept
<1> DEFINE Kept == \A j \in Jobs : JustPlanned(j) => Room(Jobs \ todo, j, values.global)
<1>1. LInv /\ [Next]_vars => Kept \/ UNCHANGED vars
  <2>1. SUFFICES ASSUME LInv, Next, NEW j \in Jobs, JustPlanned(j)
                 PROVE  Room(Jobs \ todo, j, values.global)
    OBVIOUS
  <2>2. j \in todo /\ j \notin Running /\ j \notin todo'
    BY <2>1 DEF JustPlanned
  <2>3. PlanQueued(j) /\ result' = "ok"
    <3>1. ~StartUpdate
      BY <2>2 DEF StartUpdate
    <3>2. ASSUME NEW i \in Jobs, AddRunning(i) PROVE FALSE
      <4>1. i \in Running
        BY <3>2 DEF AddRunning
      <4>2. todo' = todo \/ todo' = todo \ {i}
        BY <2>1, <3>2, AddRunningStep DEF Placed
      <4> QED BY <2>2, <4>1, <4>2
    <3>3. ASSUME NEW i \in Jobs, PlanQueued(i) PROVE i = j /\ result' = "ok"
      <4>1. result = "ok"
        BY <3>3 DEF PlanQueued
      <4>2. todo' = todo \/ (todo' = todo \ {i} /\ result' = "ok")
        BY <2>1, <3>3, <4>1, PlanQueuedStep DEF Placed
      <4> QED BY <2>2, <4>2
    <3> QED BY <2>1, <3>1, <3>2, <3>3 DEF Next
  <2>4. PICK c \in Classes : c = walltime_suits_to_limit(Walltime[j])
    BY <2>1, <2>3, PlanQueuedSlot
  <2>5. PICK start \in Nat : RoomUpto(limits, j, start, Len(limits)) /\ Placed(j, start, start + Walltime[j])
    BY <2>1, <2>3, PlanQueuedSlot
  <2>6. PICK w \in Nat : w = Walltime[j]
    BY JobsAssumption
  <2>7. slot \in [Jobs -> [start : Nat, end : Nat]] /\ Good(limits) /\ todo \subseteq Jobs
    BY <2>1 DEF LInv, TypeOK
  <2>8. slot' = [slot EXCEPT ![j] = [start |-> start, end |-> start + w]]
    BY <2>5, <2>6 DEF Placed
  <2>9. slot' \in [Jobs -> [start : Nat, end : Nat]] /\ slot'[j].start = start /\ slot'[j].end = start + w
    BY <2>7, <2>8
  <2>10. ASSUME NEW t \in Nat, start <= t, t < start + w
         PROVE  UseAt(Jobs \ todo, t, c) = 0 \/ UseAt(Jobs \ todo, t, c) + Cpus[j] <= values.global[c]
    <3>1. UseAt(Jobs \ todo, t, c) = UseAt(Jobs, t, c)
      <4>1. \A i \in todo : ~(slot[i].start <= t /\ t < slot[i].end)
        BY <2>1 DEF LInv, NoSlot
      <4>2. {i \in Jobs \ todo : /\ slot[i].start <= t /\ t < slot[i].end
                                 /\ walltime_suits_to_limit(slot[i].end - slot[i].start) = c} =
            {i \in Jobs : /\ slot[i].start <= t /\ t < slot[i].end
                          /\ walltime_suits_to_limit(slot[i].end - slot[i].start) = c}
        BY <4>1
      <4> QED BY <4>2 DEF UseAt
    <3>2. PICK v \in Nat : v = UseAt(Jobs, t, c)
      BY UseIsSum, UseType
    <3>3. Shows(limits, t, c, v)
      BY <2>1, <3>2 DEF LInv, Exact
    <3>4. CASE NoneBefore(limits, t)
      BY <3>1, <3>2, <3>3, <3>4 DEF Shows
    <3>5. CASE ~NoneBefore(limits, t)
      <4>1. PICK x \in 1 .. Len(limits) : InForce(limits, x, t)
        BY <2>7, <3>5, InForceExists
      <4>2. sum_limits_of_limit(limits[x], c) = v
        BY <3>3, <4>1 DEF Shows
      <4>3. PICK n \in Nat : n = Len(limits)
        BY <2>7, LimitFields
      <4>4. CASE x = n
        <5>1. limits[x] \in Limit /\ limits[x].accounts = <<>>
          <6>1. limits # <<>>
            BY <4>1, <4>3 DEF InForce
          <6> QED BY <2>7, <4>3, <4>4, <6>1, LimitFields DEF Good, LastEmpty
        <5> QED BY <3>1, <3>2, <4>2, <5>1, SumOfLimit
      <4>5. CASE x < n
        <5>1. x + 1 \in 1 .. Len(limits)
          BY <4>3, <4>5
        <5>2. limits[x].time \in Nat /\ limits[x + 1].time \in Nat
          BY <2>7, <5>1, LimitFields
        <5>3. limits[x].time <= t /\ t < limits[x + 1].time
          BY <4>1, <4>3, <4>5 DEF InForce
        <5>4. Meets(limits, x, start, start + w)
          <6>1. CASE limits[x].time <= start
            <7>1. limits[x + 1].time > start
              BY <2>10, <5>2, <5>3
            <7> QED BY <4>3, <4>5, <6>1, <7>1 DEF Meets
          <6>2. CASE limits[x].time > start
            <7>1. limits[x].time < start + w
              BY <2>10, <5>2, <5>3
            <7> QED BY <6>2, <7>1 DEF Meets
          <6> QED BY <5>2, <6>1, <6>2
        <5>5. HasRoom(limits[x], j)
          BY <2>5, <2>6, <5>4 DEF RoomUpto
        <5>6. GlobalRoom(limits[x], j, c)
          BY <2>4, <5>5 DEF HasRoom
        <5> QED BY <3>1, <3>2, <4>2, <5>6 DEF GlobalRoom
      <4> QED BY <4>3, <4>4, <4>5
    <3> QED BY <3>4, <3>5
  <2>11. Instants' \subseteq Nat
    BY <2>9 DEF Instants
  <2> QED BY <2>4, <2>9, <2>10, <2>11 DEF Room
<1>2. Kept \/ UNCHANGED vars => [Kept]_vars
  OBVIOUS
<1> QED BY <1>1, <1>2, InvariantAlways, PTL DEF Spec, GlobalLimitKept
=============================================================================
