---------------------- MODULE PlanOptimization_proofs ----------------------
(***************************************************************************)
(* Proofs about the optimization of the plan: no job is lost or doubled by *)
(* the moves, a rejected move is taken back where a cluster has at most    *)
(* one queued priority job, and the accepted moves never lead back to a    *)
(* plan that was left.                                                     *)
(***************************************************************************)
EXTENDS PlanOptimization, BaseLemmas
-----------------------------------------------------------------------------
(***************************************************************************)
(* Lists of jobs.                                                          *)
(***************************************************************************)
\* No job is in the list twice.
Distinct(s) == \A x, y \in 1 .. Len(s) : s[x] = s[y] => x = y

\* The list is taken by value: a sequence of jobs without repetition.
List(s) == s \in Seq(Jobs) /\ Distinct(s)

\* t has the elements of s and, in addition, e.
Grown(t, s, e) == List(t) /\ ToSet(t) = ToSet(s) \cup {e} /\ Len(t) = Len(s) + 1

LEMMA ToSetElements ==
  ASSUME NEW s \in Seq(Jobs)
  PROVE  /\ \A x \in 1 .. Len(s) : s[x] \in ToSet(s)
         /\ \A e \in ToSet(s) : \E x \in 1 .. Len(s) : s[x] = e
         /\ ToSet(s) \subseteq Jobs
         /\ Len(s) \in Nat /\ DOMAIN s = 1 .. Len(s)
BY DEF ToSet

\* Taking out the element at a place.
LEMMA RemoveAtList ==
  ASSUME NEW s, List(s), NEW p \in 1 .. Len(s)
  PROVE  /\ List(RemoveAt(s, p))
         /\ ToSet(RemoveAt(s, p)) = ToSet(s) \ {s[p]}
         /\ Len(RemoveAt(s, p)) = Len(s) - 1
<1>1. PICK t : t = RemoveAt(s, p)
  OBVIOUS
<1>2. PICK n \in Nat : n = Len(s)
  BY DEF List
<1>3. /\ t \in Seq(Jobs) /\ Len(t) = n - 1
      /\ \A x \in 1 .. n - 1 : t[x] = IF x < p THEN s[x] ELSE s[x + 1]
  BY <1>1, <1>2, RemoveAtElements DEF List
<1>4. Distinct(t)
  <2>1. SUFFICES ASSUME NEW x \in 1 .. n - 1, NEW y \in 1 .. n - 1, t[x] = t[y] PROVE x = y
    BY <1>3 DEF Distinct
  <2>2. PICK u \in 1 .. n : u = (IF x < p THEN x ELSE x + 1) /\ t[x] = s[u]
    BY <1>3, <1>2, SMTT(30)
  <2>3. PICK v \in 1 .. n : v = (IF y < p THEN y ELSE y + 1) /\ t[y] = s[v]
    BY <1>3, <1>2
  <2>4. u = v
    BY <1>2, <2>1, <2>2, <2>3 DEF List, Distinct
  <2> QED BY <2>2, <2>3, <2>4
<1>5. ToSet(t) \subseteq ToSet(s) \ {s[p]}
  <2>1. SUFFICES ASSUME NEW e \in ToSet(t) PROVE e \in ToSet(s) /\ e # s[p]
    OBVIOUS
  <2>2. PICK x \in 1 .. n - 1 : t[x] = e
    BY <1>3, ToSetElements
  <2>3. PICK u \in 1 .. n : u # p /\ t[x] = s[u]
    BY <1>3, <1>2
  <2>4. s[u] # s[p]
    BY <1>2, <2>3 DEF List, Distinct
  <2> QED BY <1>2, <2>2, <2>3, <2>4, ToSetElements DEF List
<1>6. ToSet(s) \ {s[p]} \subseteq ToSet(t)
  <2>1. SUFFICES ASSUME NEW e \in ToSet(s), e # s[p] PROVE e \in ToSet(t)
    OBVIOUS
  <2>2. PICK u \in 1 .. n : s[u] = e
    BY <1>2, ToSetElements DEF List
  <2>3. PICK x \in 1 .. n - 1 : x = IF u < p THEN u ELSE u - 1
    BY <1>2, <2>1, <2>2
  <2>4. t[x] = s[u]
    BY <1>3, <2>1, <2>2, <2>3
  <2> QED BY <1>3, <2>2, <2>4, ToSetElements
<1> QED BY <1>1, <1>2, <1>3, <1>4, <1>5, <1>6 DEF List

\* Putting in an element that the list does not have.
LEMMA InsertAtList ==
  ASSUME NEW s, List(s), NEW p \in 1 .. Len(s) + 1, NEW e \in Jobs, e \notin ToSet(s)
  PROVE  Grown(InsertAt(s, p, e), s, e)
<1>1. PICK t : t = InsertAt(s, p, e)
  OBVIOUS
<1>2. PICK n \in Nat : n = Len(s)
  BY DEF List
<1>3. /\ t \in Seq(Jobs) /\ Len(t) = n + 1
      /\ \A x \in 1 .. n + 1 : t[x] = IF x < p THEN s[x] ELSE IF x = p THEN e ELSE s[x - 1]
  BY <1>1, <1>2, InsertAtElements, SMTT(30) DEF List
<1>4. \A x \in 1 .. n : s[x] # e
  BY <1>2, ToSetElements DEF List
<1>5. Distinct(t)
  <2>1. SUFFICES ASSUME NEW x \in 1 .. n + 1, NEW y \in 1 .. n + 1, t[x] = t[y] PROVE x = y
    BY <1>3 DEF Distinct
  <2>2. CASE x = p \/ y = p
    BY <1>2, <1>3, <1>4, <2>1, <2>2
  <2>3. CASE x # p /\ y # p
    <3>1. PICK u \in 1 .. n : u = (IF x < p THEN x ELSE x - 1) /\ t[x] = s[u]
      BY <1>3, <1>2, <2>3
    <3>2. PICK v \in 1 .. n : v = (IF y < p THEN y ELSE y - 1) /\ t[y] = s[v]
      BY <1>3, <1>2, <2>3
    <3>3. u = v
      BY <1>2, <2>1, <3>1, <3>2 DEF List, Distinct
    <3> QED BY <2>3, <3>1, <3>2, <3>3, <1>2
  <2> QED BY <2>2, <2>3
<1>6. ToSet(t) \subseteq ToSet(s) \cup {e}
  <2>1. SUFFICES ASSUME NEW d \in ToSet(t), d # e PROVE d \in ToSet(s)
    OBVIOUS
  <2>2. PICK x \in 1 .. n + 1 : t[x] = d
    BY <1>3, ToSetElements
  <2>3. PICK u \in 1 .. n : t[x] = s[u]
    BY <1>2, <1>3, <2>1, <2>2
  <2> QED BY <1>2, <2>2, <2>3, ToSetElements DEF List
<1>7. ToSet(s) \cup {e} \subseteq ToSet(t)
  <2>1. e \in ToSet(t)
    BY <1>2, <1>3, ToSetElements
  <2>2. ASSUME NEW d \in ToSet(s) PROVE d \in ToSet(t)
    <3>1. PICK u \in 1 .. n : s[u] = d
      BY <1>2, ToSetElements DEF List
    <3>2. PICK x \in 1 .. n + 1 : x = IF u < p THEN u ELSE u + 1
      OBVIOUS
    <3>3. t[x] = s[u]
      BY <1>2, <1>3, <3>1, <3>2
    <3> QED BY <1>3, <3>1, <3>3, ToSetElements
  <2> QED BY <2>1, <2>2
<1> QED BY <1>1, <1>2, <1>3, <1>5, <1>6, <1>7 DEF List, Grown

LEMMA PlaceOfJob ==
  ASSUME NEW s \in Seq(Jobs), NEW j \in ToSet(s)
  PROVE  PlaceOf(s, j) \in 1 .. Len(s) /\ s[PlaceOf(s, j)] = j
BY ToSetElements DEF PlaceOf

LEMMA UnlinkedList ==
  ASSUME NEW s, List(s), NEW j \in ToSet(s)
  PROVE  /\ List(Unlinked(s, j))
         /\ ToSet(Unlinked(s, j)) = ToSet(s) \ {j}
<1>1. PICK p \in 1 .. Len(s) : p = PlaceOf(s, j) /\ s[p] = j
  BY PlaceOfJob DEF List
<1> QED BY <1>1, RemoveAtList DEF Unlinked

LEMMA BehindList ==
  ASSUME NEW s, List(s), NEW at \in ToSet(s) \cup {0}, NEW j \in Jobs, j \notin ToSet(s)
  PROVE  Grown(Behind(s, at, j), s, j)
<1>1. CASE at = 0
  <2>1. InsertAt(s, 1, j) = <<j>> \o s
    BY SMT DEF InsertAt, List
  <2>2. 1 \in 1 .. Len(s) + 1
    BY DEF List
  <2>3. Grown(InsertAt(s, 1, j), s, j)
    BY <2>2, InsertAtList
  <2> QED BY <1>1, <2>1, <2>3 DEF Behind
<1>2. CASE at # 0
  <2>1. PICK p \in 1 .. Len(s) + 1 : p = 1 + PlaceOf(s, at)
    BY <1>2, PlaceOfJob DEF List
  <2> QED BY <1>2, <2>1, InsertAtList DEF Behind
<1> QED BY <1>1, <1>2

\* Moving a job to the front.
LEMMA FrontList ==
  ASSUME NEW s, List(s), NEW j \in ToSet(s), NEW t, t = Behind(Unlinked(s, j), 0, j)
  PROVE  /\ List(t) /\ ToSet(t) = ToSet(s) /\ Len(t) = Len(s) /\ t[1] = j
         /\ s[1] = j => t = s
<1>1. PICK p \in 1 .. Len(s) : p = PlaceOf(s, j) /\ s[p] = j
  BY PlaceOfJob DEF List
<1>2. PICK u : u = RemoveAt(s, p)
  OBVIOUS
<1>3. List(u) /\ ToSet(u) = ToSet(s) \ {j} /\ Len(u) = Len(s) - 1 /\ t = Behind(u, 0, j)
  BY <1>1, <1>2, RemoveAtList DEF Unlinked
<1>4. j \in Jobs /\ s \in Seq(Jobs) /\ u \in Seq(Jobs)
  BY <1>3, ToSetElements DEF List
<1>5. Grown(t, u, j)
  BY <1>3, <1>4, BehindList
<1>6. t = <<j>> \o u
  BY <1>3 DEF Behind
<1>7. Len(t) = Len(s) /\ t[1] = j /\ \A x \in 2 .. Len(s) : t[x] = u[x - 1]
  <2>1. \A x \in 2 .. Len(u) + 1 : (<<j>> \o u)[x] = u[x - 1]
    BY <1>4
  <2>2. Len(u) + 1 = Len(s) /\ Len(<<j>> \o u) = Len(u) + 1 /\ (<<j>> \o u)[1] = j
    BY <1>3, <1>4
  <2> QED BY <1>6, <2>1, <2>2
<1>8. s[1] = j => t = s
  <2>1. SUFFICES ASSUME s[1] = j PROVE t = s
    OBVIOUS
  <2>2. p = 1
    BY <1>1, <2>1 DEF List, Distinct
  <2>3. PICK n \in Nat : n = Len(s)
    BY <1>4
  <2>4. \A x \in 1 .. n - 1 : u[x] = s[x + 1]
    <3>1. \A x \in 1 .. n - 1 : u[x] = IF x < p THEN s[x] ELSE s[x + 1]
      BY <1>2, <1>4, <2>3, RemoveAtElements
    <3>2. \A x \in 1 .. n - 1 : ~(x < p)
      BY <2>2, <2>3
    <3> QED BY <3>1, <3>2
  <2>5. \A x \in 1 .. n : t[x] = s[x]
    <3>1. ASSUME NEW x \in 1 .. n, x # 1 PROVE t[x] = s[x]
      <4>1. PICK y \in 1 .. n - 1 : y = x - 1 /\ y + 1 = x
        BY <2>3, <3>1
      <4>2. t[x] = u[y]
        BY <1>7, <2>3, <3>1, <4>1
      <4> QED BY <2>4, <4>1, <4>2
    <3> QED BY <1>7, <2>1, <3>1
  <2>6. t \in Seq(Jobs) /\ Len(t) = n
    BY <1>5, <1>7, <2>3 DEF Grown, List
  <2> QED BY <1>4, <2>3, <2>5, <2>6
<1>9. ToSet(t) = ToSet(s)
  <2>1. ToSet(t) = ToSet(u) \cup {j}
    BY <1>5 DEF Grown
  <2> QED BY <1>3, <2>1
<1>10. List(t)
  BY <1>5 DEF Grown
<1> QED BY <1>7, <1>8, <1>9, <1>10

LEMMA ListCardinality ==
  ASSUME NEW s, List(s)
  PROVE  IsFiniteSet(ToSet(s)) /\ Cardinality(ToSet(s)) = Len(s)
<1>1. PICK n \in Nat : n = Len(s)
  BY DEF List
<1>2. s \in [1 .. n -> ToSet(s)]
  BY <1>1, ToSetElements DEF List
<1>3. s \in Bijection(1 .. n, ToSet(s))
  <2>1. \A x, y \in 1 .. n : s[x] = s[y] => x = y
    BY <1>1 DEF List, Distinct
  <2>2. \A e \in ToSet(s) : \E x \in 1 .. n : s[x] = e
    BY <1>1, ToSetElements DEF List
  <2> QED BY <1>2, <2>1, <2>2 DEF Bijection, Injection, Surjection, IsInjective
<1>4. ExistsBijection(1 .. n, ToSet(s))
  BY <1>3 DEF ExistsBijection
<1>5. IsFiniteSet(1 .. n)
  BY FS_Interval
<1>6. IsFiniteSet(ToSet(s))
  BY <1>4, <1>5, FS_Bijection
<1> QED BY <1>1, <1>4, <1>6, FS_CountingElements

\* The jobs of some of the lists.
JobsOf(p, T) == UNION {ToSet(p[k]) : k \in T}

Disjoint(p) == \A k, l \in Clusters : k # l => ToSet(p[k]) \cap ToSet(p[l]) = {}

\* Disjoint lists without repetition are as long together as they have jobs.
LEMMA CountLists ==
  ASSUME NEW p, \A k \in Clusters : List(p[k]), Disjoint(p)
  PROVE  \A T \in SUBSET Clusters :
           /\ IsFiniteSet(JobsOf(p, T))
           /\ SumFunctionOnSet([k \in Clusters |-> Len(p[k])], T) = Cardinality(JobsOf(p, T))
<1> DEFINE f == [k \in Clusters |-> Len(p[k])]
           P == {T \in SUBSET Clusters :
                   /\ IsFiniteSet(JobsOf(p, T))
                   /\ SumFunctionOnSet(f, T) = Cardinality(JobsOf(p, T))}
<1>1. IsFiniteSet(Clusters)
  BY SizesAssumption, FS_Interval DEF Clusters
<1>2. \A k \in Clusters : f[k] = Len(p[k]) /\ f[k] \in Int
  BY DEF List
<1>3. ASSUME NEW T \in SUBSET Clusters, \A R \in SUBSET T : R # T => R \in P
      PROVE  T \in P
  <2>1. IsFiniteSet(T)
    BY <1>1, FS_Subset
  <2>2. CASE T = {}
    <3>1. JobsOf(p, T) = {}
      BY <2>2 DEF JobsOf
    <3>2. SumFunctionOnSet(f, T) = 0
      <4> HIDE DEF f
      <4> QED BY <2>1, <2>2, SumUnfold
    <3> HIDE DEF f
    <3> QED BY <3>1, <3>2, FS_EmptySet
  <2>3. CASE T # {}
    <3>1. PICK e \in T : TRUE
      BY <2>3
    <3>2. PICK R : R = T \ {e}
      OBVIOUS
    <3>3. R \in P
      <4> HIDE DEF P
      <4> QED BY <1>3, <3>1, <3>2
    <3>4. SumFunctionOnSet(f, T) = f[e] + SumFunctionOnSet(f, R)
      <4> HIDE DEF f
      <4> QED BY <1>2, <2>1, <3>1, <3>2, SumTake
    <3>5. PICK A : A = JobsOf(p, R)
      OBVIOUS
    <3>6. PICK B : B = ToSet(p[e])
      OBVIOUS
    <3>7. JobsOf(p, T) = A \cup B
      BY <3>1, <3>2, <3>5, <3>6 DEF JobsOf
    <3>8. A \cap B = {}
      BY <3>1, <3>2, <3>5, <3>6 DEF JobsOf, Disjoint
    <3>9. IsFiniteSet(A) /\ SumFunctionOnSet(f, R) = Cardinality(A)
      <4> HIDE DEF f
      <4> QED BY <3>3, <3>5
    <3>10. IsFiniteSet(B) /\ f[e] = Cardinality(B)
      BY <1>2, <3>1, <3>6, ListCardinality
    <3>11. IsFiniteSet(A \cup B) /\ Cardinality(A \cup B) = Cardinality(A) + Cardinality(B)
      <4>1. Cardinality(A \cap B) = 0
        BY <3>8, FS_EmptySet
      <4>2. Cardinality(A) \in Nat /\ Cardinality(B) \in Nat
        BY <3>9, <3>10, FS_CardinalityType
      <4>3. IsFiniteSet(A \cup B)
            /\ Cardinality(A \cup B) = Cardinality(A) + Cardinality(B) - Cardinality(A \cap B)
        BY <3>9, <3>10, FS_Union
      <4> QED BY <4>1, <4>2, <4>3
    <3>12. Cardinality(A) \in Nat /\ Cardinality(B) \in Nat
      BY <3>9, <3>10, FS_CardinalityType
    <3>13. SumFunctionOnSet(f, T) = Cardinality(JobsOf(p, T))
      <4>1. SumFunctionOnSet(f, T) = Cardinality(B) + Cardinality(A)
        <5> HIDE DEF f
        <5> QED BY <3>4, <3>9, <3>10
      <4>2. Cardinality(B) + Cardinality(A) = Cardinality(A) + Cardinality(B)
        BY <3>12
      <4> HIDE DEF f
      <4> QED BY <3>7, <3>11, <4>1, <4>2
    <3>14. IsFiniteSet(JobsOf(p, T))
      BY <3>7, <3>11
    <3> HIDE DEF f
    <3> QED BY <3>13, <3>14
  <2> QED BY <2>2, <2>3
<1> HIDE DEF P
<1>4. \A T \in SUBSET Clusters : T \in P
  BY <1>1, <1>3, SubsetInduction
<1> QED BY <1>4 DEF P
-----------------------------------------------------------------------------
(***************************************************************************)
(* The placements of an update.                                            *)
(***************************************************************************)
Base(list, st, fx) == [free |-> [n \in Nodes |-> FreeFrom(list, n)], start |-> st, fixed |-> fx]

StepOf(list, st, fx, g, q) == IF q = 0 THEN Base(list, st, fx) ELSE PlaceNext(g[q - 1], list[q])

\* g holds what is known after each of the first m jobs.
Placing(list, m, st, fx, g) ==
  /\ g[0] = Base(list, st, fx)
  /\ \A q \in 1 .. m : g[q] = PlaceNext(g[q - 1], list[q])
  /\ Placements(list, m, st, fx) = g[m]

LEMMA PlacingExists ==
  ASSUME NEW list, NEW m \in Nat, NEW st, NEW fx
  PROVE  \E g : Placing(list, m, st, fx, g)
<1> DEFINE St(g, x) == StepOf(list, st, fx, g, x)
           Solves(g) == g = [x \in 0 .. m |-> St(g, x)]
           Upto(n, g) == \A x \in 0 .. m : x <= n => g[x] = St(g, x)
           N == {n \in Nat : \E g : Upto(n, g)}
<1>1. ASSUME NEW g, NEW h, NEW x \in Nat, x # 0 => g[x - 1] = h[x - 1]
      PROVE  St(g, x) = St(h, x)
  BY <1>1, Zenon DEF StepOf
<1>2. 0 \in N
  <2>1. Upto(0, [x \in 0 .. m |-> Base(list, st, fx)])
    BY DEF StepOf
  <2> HIDE DEF Upto
  <2> QED BY <2>1
<1>3. ASSUME NEW n \in Nat, n \in N PROVE n + 1 \in N
  <2>1. PICK g : Upto(n, g)
    BY <1>3
  <2> DEFINE h == [x \in 0 .. m |-> St(g, x)]
  <2>2. ASSUME NEW x \in 0 .. m, x <= n + 1 PROVE h[x] = St(h, x)
    <3>1. x # 0 => g[x - 1] = h[x - 1]
      <4>1. SUFFICES ASSUME x # 0 PROVE g[x - 1] = h[x - 1]
        OBVIOUS
      <4>2. PICK y \in 0 .. m : y = x - 1 /\ y <= n
        BY <2>2, <4>1
      <4>3. g[y] = St(g, y) /\ h[y] = St(g, y)
        <5> HIDE DEF St
        <5> QED BY <2>1, <4>2
      <4> HIDE DEF h, St
      <4> QED BY <4>2, <4>3
    <3>2. St(g, x) = St(h, x)
      <4> HIDE DEF h, St
      <4> QED BY <1>1, <3>1
    <3>3. h[x] = St(g, x)
      <4> HIDE DEF St
      <4> QED OBVIOUS
    <3> HIDE DEF h, St
    <3> QED BY <3>2, <3>3
  <2>3. Upto(n + 1, h)
    <3> HIDE DEF h, St
    <3> QED BY <2>2
  <2> HIDE DEF Upto, h
  <2> QED BY <2>3
<1> HIDE DEF N
<1>4. m \in N
  BY <1>2, <1>3, SetInduction
<1>5. PICK g : Upto(m, g)
  BY <1>4 DEF N
<1> DEFINE h == [x \in 0 .. m |-> g[x]]
<1>6. ASSUME NEW x \in 0 .. m PROVE g[x] = St(h, x)
  <2>1. g[x] = St(g, x)
    <3> HIDE DEF St
    <3> QED BY <1>5
  <2>2. x # 0 => g[x - 1] = h[x - 1]
    <3>1. x # 0 => x - 1 \in 0 .. m
      OBVIOUS
    <3> QED BY <3>1
  <2>3. St(g, x) = St(h, x)
    <3> HIDE DEF h, St
    <3> QED BY <1>1, <2>2
  <2> HIDE DEF h, St
  <2> QED BY <2>1, <2>3
<1>7. Solves(h)
  <2>1. h = [x \in 0 .. m |-> St(h, x)]
    <3>1. \A x \in 0 .. m : g[x] = St(h, x)
      <4> HIDE DEF h, St
      <4> QED BY <1>6
    <3> HIDE DEF St
    <3> QED BY <3>1, Zenon
  <2> HIDE DEF h, St
  <2> QED BY <2>1
<1> HIDE DEF h
<1> DEFINE w == CHOOSE k : Solves(k)
<1>8. Solves(w)
  <2> HIDE DEF Solves
  <2> QED BY <1>7
<1>9. Placements(list, m, st, fx) = w[m]
  BY DEF Placements, StepOf, Base
<1> HIDE DEF w
<1>10. \A x \in 0 .. m : w[x] = St(w, x)
  <2> HIDE DEF St
  <2> QED BY <1>8
<1>11. w[0] = Base(list, st, fx) /\ \A x \in 1 .. m : w[x] = PlaceNext(w[x - 1], list[x])
  <2>1. 0 \in 0 .. m /\ \A x \in 1 .. m : x \in 0 .. m /\ x # 0
    OBVIOUS
  <2> QED BY <1>10, <2>1 DEF StepOf
<1>12. Placing(list, m, st, fx, w)
  BY <1>9, <1>11 DEF Placing
<1> QED BY <1>12

\* The times that a job may be planned for.
Future == {t \in Int : t >= Now}

Accs == [free : [Nodes -> Future], start : [Jobs -> Int], fixed : [Jobs -> 0 .. NumNodes]]

LEMMA FreeFromType ==
  ASSUME NEW list \in Seq(Jobs), NEW n
  PROVE  FreeFrom(list, n) \in Future
<1>1. PICK here : here = {j \in Running \cap ToSet(list) : Job[j].node = n}
  OBVIOUS
<1>2. CASE here = {}
  BY <1>1, <1>2 DEF FreeFrom, Future, Now
<1>3. CASE here # {}
  <2>0. PICK f : f = [j \in Jobs |-> -(Job[j].start + Job[j].time)]
    OBVIOUS
  <2> DEFINE M == {Now + 1} \cup {Job[j].start + Job[j].time : j \in here}
  <2>1. here \subseteq Jobs
    BY <1>1 DEF Jobs
  <2>2. IsFiniteSet(here)
    BY <2>1, JobsAssumption, FS_Subset
  <2>3. \A j \in here : /\ Job[j].start \in Int /\ Job[j].time \in Int
                        /\ f[j] = -(Job[j].start + Job[j].time) /\ f[j] \in Int
    BY <2>0, <2>1, JobsAssumption
  <2>4. PICK j \in here : \A k \in here : f[j] <= f[k]
    BY <1>3, <2>2, <2>3, LeastValue
  <2>5. PICK e \in Int : e = Job[j].start + Job[j].time
    BY <2>3
  <2>6. \A k \in here : Job[k].start + Job[k].time <= e
    BY <2>3, <2>4, <2>5
  <2>7. M \subseteq Int
    BY <2>3 DEF Now
  <2>8. \E x \in M : \A y \in M : x >= y
    <3>1. CASE e >= Now + 1
      <4>1. e \in M /\ \A y \in M : e >= y
        BY <2>4, <2>5, <2>6, <2>7, <3>1 DEF Now
      <4> HIDE DEF M
      <4> QED BY <4>1
    <3>2. CASE ~(e >= Now + 1)
      <4>1. Now + 1 \in M
        OBVIOUS
      <4>2. \A k \in here : Now + 1 >= Job[k].start + Job[k].time
        BY <2>3, <2>5, <2>6, <3>2 DEF Now
      <4>3. \A y \in M : Now + 1 >= y
        BY <4>2 DEF Now
      <4> HIDE DEF M
      <4> QED BY <4>1, <4>3
    <3> QED BY <3>1, <3>2
  <2>9. Max(M) \in M /\ \A y \in M : Max(M) >= y
    <3> HIDE DEF M
    <3> QED BY <2>8 DEF Max
  <2>10. Max(M) \in Int /\ Max(M) >= Now + 1
    <3>1. Now + 1 \in M
      OBVIOUS
    <3> HIDE DEF M
    <3> QED BY <2>7, <2>9, <3>1
  <2>11. FreeFrom(list, n) = Max(M)
    BY <1>1, <1>3 DEF FreeFrom
  <2> HIDE DEF M
  <2> QED BY <2>10, <2>11 DEF Future, Now
<1> QED BY <1>2, <1>3

LEMMA EarliestNodeType ==
  ASSUME NEW free \in [Nodes -> Future]
  PROVE  EarliestNode(free) \in Nodes
<1>1. IsFiniteSet(Nodes) /\ Nodes # {} /\ Nodes \subseteq Nat
  <2>1. IsFiniteSet(Nodes)
    BY SizesAssumption, FS_Interval DEF Nodes
  <2>2. 1 \in Nodes /\ Nodes \subseteq Nat
    BY SizesAssumption DEF Nodes
  <2> QED BY <2>1, <2>2
<1>2. \A n \in Nodes : free[n] \in Int
  BY DEF Future
<1>3. PICK m \in Nodes : \A n \in Nodes : free[m] <= free[n]
  BY <1>1, <1>2, LeastValue
<1>4. PICK T : T = {n \in Nodes : free[n] = free[m]}
  OBVIOUS
<1>5. PICK n \in T : \A k \in T : n <= k
  BY <1>1, <1>3, <1>4, LeastNatural
<1>6. n \in Nodes /\ \A k \in Nodes \ {n} : free[n] < free[k] \/ (free[n] = free[k] /\ n < k)
  BY <1>1, <1>2, <1>3, <1>4, <1>5
<1> QED BY <1>6 DEF EarliestNode

\* What placing a queued job changes.
PlacedOn(acc, nxt, j, n) ==
  /\ acc.fixed[j] # 0 => n = acc.fixed[j]
  /\ acc.fixed[j] = 0 => n = EarliestNode(acc.free)
  /\ nxt.free = [acc.free EXCEPT ![n] = @ + Job[j].time]
  /\ nxt.start = [acc.start EXCEPT ![j] = acc.free[n]]
  /\ nxt.fixed = [acc.fixed EXCEPT ![j] = n]

LEMMA PlaceNextType ==
  ASSUME NEW acc \in Accs, NEW j \in Jobs
  PROVE  /\ PlaceNext(acc, j) \in Accs
         /\ j \in Running => PlaceNext(acc, j) = acc
         /\ j \notin Running => \E n \in Nodes : PlacedOn(acc, PlaceNext(acc, j), j, n)
<1>1. CASE j \in Running
  BY <1>1 DEF PlaceNext
<1>2. CASE j \notin Running
  <2>1. /\ acc.free \in [Nodes -> Future] /\ acc.start \in [Jobs -> Int]
        /\ acc.fixed \in [Jobs -> 0 .. NumNodes]
    BY DEF Accs
  <2>2. PICK n : n = IF acc.fixed[j] # 0 THEN acc.fixed[j] ELSE EarliestNode(acc.free)
    OBVIOUS
  <2>3. n \in Nodes
    BY <2>1, <2>2, EarliestNodeType, SizesAssumption DEF Nodes
  <2>4. PlaceNext(acc, j) = [free |-> [acc.free EXCEPT ![n] = @ + Job[j].time],
                             start |-> [acc.start EXCEPT ![j] = acc.free[n]],
                             fixed |-> [acc.fixed EXCEPT ![j] = n]]
    BY <1>2, <2>2 DEF PlaceNext
  <2>5. acc.free[n] \in Int /\ acc.free[n] >= Now /\ Job[j].time \in Nat
    BY <2>1, <2>3, JobsAssumption DEF Future
  <2>6. acc.free[n] + Job[j].time \in Future
    BY <2>5 DEF Future, Now
  <2>7. [acc.free EXCEPT ![n] = @ + Job[j].time] \in [Nodes -> Future]
    BY <2>1, <2>3, <2>6
  <2>8. [acc.start EXCEPT ![j] = acc.free[n]] \in [Jobs -> Int]
    BY <2>1, <2>5
  <2>9. [acc.fixed EXCEPT ![j] = n] \in [Jobs -> 0 .. NumNodes]
    BY <2>1, <2>3, SizesAssumption DEF Nodes
  <2>10. PlaceNext(acc, j) \in Accs
    BY <2>4, <2>7, <2>8, <2>9 DEF Accs
  <2>11. PlacedOn(acc, PlaceNext(acc, j), j, n)
    BY <2>2, <2>4 DEF PlacedOn
  <2> QED BY <1>2, <2>3, <2>10, <2>11
<1> QED BY <1>1, <1>2

LEMMA PlacedOnFields ==
  ASSUME NEW acc \in Accs, NEW j \in Jobs, NEW n \in Nodes, NEW nxt, PlacedOn(acc, nxt, j, n)
  PROVE  /\ nxt.start[j] = acc.free[n] /\ nxt.fixed[j] = n
         /\ \A e \in Jobs \ {j} : nxt.start[e] = acc.start[e] /\ nxt.fixed[e] = acc.fixed[e]
<1>1. acc.start \in [Jobs -> Int] /\ acc.fixed \in [Jobs -> 0 .. NumNodes]
  BY DEF Accs
<1> QED BY <1>1 DEF PlacedOn

\* What an update has done to the jobs after the first q of the list.
Progress(list, st, fx, acc, q) ==
  /\ acc \in Accs
  /\ \A j \in Jobs : /\ fx[j] # 0 => acc.fixed[j] = fx[j]
                     /\ j \notin ToSet(list) \ Running => acc.start[j] = st[j] /\ acc.fixed[j] = fx[j]
                     /\ acc.start[j] # st[j] => acc.start[j] \in Future
  /\ \A x \in 1 .. q : list[x] \notin Running => acc.fixed[list[x]] # 0

LEMMA PlacingProgress ==
  ASSUME NEW list \in Seq(Jobs), NEW m \in 0 .. Len(list), NEW st \in [Jobs -> Int],
         NEW fx \in [Jobs -> 0 .. NumNodes], NEW g, Placing(list, m, st, fx, g)
  PROVE  \A q \in 0 .. m : Progress(list, st, fx, g[q], q)
<1> DEFINE Ok(q) == Progress(list, st, fx, g[q], q)
           S == {q \in Nat : q <= m => Ok(q)}
<1>1. 0 \in S
  <2>1. g[0] = Base(list, st, fx)
    BY DEF Placing
  <2>2. [n \in Nodes |-> FreeFrom(list, n)] \in [Nodes -> Future]
    BY FreeFromType
  <2>3. /\ g[0] \in Accs /\ g[0].start = st /\ g[0].fixed = fx
    BY <2>1, <2>2 DEF Base, Accs
  <2> QED BY <2>3 DEF Progress
<1>2. ASSUME NEW q \in Nat, q \in S PROVE q + 1 \in S
  <2>1. SUFFICES ASSUME q + 1 <= m PROVE Ok(q + 1)
    <3> HIDE DEF Ok
    <3> QED OBVIOUS
  <2>2. Ok(q)
    <3> HIDE DEF Ok
    <3> QED BY <1>2, <2>1
  <2>3. PICK p \in 1 .. m : p = q + 1 /\ p - 1 = q
    BY <2>1
  <2>4. PICK j \in Jobs : j = list[p]
    OBVIOUS
  <2>5. PICK a : a = g[q]
    OBVIOUS
  <2>6. PICK b : b = g[p]
    OBVIOUS
  <2>7. b = PlaceNext(a, j)
    BY <2>3, <2>4, <2>5, <2>6 DEF Placing
  <2>8. Progress(list, st, fx, a, q)
    BY <2>2, <2>5
  <2>9. a \in Accs
    BY <2>8 DEF Progress
  <2>10. j \in ToSet(list)
    BY <2>4, ToSetElements
  <2>11. Progress(list, st, fx, b, p)
    <3>1. CASE j \in Running
      <4>1. b = a
        BY <2>7, <2>9, <3>1, PlaceNextType
      <4>2. \A x \in 1 .. p : list[x] \notin Running => x \in 1 .. q
        BY <2>3, <2>4, <3>1
      <4> QED BY <2>8, <4>1, <4>2 DEF Progress
    <3>2. CASE j \notin Running
      <4>1. b \in Accs
        BY <2>7, <2>9, PlaceNextType
      <4>2. PICK n \in Nodes : PlacedOn(a, b, j, n)
        BY <2>7, <2>9, <3>2, PlaceNextType
      <4>3. /\ a.start \in [Jobs -> Int] /\ a.fixed \in [Jobs -> 0 .. NumNodes]
            /\ a.free[n] \in Future /\ n # 0
        BY <2>9, SizesAssumption, SMTT(30) DEF Accs, Nodes
      <4>4. /\ b.start[j] \in Future /\ b.fixed[j] = n
            /\ \A i_1 \in Jobs \ {j} : b.start[i_1] = a.start[i_1] /\ b.fixed[i_1] = a.fixed[i_1]
        BY <4>2, <4>3 DEF PlacedOn
      <4>5. fx[j] # 0 => b.fixed[j] = fx[j]
        BY <2>8, <4>2, <4>4 DEF Progress, PlacedOn
      <4>6. ASSUME NEW k \in Jobs
            PROVE  /\ fx[k] # 0 => b.fixed[k] = fx[k]
                   /\ k \notin ToSet(list) \ Running => b.start[k] = st[k] /\ b.fixed[k] = fx[k]
                   /\ b.start[k] # st[k] => b.start[k] \in Future
        <5>1. CASE k = j
          BY <2>10, <3>2, <4>4, <4>5, <5>1
        <5>2. CASE k # j
          BY <2>8, <4>4, <5>2 DEF Progress
        <5> QED BY <5>1, <5>2
      <4>7. ASSUME NEW x \in 1 .. p, list[x] \notin Running PROVE b.fixed[list[x]] # 0
        <5>1. CASE list[x] = j
          BY <4>3, <4>4, <5>1
        <5>2. CASE list[x] # j
          <6>1. x \in 1 .. q /\ list[x] \in Jobs
            BY <2>3, <2>4, <5>2
          <6> QED BY <2>8, <4>4, <4>7, <5>2, <6>1 DEF Progress
        <5> QED BY <5>1, <5>2
      <4> QED BY <4>1, <4>6, <4>7 DEF Progress
    <3> QED BY <3>1, <3>2
  <2> QED BY <2>3, <2>6, <2>11
<1> HIDE DEF S
<1>3. \A q \in Nat : q \in S
  BY <1>1, <1>2, SetInduction
<1> QED BY <1>3 DEF S

\* Two updates of a list with the same fixed nodes place its jobs alike.
Alike(list, a, b, q) ==
  /\ a.free = b.free
  /\ \A j \in ToSet(list) \ Running : a.fixed[j] = b.fixed[j]
  /\ \A x \in 1 .. q : list[x] \notin Running => a.start[list[x]] = b.start[list[x]]

LEMMA PlacingAlike ==
  ASSUME NEW list \in Seq(Jobs), NEW m \in 0 .. Len(list),
         NEW st \in [Jobs -> Int], NEW fx \in [Jobs -> 0 .. NumNodes],
         NEW su \in [Jobs -> Int], NEW fu \in [Jobs -> 0 .. NumNodes],
         \A j \in ToSet(list) \ Running : fx[j] = fu[j],
         NEW g, Placing(list, m, st, fx, g), NEW h, Placing(list, m, su, fu, h)
  PROVE  \A q \in 0 .. m : Alike(list, g[q], h[q], q)
<1> DEFINE Ok(q) == Alike(list, g[q], h[q], q)
           S == {q \in Nat : q <= m => Ok(q)}
<1>1. 0 \in S
  <2>1. g[0] = Base(list, st, fx) /\ h[0] = Base(list, su, fu)
    BY DEF Placing
  <2>2. g[0].free = h[0].free /\ g[0].fixed = fx /\ h[0].fixed = fu
    BY <2>1 DEF Base
  <2> QED BY <2>2 DEF Alike
<1>2. ASSUME NEW q \in Nat, q \in S PROVE q + 1 \in S
  <2>1. SUFFICES ASSUME q + 1 <= m PROVE Ok(q + 1)
    <3> HIDE DEF Ok
    <3> QED OBVIOUS
  <2>2. Ok(q)
    <3> HIDE DEF Ok
    <3> QED BY <1>2, <2>1
  <2>3. PICK p \in 1 .. m : p = q + 1 /\ p - 1 = q /\ q \in 0 .. m
    BY <2>1
  <2>4. PICK j \in Jobs : j = list[p]
    OBVIOUS
  <2>5. PICK a : a = g[q]
    OBVIOUS
  <2>6. PICK b : b = g[p]
    OBVIOUS
  <2>7. PICK c : c = h[q]
    OBVIOUS
  <2>8. PICK d : d = h[p]
    OBVIOUS
  <2>9. b = PlaceNext(a, j) /\ d = PlaceNext(c, j)
    BY <2>3, <2>4, <2>5, <2>6, <2>7, <2>8 DEF Placing
  <2>10. Alike(list, a, c, q)
    BY <2>2, <2>5, <2>7
  <2>11. a \in Accs /\ c \in Accs
    <3>1. Progress(list, st, fx, g[q], q)
      BY <2>3, PlacingProgress
    <3>2. Progress(list, su, fu, h[q], q)
      BY <2>3, PlacingProgress
    <3> QED BY <2>5, <2>7, <3>1, <3>2 DEF Progress
  <2>12. j \in ToSet(list)
    BY <2>4, ToSetElements
  <2>13. Alike(list, b, d, p)
    <3>1. CASE j \in Running
      <4>1. b = a /\ d = c
        BY <2>9, <2>11, <3>1, PlaceNextType
      <4>2. \A x \in 1 .. p : list[x] \notin Running => x \in 1 .. q
        BY <2>3, <2>4, <3>1
      <4> QED BY <2>10, <4>1, <4>2 DEF Alike
    <3>2. CASE j \notin Running
      <4>1. PICK n \in Nodes : PlacedOn(a, b, j, n)
        BY <2>9, <2>11, <3>2, PlaceNextType
      <4>2. PICK k \in Nodes : PlacedOn(c, d, j, k)
        BY <2>9, <2>11, <3>2, PlaceNextType
      <4>3. a.free = c.free /\ a.fixed[j] = c.fixed[j]
        BY <2>10, <2>12, <3>2 DEF Alike
      <4>4. n = k
        BY <4>1, <4>2, <4>3 DEF PlacedOn
      <4>5. b.free = d.free
        BY <4>1, <4>2, <4>3, <4>4 DEF PlacedOn
      <4>6. /\ b.start[j] = a.free[n] /\ b.fixed[j] = n
            /\ \A e \in Jobs \ {j} : b.start[e] = a.start[e] /\ b.fixed[e] = a.fixed[e]
        BY <2>11, <4>1, PlacedOnFields
      <4>10. /\ d.start[j] = c.free[k] /\ d.fixed[j] = k
             /\ \A e \in Jobs \ {j} : d.start[e] = c.start[e] /\ d.fixed[e] = c.fixed[e]
        BY <2>11, <4>2, PlacedOnFields
      <4>7. /\ b.start[j] = d.start[j] /\ b.fixed[j] = d.fixed[j]
            /\ \A e \in Jobs \ {j} : /\ b.start[e] = a.start[e] /\ b.fixed[e] = a.fixed[e]
                                     /\ d.start[e] = c.start[e] /\ d.fixed[e] = c.fixed[e]
        BY <4>3, <4>4, <4>6, <4>10
      <4>8. \A e \in ToSet(list) \ Running : b.fixed[e] = d.fixed[e]
        BY <2>10, <4>7, ToSetElements DEF Alike
      <4>9. ASSUME NEW x \in 1 .. p, list[x] \notin Running
            PROVE  b.start[list[x]] = d.start[list[x]]
        <5>1. CASE list[x] = j
          BY <4>7, <5>1
        <5>2. CASE list[x] # j
          <6>1. x \in 1 .. q /\ list[x] \in Jobs
            BY <2>3, <2>4, <5>2
          <6> QED BY <2>10, <4>7, <4>9, <5>2, <6>1 DEF Alike
        <5> QED BY <5>1, <5>2
      <4> QED BY <4>5, <4>8, <4>9 DEF Alike
    <3> QED BY <3>1, <3>2
  <2> QED BY <2>3, <2>6, <2>8, <2>13
<1> HIDE DEF S
<1>3. \A q \in Nat : q \in S
  BY <1>1, <1>2, SetInduction
<1> QED BY <1>3 DEF S

SameAt(list, a, b, x) == a.start[list[x]] = b.start[list[x]] /\ a.fixed[list[x]] = b.fixed[list[x]]

\* A job that was placed stays where it is while the rest of the list is.
LEMMA PlacingStays ==
  ASSUME NEW list, List(list), NEW m \in 0 .. Len(list), NEW st \in [Jobs -> Int],
         NEW fx \in [Jobs -> 0 .. NumNodes], NEW g, Placing(list, m, st, fx, g), NEW x \in 1 .. m
  PROVE  SameAt(list, g[m], g[x], x)
<1> DEFINE Ok(q) == /\ g[q].start[list[x]] = g[x].start[list[x]]
                    /\ g[q].fixed[list[x]] = g[x].fixed[list[x]]
           S == {q \in Nat : x <= q /\ q <= m => Ok(q)}
<1>0. list \in Seq(Jobs) /\ Distinct(list)
  BY DEF List
<1>1. 0 \in S
  OBVIOUS
<1>2. ASSUME NEW q \in Nat, q \in S PROVE q + 1 \in S
  <2>1. SUFFICES ASSUME x <= q + 1, q + 1 <= m PROVE Ok(q + 1)
    <3> HIDE DEF Ok
    <3> QED OBVIOUS
  <2>2. CASE x = q + 1
    BY <2>2
  <2>3. CASE x # q + 1
    <3>1. Ok(q)
      <4>1. x <= q /\ q <= m
        BY <2>1, <2>3
      <4> HIDE DEF Ok
      <4> QED BY <1>2, <4>1
    <3>2. PICK p \in 1 .. m : p = q + 1 /\ p - 1 = q /\ q \in 0 .. m /\ x # p
      BY <2>1, <2>3
    <3>3. PICK j \in Jobs : j = list[p]
      BY <1>0
    <3>4. PICK k \in Jobs : k = list[x]
      BY <1>0
    <3>5. k # j
      BY <1>0, <3>2, <3>3, <3>4, SMTT(30) DEF Distinct
    <3>6. PICK a : a = g[q]
      OBVIOUS
    <3>7. PICK b : b = g[p]
      OBVIOUS
    <3>8. b = PlaceNext(a, j)
      BY <3>2, <3>3, <3>6, <3>7 DEF Placing
    <3>9. a \in Accs
      <4>1. Progress(list, st, fx, g[q], q)
        BY <1>0, <3>2, PlacingProgress
      <4> QED BY <3>6, <4>1 DEF Progress
    <3>10. b.start[k] = a.start[k] /\ b.fixed[k] = a.fixed[k]
      <4>1. CASE j \in Running
        BY <3>8, <3>9, <4>1, PlaceNextType
      <4>2. CASE j \notin Running
        <5>1. PICK n \in Nodes : PlacedOn(a, b, j, n)
          BY <3>8, <3>9, <4>2, PlaceNextType
        <5> QED BY <3>5, <3>9, <5>1, PlacedOnFields
      <4> QED BY <4>1, <4>2
    <3> QED BY <3>1, <3>2, <3>4, <3>6, <3>7, <3>10
  <2> QED BY <2>2, <2>3
<1> HIDE DEF S
<1>3. m \in S
  BY <1>1, <1>2, SetInduction
<1> QED BY <1>3 DEF S, SameAt

\* An update changes neither start times nor nodes.
Settled(list, st, fx) ==
  /\ Placements(list, Len(list), st, fx).start = st
  /\ Placements(list, Len(list), st, fx).fixed = fx

\* A second update of the same list changes nothing.
LEMMA UpdateSettles ==
  ASSUME NEW list, List(list), NEW st \in [Jobs -> Int], NEW fx \in [Jobs -> 0 .. NumNodes],
         NEW r, r = Placements(list, Len(list), st, fx)
  PROVE  Settled(list, r.start, r.fixed)
<1>1. list \in Seq(Jobs) /\ Distinct(list)
  BY DEF List
<1>2. PICK m \in Nat : m = Len(list) /\ m \in 0 .. Len(list)
  BY <1>1
<1>3. PICK g : Placing(list, m, st, fx, g)
  BY PlacingExists
<1>4. r = g[m]
  BY <1>2, <1>3 DEF Placing
<1>5. \A q \in 0 .. m : Progress(list, st, fx, g[q], q)
  BY <1>1, <1>2, <1>3, PlacingProgress
<1>6. \A q \in 0 .. m : g[q] \in Accs
  BY <1>5 DEF Progress
<1>7. PICK s \in [Jobs -> Int] : s = r.start
  BY <1>4, <1>6, <1>2 DEF Accs
<1>8. PICK f \in [Jobs -> 0 .. NumNodes] : f = r.fixed
  BY <1>4, <1>6, <1>2 DEF Accs
<1>9. PICK h : Placing(list, m, s, f, h)
  BY PlacingExists
<1> DEFINE Ok(q) == h[q].free = g[q].free /\ h[q].start = s /\ h[q].fixed = f
           S == {q \in Nat : q <= m => Ok(q)}
<1>10. 0 \in S
  <2>1. g[0] = Base(list, st, fx) /\ h[0] = Base(list, s, f)
    BY <1>3, <1>9 DEF Placing
  <2> QED BY <2>1 DEF Base
<1>11. ASSUME NEW q \in Nat, q \in S PROVE q + 1 \in S
  <2>1. SUFFICES ASSUME q + 1 <= m PROVE Ok(q + 1)
    <3> HIDE DEF Ok
    <3> QED OBVIOUS
  <2>2. Ok(q)
    <3> HIDE DEF Ok
    <3> QED BY <1>11, <2>1
  <2>3. PICK p \in 1 .. m : p = q + 1 /\ p - 1 = q /\ q \in 0 .. m
    BY <2>1
  <2>4. PICK j \in Jobs : j = list[p]
    BY <1>1, <1>2
  <2>5. PICK a \in Accs : a = g[q]
    BY <1>6, <2>3
  <2>6. PICK b : b = g[p]
    OBVIOUS
  <2>7. PICK c : c = h[q]
    OBVIOUS
  <2>8. PICK d : d = h[p]
    OBVIOUS
  <2>9. b = PlaceNext(a, j) /\ d = PlaceNext(c, j)
    BY <1>3, <1>9, <2>3, <2>4, <2>5, <2>6, <2>7, <2>8 DEF Placing
  <2>10. c \in Accs
    <3>1. Progress(list, s, f, h[q], q)
      BY <1>1, <1>2, <1>9, <2>3, PlacingProgress
    <3> QED BY <2>7, <3>1 DEF Progress
  <2>11. c.free = a.free /\ c.start = s /\ c.fixed = f
    BY <2>2, <2>5, <2>7
  <2>12. d.free = b.free /\ d.start = s /\ d.fixed = f
    <3>1. CASE j \in Running
      BY <2>9, <2>10, <2>11, <3>1, PlaceNextType
    <3>2. CASE j \notin Running
      <4>1. PICK n \in Nodes : PlacedOn(a, b, j, n)
        BY <2>9, <3>2, PlaceNextType
      <4>2. PICK k \in Nodes : PlacedOn(c, d, j, k)
        BY <2>9, <2>10, <3>2, PlaceNextType
      <4>3. s[j] = b.start[j] /\ f[j] = b.fixed[j]
        <5>1. SameAt(list, g[m], g[p], p)
          <6>1. m \in 0 .. Len(list) /\ p \in 1 .. m
            BY <1>2
          <6> QED BY <1>3, <6>1, PlacingStays, Zenon
        <5> QED BY <1>4, <1>7, <1>8, <2>4, <2>6, <5>1 DEF SameAt
      <4>4. b.start[j] = a.free[n] /\ b.fixed[j] = n
        BY <4>1, PlacedOnFields
      <4>5. n # 0
        BY SizesAssumption DEF Nodes
      <4>6. k = n
        BY <2>11, <4>2, <4>3, <4>4, <4>5 DEF PlacedOn
      <4>7. d.free = b.free
        BY <2>11, <4>1, <4>2, <4>6 DEF PlacedOn
      <4>8. d.start = [s EXCEPT ![j] = s[j]] /\ d.fixed = [f EXCEPT ![j] = f[j]]
        BY <2>11, <4>2, <4>3, <4>4, <4>6 DEF PlacedOn
      <4>9. [s EXCEPT ![j] = s[j]] = s /\ [f EXCEPT ![j] = f[j]] = f
        OBVIOUS
      <4> QED BY <4>7, <4>8, <4>9
    <3> QED BY <3>1, <3>2
  <2> QED BY <2>3, <2>6, <2>8, <2>12
<1> HIDE DEF S
<1>12. m \in S
  BY <1>10, <1>11, SetInduction
<1>13. h[m].start = s /\ h[m].fixed = f
  BY <1>12 DEF S
<1>14. Placements(list, m, s, f) = h[m]
  BY <1>9 DEF Placing
<1> QED BY <1>2, <1>7, <1>8, <1>13, <1>14 DEF Settled

\* What a whole update does, and does not do.
LEMMA UpdateResult ==
  ASSUME NEW list \in Seq(Jobs), NEW m \in 0 .. Len(list), NEW st \in [Jobs -> Int],
         NEW fx \in [Jobs -> 0 .. NumNodes]
  PROVE  Progress(list, st, fx, Placements(list, m, st, fx), m)
<1>1. m \in Nat /\ m \in 0 .. m
  OBVIOUS
<1>2. PICK g : Placing(list, m, st, fx, g)
  BY <1>1, PlacingExists
<1>3. Progress(list, st, fx, g[m], m)
  BY <1>1, <1>2, PlacingProgress
<1> QED BY <1>2, <1>3 DEF Placing

\* Two results of an update agree on the queued jobs of a list.
Agree(list, a, b) == \A j \in ToSet(list) \ Running : a.start[j] = b.start[j] /\ a.fixed[j] = b.fixed[j]

\* The start times of the placed jobs depend on their fixed nodes alone.
LEMMA UpdateAlike ==
  ASSUME NEW list \in Seq(Jobs),
         NEW st \in [Jobs -> Int], NEW fx \in [Jobs -> 0 .. NumNodes],
         NEW su \in [Jobs -> Int], NEW fu \in [Jobs -> 0 .. NumNodes],
         \A j \in ToSet(list) \ Running : fx[j] = fu[j]
  PROVE  Agree(list, Placements(list, Len(list), st, fx), Placements(list, Len(list), su, fu))
<1>1. PICK m \in Nat : m = Len(list) /\ m \in 0 .. Len(list) /\ m \in 0 .. m
  OBVIOUS
<1>2. PICK g : Placing(list, m, st, fx, g)
  BY PlacingExists
<1>3. PICK h : Placing(list, m, su, fu, h)
  BY PlacingExists
<1>4. Alike(list, g[m], h[m], m)
  BY <1>1, <1>2, <1>3, PlacingAlike
<1>5. \A j \in ToSet(list) : \E x \in 1 .. m : list[x] = j
  BY <1>1, ToSetElements
<1>6. Placements(list, m, st, fx) = g[m] /\ Placements(list, m, su, fu) = h[m]
  BY <1>2, <1>3 DEF Placing
<1>7. PICK a : a = g[m]
  OBVIOUS
<1>8. PICK b : b = h[m]
  OBVIOUS
<1>9. Agree(list, a, b)
  <2>1. Alike(list, a, b, m)
    BY <1>4, <1>7, <1>8
  <2> QED BY <1>5, <2>1 DEF Alike, Agree
<1> QED BY <1>1, <1>6, <1>7, <1>8, <1>9

\* Former start times of the jobs that are placed do not matter.
LEMMA UpdateForgets ==
  ASSUME NEW list \in Seq(Jobs), NEW st \in [Jobs -> Int], NEW su \in [Jobs -> Int],
         NEW fx \in [Jobs -> 0 .. NumNodes],
         \A j \in Jobs \ (ToSet(list) \ Running) : st[j] = su[j]
  PROVE  Placements(list, Len(list), st, fx).start = Placements(list, Len(list), su, fx).start
<1>1. PICK r : r = Placements(list, Len(list), st, fx)
  OBVIOUS
<1>2. PICK s : s = Placements(list, Len(list), su, fx)
  OBVIOUS
<1>3. Progress(list, st, fx, r, Len(list)) /\ Progress(list, su, fx, s, Len(list))
  <2>1. Len(list) \in 0 .. Len(list)
    OBVIOUS
  <2> QED BY <1>1, <1>2, <2>1, UpdateResult
<1>4. Agree(list, r, s)
  BY <1>1, <1>2, UpdateAlike
<1>5. r.start \in [Jobs -> Int] /\ s.start \in [Jobs -> Int]
  BY <1>3 DEF Progress, Accs
<1>6. \A j \in Jobs : r.start[j] = s.start[j]
  BY <1>3, <1>4 DEF Progress, Agree
<1>7. r.start = s.start
  BY <1>5, <1>6
<1> QED BY <1>1, <1>2, <1>7

\* Whether a list is settled depends on its own jobs.
LEMMA SettledLocal ==
  ASSUME NEW list \in Seq(Jobs),
         NEW st \in [Jobs -> Int], NEW fx \in [Jobs -> 0 .. NumNodes], Settled(list, st, fx),
         NEW su \in [Jobs -> Int], NEW fu \in [Jobs -> 0 .. NumNodes],
         \A j \in ToSet(list) \ Running : fx[j] = fu[j] /\ st[j] = su[j]
  PROVE  Settled(list, su, fu)
<1>1. PICK r : r = Placements(list, Len(list), su, fu)
  OBVIOUS
<1>2. Progress(list, su, fu, r, Len(list))
  <2>1. Len(list) \in 0 .. Len(list)
    OBVIOUS
  <2> QED BY <1>1, <2>1, UpdateResult
<1>3. \A j \in ToSet(list) \ Running : r.start[j] = st[j] /\ r.fixed[j] = fx[j]
  <2>1. PICK s : s = Placements(list, Len(list), st, fx)
    OBVIOUS
  <2>2. Agree(list, s, r)
    BY <1>1, <2>1, UpdateAlike
  <2> QED BY <2>1, <2>2 DEF Settled, Agree
<1>4. \A j \in Jobs \ (ToSet(list) \ Running) : r.start[j] = su[j] /\ r.fixed[j] = fu[j]
  BY <1>2 DEF Progress
<1>5. r.start \in [Jobs -> Int] /\ r.fixed \in [Jobs -> 0 .. NumNodes]
  BY <1>2 DEF Progress, Accs
<1>6. \A j \in Jobs : r.start[j] = su[j] /\ r.fixed[j] = fu[j]
  BY <1>3, <1>4
<1>7. r.start = su /\ r.fixed = fu
  BY <1>5, <1>6
<1> QED BY <1>1, <1>7 DEF Settled
-----------------------------------------------------------------------------
(***************************************************************************)
(* The invariant behind NothingLost.                                       *)
(***************************************************************************)
Lists(p) ==
  /\ p \in [Clusters -> Seq(Jobs)]
  /\ \A k \in Clusters : List(p[k])
  /\ Disjoint(p)

UserData(fs) == IsFiniteSet(DOMAIN fs) /\ fs \in [DOMAIN fs -> [wait : Int, Fu : Nat]]

Typed ==
  /\ Lists(plan)
  /\ fixed \in [Jobs -> 0 .. NumNodes] /\ kept \in [Jobs -> 0 .. NumNodes]
  /\ start \in [Jobs -> Int] /\ \A j \in Queued : start[j] \in Future
  /\ UserData(fslist)
  /\ freed \subseteq Queued /\ cl \in Clusters /\ fails \in Nat
  /\ phase = "update" => update.next \in {"put", "evaluate", "check", "ready"}

\* The moved job is out of its list, or back in the list and not yet decided
\* about.
Outside == phase = "put" \/ (phase = "update" /\ update.next = "put")
Inside == phase \in {"evaluate", "decide"} \/ (phase = "update" /\ update.next = "evaluate")

Away == IF Outside THEN {moved} ELSE {}

\* The backup lists the jobs of the cluster, but for those freed since.
Covered ==
  /\ List(backup)
  /\ ToSet(backup) \ freed = ToSet(plan[cl]) \cup Away
  /\ moved \in Queued /\ moved \in ToSet(backup)

Whole ==
  /\ Planned \cap Queued = (Queued \ freed) \ Away
  /\ phase # "crash" => \A j \in Planned : kept[j] # 0 => Inside /\ j = moved
  /\ Outside \/ Inside => Covered
  /\ Outside => moved \notin freed \cup Planned
  /\ phase = "draw" => backup = plan[cl]


\* One of the lists is replaced.
Replaced(q, p, c, s) ==
  /\ Lists(q)
  /\ JobsOf(q, Clusters) = (JobsOf(p, Clusters) \ ToSet(p[c])) \cup ToSet(s)
  /\ q[c] = s
  /\ \A k \in Clusters \ {c} : q[k] = p[k]

LEMMA ReplaceList ==
  ASSUME NEW p, Lists(p), NEW c \in Clusters, NEW s, List(s),
         ToSet(s) \cap (JobsOf(p, Clusters) \ ToSet(p[c])) = {},
         NEW q, q = [p EXCEPT ![c] = s]
  PROVE  Replaced(q, p, c, s)
<1>1. q = [p EXCEPT ![c] = s]
  OBVIOUS
<1>2. q[c] = s /\ (\A k \in Clusters \ {c} : q[k] = p[k]) /\ q \in [Clusters -> Seq(Jobs)]
  BY <1>1 DEF Lists, List
<1>3. \A k \in Clusters \ {c} : ToSet(p[k]) \subseteq JobsOf(p, Clusters) \ ToSet(p[c])
  BY DEF Lists, Disjoint, JobsOf
<1>4. Lists(q)
  <2>1. \A k \in Clusters : List(q[k])
    BY <1>2 DEF Lists
  <2>2. ASSUME NEW k \in Clusters, NEW l \in Clusters, k # l
        PROVE  ToSet(q[k]) \cap ToSet(q[l]) = {}
    <3>1. CASE k = c
      <4>1. q[l] = p[l] /\ ToSet(p[l]) \subseteq JobsOf(p, Clusters) \ ToSet(p[c])
        BY <1>2, <1>3, <2>2, <3>1
      <4> QED BY <1>2, <3>1, <4>1
    <3>2. CASE l = c
      <4>1. q[k] = p[k] /\ ToSet(p[k]) \subseteq JobsOf(p, Clusters) \ ToSet(p[c])
        BY <1>2, <1>3, <2>2, <3>2
      <4> QED BY <1>2, <3>2, <4>1
    <3>3. CASE k # c /\ l # c
      BY <1>2, <2>2, <3>3 DEF Lists, Disjoint
    <3> QED BY <3>1, <3>2, <3>3
  <2> QED BY <1>2, <2>1, <2>2 DEF Lists, Disjoint
<1>5. JobsOf(q, Clusters) \subseteq (JobsOf(p, Clusters) \ ToSet(p[c])) \cup ToSet(s)
  <2>1. SUFFICES ASSUME NEW k \in Clusters, NEW e \in ToSet(q[k])
                 PROVE  e \in (JobsOf(p, Clusters) \ ToSet(p[c])) \cup ToSet(s)
    BY DEF JobsOf
  <2>2. CASE k = c
    BY <1>2, <2>1, <2>2
  <2>3. CASE k # c
    BY <1>2, <1>3, <2>1, <2>3
  <2> QED BY <2>2, <2>3
<1>6. (JobsOf(p, Clusters) \ ToSet(p[c])) \cup ToSet(s) \subseteq JobsOf(q, Clusters)
  <2>1. ToSet(s) \subseteq JobsOf(q, Clusters)
    BY <1>2 DEF JobsOf
  <2>2. ASSUME NEW e \in JobsOf(p, Clusters) \ ToSet(p[c]) PROVE e \in JobsOf(q, Clusters)
    <3>1. PICK k \in Clusters : e \in ToSet(p[k])
      BY <2>2 DEF JobsOf
    <3>2. k # c
      BY <2>2, <3>1
    <3>3. e \in ToSet(q[k])
      BY <1>2, <3>1, <3>2
    <3> QED BY <3>3 DEF JobsOf
  <2> QED BY <2>1, <2>2
<1> QED BY <1>2, <1>4, <1>5, <1>6 DEF Replaced

LEMMA PlannedJobs ==
  ASSUME Lists(plan)
  PROVE  /\ Planned = JobsOf(plan, Clusters) /\ Planned \subseteq Jobs
         /\ \A k \in Clusters : ToSet(plan[k]) \subseteq Planned
<1>1. \A k \in Clusters : ToSet(plan[k]) \subseteq Jobs
  BY ToSetElements DEF Lists
<1> QED BY <1>1 DEF JobsOf, Planned

LEMMA QueuedOrRunning ==
  /\ \A j \in Jobs : j \in Queued <=> j \notin Running
  /\ Queued \subseteq Jobs /\ Running \subseteq Jobs /\ 0 \notin Jobs /\ 0 \notin Queued
BY JobsAssumption DEF Jobs

LEMMA InitLists ==
  ASSUME NEW p \in Plans
  PROVE  Lists(p) /\ JobsOf(p, Clusters) = Jobs
<1>1. p \in [Clusters -> Seq(Jobs)]
  BY PlansAssumption
<1>2. \A k \in Clusters : p[k] \in Seq(Jobs) /\ DOMAIN p[k] = 1 .. Len(p[k])
  BY <1>1
<1>3. \A k, l \in Clusters : \A q \in 1 .. Len(p[k]), r \in 1 .. Len(p[l]) :
         p[k][q] = p[l][r] => k = l /\ q = r
  BY <1>2, PlansAssumption, SMTT(30)
<1>4. \A k \in Clusters : List(p[k])
  BY <1>2, <1>3 DEF List, Distinct
<1>5. Disjoint(p)
  <2>1. SUFFICES ASSUME NEW k \in Clusters, NEW l \in Clusters, k # l,
                        NEW e, e \in ToSet(p[k]), e \in ToSet(p[l])
                 PROVE  FALSE
    BY DEF Disjoint
  <2>2. PICK q \in 1 .. Len(p[k]) : p[k][q] = e
    BY <1>2, <2>1, ToSetElements
  <2>3. PICK r \in 1 .. Len(p[l]) : p[l][r] = e
    BY <1>2, <2>1, ToSetElements
  <2> QED BY <1>3, <2>1, <2>2, <2>3
<1>6. JobsOf(p, Clusters) \subseteq Jobs
  BY <1>2, ToSetElements DEF JobsOf
<1>7. ASSUME NEW j \in Jobs PROVE j \in JobsOf(p, Clusters)
  <2>1. PICK k \in Clusters : \E q \in DOMAIN p[k] : p[k][q] = j
    BY PlansAssumption
  <2>2. j \in ToSet(p[k])
    BY <2>1 DEF ToSet
  <2> QED BY <2>2 DEF JobsOf
<1> QED BY <1>1, <1>4, <1>5, <1>6, <1>7 DEF Lists

\* The start times and nodes of the first plan, cluster by cluster.
LEMMA InitPlacements ==
  ASSUME Init
  PROVE  /\ start \in [Jobs -> Int] /\ fixed \in [Jobs -> 0 .. NumNodes]
         /\ \A j \in Queued : start[j] \in Future /\ fixed[j] # 0
         /\ \A k \in Clusters : Settled(plan[k], start, fixed)
<1>1. Lists(plan) /\ JobsOf(plan, Clusters) = Jobs
  BY InitLists DEF Init
<1>2. PICK first : first = [j \in Jobs |-> IF j \in Running THEN Job[j].start ELSE Now]
  OBVIOUS
<1>3. PICK placed : placed = [k \in Clusters |-> Placements(plan[k], Len(plan[k]), first, NoFixed)]
  OBVIOUS
<1>4. PICK at : at = [j \in Jobs |-> CHOOSE k \in Clusters : j \in ToSet(plan[k])]
  OBVIOUS
<1>5. /\ start = [j \in Jobs |-> placed[at[j]].start[j]]
      /\ fixed = [j \in Jobs |-> placed[at[j]].fixed[j]]
  BY <1>2, <1>3, <1>4 DEF Init
<1>6. first \in [Jobs -> Int] /\ NoFixed \in [Jobs -> 0 .. NumNodes]
  BY <1>2, JobsAssumption, SizesAssumption DEF Now, NoFixed
<1>7. \A j \in Jobs : at[j] \in Clusters /\ j \in ToSet(plan[at[j]])
  BY <1>1, <1>4 DEF JobsOf
<1>8. ASSUME NEW k \in Clusters
      PROVE  Progress(plan[k], first, NoFixed, placed[k], Len(plan[k]))
  <2>1. plan[k] \in Seq(Jobs) /\ Len(plan[k]) \in 0 .. Len(plan[k])
    BY <1>1 DEF Lists
  <2> QED BY <1>3, <1>6, <2>1, UpdateResult
<1>9. ASSUME NEW j \in Jobs
      PROVE  /\ placed[at[j]].start[j] \in Int /\ placed[at[j]].fixed[j] \in 0 .. NumNodes
             /\ j \in Queued => placed[at[j]].start[j] \in Future /\ placed[at[j]].fixed[j] # 0
  <2>1. PICK k \in Clusters : k = at[j] /\ j \in ToSet(plan[k])
    BY <1>7
  <2>2. PICK r : r = placed[k]
    OBVIOUS
  <2>3. Progress(plan[k], first, NoFixed, r, Len(plan[k]))
    BY <1>8, <2>2
  <2>4. r.start[j] \in Int /\ r.fixed[j] \in 0 .. NumNodes
    BY <2>3 DEF Progress, Accs
  <2>5. PICK x \in 1 .. Len(plan[k]) : plan[k][x] = j
    BY <1>1, <2>1, ToSetElements DEF Lists
  <2>6. j \in Queued => r.fixed[j] # 0
    BY <2>3, <2>5, QueuedOrRunning DEF Progress
  <2>7. j \in Queued => first[j] \in Future
    BY <1>2, QueuedOrRunning DEF Future, Now
  <2>8. j \in Queued => r.start[j] \in Future
    BY <2>3, <2>7 DEF Progress
  <2> QED BY <2>1, <2>2, <2>4, <2>6, <2>8
<1>10. start \in [Jobs -> Int] /\ fixed \in [Jobs -> 0 .. NumNodes]
  BY <1>5, <1>9
<1>11. \A j \in Queued : start[j] \in Future /\ fixed[j] # 0
  BY <1>5, <1>9, QueuedOrRunning
<1>12. ASSUME NEW k \in Clusters PROVE Settled(plan[k], start, fixed)
  <2>1. PICK list : list = plan[k]
    OBVIOUS
  <2>2. List(list) /\ list \in Seq(Jobs)
    BY <1>1, <2>1 DEF Lists
  <2>3. PICK r : r = placed[k]
    OBVIOUS
  <2>4. r = Placements(list, Len(list), first, NoFixed)
    BY <1>3, <2>1, <2>3
  <2>5. Settled(list, r.start, r.fixed)
    BY <1>6, <2>2, <2>4, UpdateSettles
  <2>6. r.start \in [Jobs -> Int] /\ r.fixed \in [Jobs -> 0 .. NumNodes]
    BY <1>8, <2>3 DEF Progress, Accs
  <2>7. ASSUME NEW j \in ToSet(list) PROVE r.fixed[j] = fixed[j] /\ r.start[j] = start[j]
    <3>1. j \in Jobs
      BY <2>2, ToSetElements
    <3>2. at[j] = k
      BY <1>1, <1>7, <2>1, <2>7, <3>1 DEF Lists, Disjoint
    <3> QED BY <1>5, <2>3, <3>1, <3>2
  <2>8. Settled(list, start, fixed)
    BY <1>10, <2>2, <2>5, <2>6, <2>7, SettledLocal
  <2> QED BY <2>1, <2>8
<1> QED BY <1>10, <1>11, <1>12

LEMMA WholeInit == Init => Typed /\ Whole
<1>1. SUFFICES ASSUME Init PROVE Typed /\ Whole
  OBVIOUS
<1>2. Lists(plan) /\ JobsOf(plan, Clusters) = Jobs
  BY <1>1, InitLists DEF Init
<1>3. Typed
  <2>1. kept \in [Jobs -> 0 .. NumNodes] /\ cl \in Clusters /\ fails \in Nat /\ freed \subseteq Queued /\ phase # "update"
    BY <1>1, SizesAssumption DEF Init, NoFixed, Clusters
  <2>2. UserData(fslist)
    BY <1>1, FS_EmptySet DEF Init, UserData
  <2> QED BY <1>1, <1>2, <2>1, <2>2, InitPlacements DEF Typed
<1>4. Whole
  <2>1. Planned = Jobs
    BY <1>2, PlannedJobs
  <2>2. phase = "ready" /\ freed = {} /\ kept = NoFixed
    BY <1>1 DEF Init
  <2> QED BY <2>1, <2>2, QueuedOrRunning DEF Whole, Outside, Inside, Away, NoFixed
<1> QED BY <1>3, <1>4

\* A step between two moves, or a crash.
LEMMA WholeQuiet ==
  ASSUME Typed, Whole, ~Outside,
         plan' = plan, fixed' = fixed, kept' = kept, start' = start, freed' = freed, fails' = fails,
         UserData(fslist'), cl' \in Clusters,
         phase' \in {"idle", "ready", "head", "draw", "crash"},
         phase' # "crash" => ~Inside /\ phase # "crash",
         phase' = "draw" => backup' = plan[cl']
  PROVE  Typed' /\ Whole'
<1>1. Typed'
  BY DEF Typed
<1>2. ~Outside' /\ ~Inside' /\ Planned' = Planned /\ Away = {} /\ Away' = {}
  BY DEF Outside, Inside, Planned, Away
<1>3. Whole'
  BY <1>2 DEF Whole
<1> QED BY <1>1, <1>3

LEMMA NextTurnPhase ==
  ASSUME Typed, NEW n, NextTurn(n)
  PROVE  cl' \in Clusters /\ phase' \in {"idle", "head"}
BY SizesAssumption DEF Typed, NextTurn, Clusters

\* The users of the jobs are finitely many.
LEMMA UsersFinite ==
  ASSUME NEW jobs, jobs \subseteq Jobs
  PROVE  IsFiniteSet({Job[j].user : j \in jobs})
<1>1. PICK T : T = {Job[j].user : j \in jobs}
  OBVIOUS
<1>2. PICK f : f = [j \in jobs |-> Job[j].user]
  OBVIOUS
<1>3. f \in Surjection(jobs, T)
  BY <1>1, <1>2 DEF Surjection
<1>4. IsFiniteSet(jobs)
  BY JobsAssumption, FS_Subset
<1> QED BY <1>1, <1>3, <1>4, FS_Surjection

LEMMA UsersAdded ==
  ASSUME NEW fs, UserData(fs), NEW jobs, jobs \subseteq Jobs
  PROVE  UserData(fairshare_add_user(fs, jobs))
<1>1. PICK U : U = DOMAIN fs \cup {Job[j].user : j \in jobs}
  OBVIOUS
<1>2. IsFiniteSet(U)
  BY <1>1, UsersFinite, FS_Union DEF UserData
<1>3. fairshare_add_user(fs, jobs) = [u \in U |-> IF u \in DOMAIN fs THEN fs[u] ELSE [wait |-> 0, Fu |-> 0]]
  BY <1>1 DEF fairshare_add_user
<1>4. \A u \in DOMAIN fs : fs[u] \in [wait : Int, Fu : Nat]
  BY DEF UserData
<1>5. [wait |-> 0, Fu |-> 0] \in [wait : Int, Fu : Nat]
  OBVIOUS
<1>6. fairshare_add_user(fs, jobs) \in [U -> [wait : Int, Fu : Nat]]
  BY <1>3, <1>4, <1>5
<1>7. DOMAIN fairshare_add_user(fs, jobs) = U
  BY <1>3
<1> QED BY <1>2, <1>6, <1>7 DEF UserData

LEMMA WholeStart == Typed /\ Whole /\ Start => Typed' /\ Whole'
<1>1. SUFFICES ASSUME Typed, Whole, Start PROVE Typed' /\ Whole'
  OBVIOUS
<1>2. Planned \subseteq Jobs
  BY <1>1, PlannedJobs DEF Typed
<1>3. UserData(fslist')
  BY <1>1, <1>2, UsersAdded DEF Typed, Start
<1>4. cl' \in Clusters
  BY <1>1, SizesAssumption DEF Start, Clusters
<1>5. ~Outside /\ ~Inside /\ phase # "crash" /\ phase' = "head"
  BY <1>1 DEF Start, Outside, Inside
<1>6. plan' = plan /\ fixed' = fixed /\ kept' = kept /\ start' = start /\ freed' = freed /\ fails' = fails
  BY <1>1 DEF Start
<1> QED BY <1>1, <1>3, <1>4, <1>5, <1>6, WholeQuiet

LEMMA WholeTurn == Typed /\ Whole /\ (NotEnough \/ TimeUp \/ Restored) => Typed' /\ Whole'
<1>1. SUFFICES ASSUME Typed, Whole, NotEnough \/ TimeUp \/ Restored PROVE Typed' /\ Whole'
  OBVIOUS
<1>2. /\ phase \in {"head", "check"} /\ fslist' = fslist
      /\ plan' = plan /\ fixed' = fixed /\ kept' = kept /\ start' = start /\ freed' = freed /\ fails' = fails
  BY <1>1 DEF NotEnough, TimeUp, Restored
<1>3. cl' \in Clusters /\ phase' \in {"idle", "head"}
  BY <1>1, NextTurnPhase DEF NotEnough, TimeUp, Restored
<1>4. ~Outside /\ ~Inside /\ phase # "crash" /\ UserData(fslist')
  BY <1>1, <1>2 DEF Outside, Inside, Typed
<1> QED BY <1>1, <1>2, <1>3, <1>4, WholeQuiet

LEMMA WholeBackup == Typed /\ Whole /\ backup_job_order => Typed' /\ Whole'
<1>1. SUFFICES ASSUME Typed, Whole, backup_job_order PROVE Typed' /\ Whole'
  OBVIOUS
<1>2. /\ phase = "head" /\ phase' = "draw" /\ fslist' = fslist /\ cl' = cl /\ backup' = plan[cl]
      /\ plan' = plan /\ fixed' = fixed /\ kept' = kept /\ start' = start /\ freed' = freed /\ fails' = fails
  BY <1>1 DEF backup_job_order
<1>3. ~Outside /\ ~Inside /\ UserData(fslist') /\ cl' \in Clusters
  BY <1>1, <1>2 DEF Outside, Inside, Typed
<1> QED BY <1>1, <1>2, <1>3, WholeQuiet

LEMMA WholeCrash == Typed /\ Whole /\ Crash => Typed' /\ Whole'
<1>1. SUFFICES ASSUME Typed, Whole, Crash PROVE Typed' /\ Whole'
  OBVIOUS
<1>2. /\ phase \in {"evaluate", "check", "decide"} /\ phase' = "crash" /\ fslist' = fslist /\ cl' = cl
      /\ plan' = plan /\ fixed' = fixed /\ kept' = kept /\ start' = start /\ freed' = freed /\ fails' = fails
  BY <1>1 DEF Crash
<1>3. ~Outside /\ UserData(fslist') /\ cl' \in Clusters
  BY <1>1, <1>2 DEF Outside, Typed
<1> QED BY <1>1, <1>2, <1>3, WholeQuiet

LEMMA WholeEvaluate == Typed /\ Whole /\ Evaluate => Typed' /\ Whole'
<1>1. SUFFICES ASSUME Typed, Whole, Evaluate PROVE Typed' /\ Whole'
  OBVIOUS
<1>2. /\ phase = "evaluate" /\ phase' = "decide"
      /\ UNCHANGED <<plan, fixed, kept, start, freed, fails, fslist, update, backup, moved, cl>>
  BY <1>1 DEF Evaluate
<1>3. Typed'
  BY <1>1, <1>2 DEF Typed
<1>4. ~Outside /\ ~Outside' /\ Inside /\ Inside' /\ Planned' = Planned /\ Away = {} /\ Away' = {}
  BY <1>2 DEF Outside, Inside, Planned, Away
<1>5. Covered'
  BY <1>1, <1>2, <1>4 DEF Whole, Covered
<1>6. Whole'
  BY <1>1, <1>2, <1>4, <1>5 DEF Whole
<1> QED BY <1>3, <1>6

\* The job that is taken out, and what that changes.
Takes(j) ==
  /\ j \in Queued /\ j \in ToSet(plan[cl]) /\ moved' = j
  /\ kept' = IF fixed[j] = 0 THEN kept ELSE [kept EXCEPT ![j] = fixed[j]]
  /\ fixed' = [fixed EXCEPT ![j] = 0]
  /\ Lists(plan') /\ Planned' = Planned \ {j} /\ ToSet(plan'[cl]) = ToSet(plan[cl]) \ {j}
  /\ \A k \in Clusters \ {cl} : plan'[k] = plan[k]

LEMMA TakeOutSteps ==
  ASSUME Typed, Whole, TakeOut
  PROVE  /\ phase = "draw" /\ phase' = "update" /\ update'.next = "put" /\ backup = plan[cl]
         /\ UNCHANGED <<start, freed, fails, fslist, backup, before, cl>>
         /\ ~Outside /\ ~Inside /\ Outside' /\ ~Inside' /\ Away = {} /\ Away' = {moved'}
         /\ \E j : Takes(j)
<1>2. PICK j \in list_get_random_item(plan[cl], MinQueued) \cap Queued :
        /\ moved' = j
        /\ kept' = IF fixed[j] = 0 THEN kept ELSE [kept EXCEPT ![j] = fixed[j]]
        /\ fixed' = [fixed EXCEPT ![j] = 0]
        /\ plan' = [plan EXCEPT ![cl] = Unlinked(@, j)]
  BY DEF TakeOut
<1>3. /\ phase = "draw" /\ phase' = "update" /\ update'.next = "put" /\ backup = plan[cl]
      /\ UNCHANGED <<start, freed, fails, fslist, backup, before, cl>>
  BY DEF TakeOut, Call, Whole
<1>4. PICK s : s = plan[cl]
  OBVIOUS
<1>5. cl \in Clusters /\ Lists(plan) /\ List(s)
  BY <1>4 DEF Typed, Lists
<1>6. j \in ToSet(s)
  BY <1>2, <1>4, QueuedOrRunning DEF list_get_random_item
<1>7. PICK t : t = Unlinked(s, j)
  OBVIOUS
<1>8. List(t) /\ ToSet(t) = ToSet(s) \ {j}
  BY <1>5, <1>6, <1>7, UnlinkedList
<1>9. plan' = [plan EXCEPT ![cl] = t]
  BY <1>2, <1>4, <1>7
<1>10. Planned = JobsOf(plan, Clusters) /\ ToSet(s) \subseteq Planned
  BY <1>4, <1>5, PlannedJobs
<1>11. Replaced(plan', plan, cl, t)
  <2>1. ToSet(t) \cap (JobsOf(plan, Clusters) \ ToSet(plan[cl])) = {}
    BY <1>4, <1>8
  <2> QED BY <1>5, <1>8, <1>9, <2>1, ReplaceList
<1>12. Planned' = Planned \ {j}
  <2>1. Planned' = JobsOf(plan', Clusters)
    BY DEF Planned, JobsOf
  <2>2. JobsOf(plan', Clusters) = (Planned \ ToSet(s)) \cup ToSet(t)
    BY <1>4, <1>10, <1>11 DEF Replaced
  <2> QED BY <1>6, <1>8, <1>10, <2>1, <2>2
<1>13. ~Outside /\ ~Inside /\ Outside' /\ ~Inside' /\ Away = {} /\ Away' = {moved'}
  BY <1>3 DEF Outside, Inside, Away
<1>14. Takes(j)
  BY <1>2, <1>4, <1>6, <1>8, <1>11, <1>12 DEF Takes, Replaced
<1> QED BY <1>3, <1>13, <1>14

LEMMA WholeTakeOut == Typed /\ Whole /\ TakeOut => Typed' /\ Whole'
<1>1. SUFFICES ASSUME Typed, Whole, TakeOut PROVE Typed' /\ Whole'
  OBVIOUS
<1>2. /\ phase = "draw" /\ phase' = "update" /\ update'.next = "put" /\ backup = plan[cl]
      /\ UNCHANGED <<start, freed, fails, fslist, backup, cl>>
      /\ ~Outside /\ ~Inside /\ Outside' /\ ~Inside' /\ Away = {} /\ Away' = {moved'}
  BY <1>1, TakeOutSteps
<1>3. PICK j : Takes(j)
  BY <1>1, TakeOutSteps
<1>4. /\ j \in Queued /\ j \in ToSet(plan[cl]) /\ moved' = j /\ j \in Jobs
      /\ Lists(plan') /\ Planned' = Planned \ {j} /\ ToSet(plan'[cl]) = ToSet(plan[cl]) \ {j}
  BY <1>3, QueuedOrRunning DEF Takes
<1>5. List(plan[cl]) /\ ToSet(plan[cl]) \subseteq Planned /\ Planned \subseteq Jobs
  BY <1>1, PlannedJobs DEF Typed, Lists
<1>6. Typed'
  <2>1. fixed' \in [Jobs -> 0 .. NumNodes] /\ kept' \in [Jobs -> 0 .. NumNodes]
    BY <1>1, <1>3, <1>4, SizesAssumption DEF Typed, Takes
  <2> QED BY <1>1, <1>2, <1>4, <2>1 DEF Typed
<1>7. freed \cap Planned = {}
  BY <1>1, <1>2 DEF Whole, Typed
<1>8. \A k \in Planned \ {j} : kept'[k] = 0
  BY <1>1, <1>2, <1>3, <1>4, <1>5 DEF Whole, Typed, Takes
<1>9. Covered'
  BY <1>2, <1>4, <1>5, <1>7 DEF Covered
<1>10. Whole'
  BY <1>1, <1>2, <1>4, <1>5, <1>7, <1>8, <1>9 DEF Whole
<1> QED BY <1>6, <1>10

\* What putting the job back changes.
LEMMA PutBackSteps ==
  ASSUME Typed, Whole, PutBack
  PROVE  /\ phase = "put" /\ phase' = "update" /\ update'.next = "evaluate"
         /\ UNCHANGED <<fixed, kept, start, freed, fails, fslist, backup, moved, before, cl>>
         /\ Outside /\ ~Inside /\ Away = {moved} /\ ~Outside' /\ Inside' /\ Away' = {}
         /\ Covered /\ moved \notin freed \cup Planned
         /\ Lists(plan') /\ Planned' = Planned \cup {moved} /\ ToSet(plan'[cl]) = ToSet(plan[cl]) \cup {moved}
         /\ \A k \in Clusters \ {cl} : plan'[k] = plan[k]
<1>2. PICK at \in list_get_random_item(plan[cl], MinQueued - 1) :
        plan' = [plan EXCEPT ![cl] = Behind(@, at, moved)]
  BY DEF PutBack
<1>3. /\ phase = "put" /\ phase' = "update" /\ update'.next = "evaluate"
      /\ UNCHANGED <<fixed, kept, start, freed, fails, fslist, backup, moved, before, cl>>
  BY DEF PutBack, Call
<1>4. PICK s : s = plan[cl]
  OBVIOUS
<1>5. cl \in Clusters /\ Lists(plan) /\ List(s)
  BY <1>4 DEF Typed, Lists
<1>6. Outside /\ ~Inside /\ Away = {moved} /\ ~Outside' /\ Inside' /\ Away' = {}
  BY <1>3 DEF Outside, Inside, Away
<1>7. /\ Covered /\ moved \notin freed \cup Planned /\ moved \in Queued /\ moved \in Jobs
  BY <1>6, QueuedOrRunning DEF Whole, Covered
<1>8. Planned = JobsOf(plan, Clusters) /\ ToSet(s) \subseteq Planned
  BY <1>4, <1>5, PlannedJobs
<1>9. at \in ToSet(s) \cup {0}
  BY <1>2, <1>4 DEF list_get_random_item
<1>10. PICK t : t = Behind(s, at, moved)
  OBVIOUS
<1>11. List(t) /\ ToSet(t) = ToSet(s) \cup {moved}
  BY <1>5, <1>7, <1>8, <1>9, <1>10, BehindList DEF Grown
<1>12. plan' = [plan EXCEPT ![cl] = t]
  BY <1>2, <1>4, <1>10
<1>13. Replaced(plan', plan, cl, t)
  <2>1. ToSet(t) \cap (JobsOf(plan, Clusters) \ ToSet(plan[cl])) = {}
    BY <1>4, <1>7, <1>8, <1>11
  <2> QED BY <1>5, <1>11, <1>12, <2>1, ReplaceList
<1>14. Planned' = Planned \cup {moved}
  <2>1. Planned' = JobsOf(plan', Clusters)
    BY DEF Planned, JobsOf
  <2>2. JobsOf(plan', Clusters) = (Planned \ ToSet(s)) \cup ToSet(t)
    BY <1>4, <1>8, <1>13 DEF Replaced
  <2> QED BY <1>8, <1>11, <2>1, <2>2
<1> QED BY <1>3, <1>4, <1>6, <1>7, <1>11, <1>13, <1>14 DEF Replaced

LEMMA WholePutBack == Typed /\ Whole /\ PutBack => Typed' /\ Whole'
<1>1. SUFFICES ASSUME Typed, Whole, PutBack PROVE Typed' /\ Whole'
  OBVIOUS
<1>2. /\ phase = "put" /\ phase' = "update" /\ update'.next = "evaluate"
      /\ UNCHANGED <<fixed, kept, start, freed, fails, fslist, backup, moved, cl>>
      /\ Outside /\ ~Inside /\ Away = {moved} /\ ~Outside' /\ Inside' /\ Away' = {}
      /\ Covered /\ moved \notin freed \cup Planned
      /\ Lists(plan') /\ Planned' = Planned \cup {moved} /\ ToSet(plan'[cl]) = ToSet(plan[cl]) \cup {moved}
  BY <1>1, PutBackSteps
<1>3. Typed'
  BY <1>1, <1>2 DEF Typed
<1>4. \A k \in Planned : kept[k] = 0
  BY <1>1, <1>2 DEF Whole
<1>5. Covered'
  BY <1>2 DEF Covered
<1>6. moved \in Queued
  BY <1>2 DEF Covered
<1>7. Whole'
  BY <1>1, <1>2, <1>4, <1>5, <1>6 DEF Whole
<1> QED BY <1>3, <1>7

\* Where an update leads to.
LEMMA ReturnSteps ==
  ASSUME Typed, phase = "update", Return
  PROVE  /\ cl' \in Clusters /\ update' = update
         /\ \/ phase' = "update" /\ update.next = "ready" /\ cl' = cl + 1
            \/ phase' = update.next /\ cl' = cl /\ (update.next = "ready" => cl = NumClusters)
<1>1. update.next \in {"put", "evaluate", "check", "ready"} /\ cl \in 1 .. NumClusters
  BY DEF Typed, Clusters
<1>2. CASE update.next = "ready" /\ cl < NumClusters
  BY <1>1, <1>2, SizesAssumption DEF Return, Clusters
<1>3. CASE ~(update.next = "ready" /\ cl < NumClusters)
  BY <1>1, <1>3, SizesAssumption DEF Return, Clusters
<1> QED BY <1>2, <1>3

LEMMA WholeUpdateDone == Typed /\ Whole /\ UpdateDone => Typed' /\ Whole'
<1>1. SUFFICES ASSUME Typed, Whole, UpdateDone PROVE Typed' /\ Whole'
  OBVIOUS
<1>2. PICK r : r = Placements(plan[cl], Len(plan[cl]), start, fixed)
  OBVIOUS
<1>3. /\ phase = "update" /\ start' = r.start /\ fixed' = r.fixed /\ Return
      /\ UNCHANGED <<plan, kept, freed, fslist, backup, moved, fails>>
  BY <1>1, <1>2 DEF UpdateDone
<1>4. /\ cl' \in Clusters /\ update' = update
      /\ \/ phase' = "update" /\ update.next = "ready"
         \/ phase' = update.next /\ cl' = cl
  BY <1>1, <1>3, ReturnSteps
<1>5. Progress(plan[cl], start, fixed, r, Len(plan[cl]))
  <2>1. plan[cl] \in Seq(Jobs) /\ Len(plan[cl]) \in 0 .. Len(plan[cl])
    BY <1>1 DEF Typed, Lists
  <2> QED BY <1>1, <1>2, <2>1, UpdateResult DEF Typed
<1>6. start' \in [Jobs -> Int] /\ fixed' \in [Jobs -> 0 .. NumNodes] /\ \A j \in Queued : start'[j] \in Future
  BY <1>1, <1>3, <1>5, QueuedOrRunning DEF Progress, Accs, Typed
<1>7. Typed'
  BY <1>1, <1>3, <1>4, <1>6 DEF Typed
<1>8. /\ (Outside' <=> Outside) /\ (Inside' <=> Inside) /\ (Outside \/ Inside => cl' = cl)
      /\ Planned' = Planned /\ Away' = Away /\ phase' \notin {"draw", "crash"}
  BY <1>1, <1>3, <1>4 DEF Outside, Inside, Planned, Away, Typed
<1>9. Outside \/ Inside => (Covered' <=> Covered)
  BY <1>3, <1>8 DEF Covered
<1>10. Whole'
  BY <1>1, <1>3, <1>8, <1>9 DEF Whole
<1> QED BY <1>7, <1>10

\* What the move of a priority job to the front changes.
LEMMA FrontSteps ==
  ASSUME Typed, MoveToFront
  PROVE  /\ Lists(plan') /\ Planned' = Planned /\ ToSet(plan'[cl]) = ToSet(plan[cl])
         /\ \A k \in Clusters \ {cl} : plan'[k] = plan[k]
         /\ \E j \in ToSet(plan[cl]) :
              /\ Moves(j) /\ plan'[cl][1] = j /\ marked' = marked \cup {j}
              /\ plan[cl][1] = j => plan'[cl] = plan[cl]
<1>1. PICK p \in DOMAIN plan[cl] :
        /\ Moves(plan[cl][p]) /\ marked' = marked \cup {plan[cl][p]}
        /\ plan' = [plan EXCEPT ![cl] = Behind(Unlinked(@, @[p]), 0, @[p])]
  BY DEF MoveToFront
<1>2. PICK s : s = plan[cl]
  OBVIOUS
<1>3. Lists(plan) /\ cl \in Clusters /\ List(s) /\ Planned = JobsOf(plan, Clusters) /\ ToSet(s) \subseteq Planned
  BY <1>2, PlannedJobs DEF Typed, Lists
<1>4. PICK j : j = s[p]
  OBVIOUS
<1>5. j \in ToSet(s)
  BY <1>1, <1>2, <1>3, <1>4, ToSetElements DEF List
<1>6. PICK t : t = Behind(Unlinked(s, j), 0, j)
  OBVIOUS
<1>7. List(t) /\ ToSet(t) = ToSet(s) /\ t[1] = j /\ (s[1] = j => t = s)
  BY <1>3, <1>5, <1>6, FrontList
<1>8. plan' = [plan EXCEPT ![cl] = t]
  BY <1>1, <1>2, <1>4, <1>6
<1>9. Replaced(plan', plan, cl, t)
  <2>1. ToSet(t) \cap (JobsOf(plan, Clusters) \ ToSet(plan[cl])) = {}
    BY <1>2, <1>7
  <2> QED BY <1>3, <1>7, <1>8, <2>1, ReplaceList
<1>10. Planned' = Planned
  <2>1. Planned' = JobsOf(plan', Clusters)
    BY DEF Planned, JobsOf
  <2>2. JobsOf(plan', Clusters) = (Planned \ ToSet(s)) \cup ToSet(t)
    BY <1>2, <1>3, <1>9 DEF Replaced
  <2> QED BY <1>3, <1>7, <2>1, <2>2
<1>11. /\ Moves(j) /\ plan'[cl][1] = j /\ marked' = marked \cup {j}
       /\ plan[cl][1] = j => plan'[cl] = plan[cl]
  BY <1>1, <1>2, <1>4, <1>7, <1>9 DEF Replaced
<1>12. \A k \in Clusters \ {cl} : plan'[k] = plan[k]
  BY <1>9 DEF Replaced
<1> QED BY <1>2, <1>5, <1>7, <1>9, <1>10, <1>11, <1>12 DEF Replaced

LEMMA WholeMoveToFront == Typed /\ Whole /\ MoveToFront => Typed' /\ Whole'
<1>1. SUFFICES ASSUME Typed, Whole, MoveToFront PROVE Typed' /\ Whole'
  OBVIOUS
<1>2. /\ Lists(plan') /\ Planned' = Planned /\ ToSet(plan'[cl]) = ToSet(plan[cl])
  BY <1>1, FrontSteps
<1>3. /\ phase = "update"
      /\ UNCHANGED <<fixed, kept, start, freed, fslist, phase, update, backup, moved, cl, fails>>
  BY <1>1 DEF MoveToFront
<1>4. Typed'
  BY <1>1, <1>2, <1>3 DEF Typed
<1>5. (Outside' <=> Outside) /\ (Inside' <=> Inside) /\ Away' = Away
  BY <1>3 DEF Outside, Inside, Away
<1>6. Covered' <=> Covered
  BY <1>2, <1>3, <1>5 DEF Covered
<1>7. Whole'
  BY <1>1, <1>2, <1>3, <1>5, <1>6 DEF Whole
<1> QED BY <1>4, <1>7

LEMMA WholeUpdateFails == Typed /\ Whole /\ UpdateFails => Typed' /\ Whole'
<1>1. SUFFICES ASSUME Typed, Whole, UpdateFails PROVE Typed' /\ Whole'
  OBVIOUS
<1>2. PICK p \in DOMAIN plan[cl] :
        /\ plan[cl][p] \in Queued
        /\ \E r \in {Placements(plan[cl], p - 1, start, fixed)} : start' = r.start /\ fixed' = r.fixed
        /\ freed' = freed \cup {plan[cl][p]}
        /\ plan' = [plan EXCEPT ![cl] = RemoveAt(@, p)]
  BY <1>1 DEF UpdateFails
<1>3. PICK s : s = plan[cl]
  OBVIOUS
<1>4. cl \in Clusters /\ Lists(plan) /\ List(s) /\ s \in Seq(Jobs) /\ p \in 1 .. Len(s)
  BY <1>1, <1>2, <1>3 DEF Typed, Lists, List
<1>5. PICK j \in Queued : j = s[p]
  BY <1>2, <1>3
<1>6. PICK r : r = Placements(s, p - 1, start, fixed)
  OBVIOUS
<1>7. start' = r.start /\ fixed' = r.fixed /\ freed' = freed \cup {j}
  BY <1>2, <1>3, <1>5, <1>6
<1>8. /\ phase = "update" /\ fails' = fails + 1
      /\ UNCHANGED <<kept, fslist, backup, moved, cl>>
      /\ \/ phase' = "update" /\ update'.next = update.next
         \/ phase' = update.next
  <2>1. phase = "update" /\ fails' = fails + 1 /\ UNCHANGED <<kept, fslist, backup, moved, cl>>
    BY <1>1 DEF UpdateFails
  <2>2. CASE phase' = update.next
    BY <2>1, <2>2
  <2>3. CASE update' = [update EXCEPT !.tries = 2] /\ UNCHANGED phase
    BY <2>1, <2>3
  <2> QED BY <1>1, <2>1, <2>2, <2>3 DEF UpdateFails
<1>9. Progress(s, start, fixed, r, p - 1)
  <2>1. p - 1 \in 0 .. Len(s)
    BY <1>4
  <2> QED BY <1>1, <1>4, <1>6, <2>1, UpdateResult DEF Typed
<1>10. start' \in [Jobs -> Int] /\ fixed' \in [Jobs -> 0 .. NumNodes] /\ \A k \in Queued : start'[k] \in Future
  BY <1>1, <1>7, <1>9, QueuedOrRunning DEF Progress, Accs, Typed
<1>11. PICK t : t = RemoveAt(s, p)
  OBVIOUS
<1>12. List(t) /\ ToSet(t) = ToSet(s) \ {j}
  BY <1>4, <1>5, <1>11, RemoveAtList
<1>13. plan' = [plan EXCEPT ![cl] = t]
  BY <1>2, <1>3, <1>11
<1>14. Planned = JobsOf(plan, Clusters) /\ ToSet(s) \subseteq Planned /\ Planned \subseteq Jobs /\ j \in ToSet(s)
  BY <1>3, <1>4, <1>5, PlannedJobs, ToSetElements
<1>15. Lists(plan') /\ JobsOf(plan', Clusters) = (Planned \ ToSet(s)) \cup ToSet(t) /\ plan'[cl] = t
  <2>1. ToSet(t) \cap (JobsOf(plan, Clusters) \ ToSet(plan[cl])) = {}
    BY <1>3, <1>12
  <2>2. Replaced(plan', plan, cl, t)
    BY <1>4, <1>12, <1>13, <2>1, ReplaceList
  <2> QED BY <1>3, <1>14, <2>2 DEF Replaced
<1>16. Planned' = Planned \ {j}
  <2>1. Planned' = JobsOf(plan', Clusters)
    BY DEF Planned, JobsOf
  <2> QED BY <1>12, <1>14, <1>15, <2>1
<1>17. update.next \in {"put", "evaluate", "check", "ready"}
  BY <1>1, <1>8 DEF Typed
<1>18. Typed'
  BY <1>1, <1>5, <1>7, <1>8, <1>10, <1>15, <1>17 DEF Typed
<1>19. /\ (Outside' <=> Outside) /\ (Inside' <=> Inside) /\ Away' = Away
       /\ phase' # "draw" /\ phase' # "crash" /\ phase # "crash"
  BY <1>8, <1>17 DEF Outside, Inside, Away
<1>20. Outside => j # moved
  BY <1>1, <1>14 DEF Whole
<1>21. Outside \/ Inside => Covered'
  <2>1. SUFFICES ASSUME Outside \/ Inside PROVE Covered'
    OBVIOUS
  <2>2. Covered
    BY <1>1, <2>1 DEF Whole
  <2>3. ToSet(backup) \ freed' = ToSet(t) \cup Away
    BY <1>3, <1>7, <1>12, <1>20, <2>2 DEF Covered, Away
  <2> QED BY <1>8, <1>15, <1>19, <2>2, <2>3 DEF Covered
<1>22. Planned' \cap Queued = (Queued \ freed') \ Away
  BY <1>1, <1>7, <1>16 DEF Whole
<1>23. \A k \in Planned' : kept[k] # 0 => Inside /\ k = moved
  BY <1>1, <1>16, <1>19 DEF Whole
<1>24. Outside => moved \notin freed' \cup Planned'
  BY <1>1, <1>7, <1>16, <1>20 DEF Whole
<1>25. Whole'
  BY <1>8, <1>19, <1>21, <1>22, <1>23, <1>24 DEF Whole
<1> QED BY <1>18, <1>25

\* No job of the plan keeps a backup of its nodes once its list has none.
LEMMA BackupDropped ==
  ASSUME Typed, Whole, Inside, NEW list, ToSet(list) \cap Planned = ToSet(plan[cl]),
         kept' = WithoutBackup(kept, list)
  PROVE  kept' \in [Jobs -> 0 .. NumNodes] /\ \A j \in Planned : kept'[j] = 0
<1>1. Planned \subseteq Jobs /\ cl \in Clusters /\ ToSet(plan[cl]) \subseteq Planned
  BY PlannedJobs DEF Typed
<1>2. phase # "crash" /\ ~Outside /\ Covered
  BY DEF Inside, Outside, Whole
<1>3. kept' \in [Jobs -> 0 .. NumNodes]
  BY SizesAssumption DEF WithoutBackup, Typed
<1>4. ASSUME NEW j \in Planned PROVE kept'[j] = 0
  <2>1. kept'[j] = IF j \in ToSet(list) THEN 0 ELSE kept[j]
    BY <1>1 DEF WithoutBackup
  <2>2. kept[j] # 0 => j = moved
    BY <1>2 DEF Whole
  <2>3. freed \cap Planned = {} /\ Away = {}
    BY <1>2 DEF Whole, Typed, Away
  <2>4. j = moved => j \in ToSet(plan[cl])
    BY <1>2, <2>3 DEF Covered
  <2> QED BY <2>1, <2>2, <2>4
<1> QED BY <1>3, <1>4

LEMMA WholeAccept == Typed /\ Whole /\ Accept => Typed' /\ Whole'
<1>1. SUFFICES ASSUME Typed, Whole, Accept PROVE Typed' /\ Whole'
  OBVIOUS
<1>2. /\ phase = "decide" /\ kept' = WithoutBackup(kept, plan[cl])
      /\ UNCHANGED <<plan, fixed, start, freed, fslist, update, backup, moved, fails>>
  BY <1>1 DEF Accept
<1>3. cl' \in Clusters /\ phase' \in {"idle", "head"}
  BY <1>1, NextTurnPhase DEF Accept
<1>4. Inside /\ ~Outside /\ ~Inside' /\ ~Outside' /\ Away = {} /\ Away' = {} /\ Planned' = Planned
  BY <1>2, <1>3 DEF Inside, Outside, Away, Planned
<1>5. ToSet(plan[cl]) \cap Planned = ToSet(plan[cl])
  BY <1>1, PlannedJobs DEF Typed
<1>6. kept' \in [Jobs -> 0 .. NumNodes] /\ \A j \in Planned : kept'[j] = 0
  BY <1>1, <1>2, <1>4, <1>5, BackupDropped
<1>7. Typed'
  BY <1>1, <1>2, <1>3, <1>6 DEF Typed
<1>8. Whole'
  BY <1>1, <1>2, <1>3, <1>4, <1>6 DEF Whole
<1> QED BY <1>7, <1>8

\* What a rejected move changes.
LEMMA RejectSteps ==
  ASSUME Typed, Whole, Reject
  PROVE  /\ Inside /\ ~Outside /\ ~Inside' /\ ~Outside' /\ Away = {} /\ Away' = {}
         /\ List(backup) /\ ToSet(backup) = ToSet(plan[cl]) /\ moved \in ToSet(backup)
         /\ Lists(plan') /\ Planned' = Planned /\ plan'[cl] = backup
         /\ \A k \in Clusters \ {cl} : plan'[k] = plan[k]
         /\ UNCHANGED <<start, freed, fslist, backup, moved, before, cl, fails>>
         /\ phase' = "update" /\ update'.next = "check"
<1>1. /\ phase = "decide" /\ freed \cap ToSet(backup) = {} /\ phase' = "update" /\ update'.next = "check"
      /\ plan' = [plan EXCEPT ![cl] = backup]
      /\ UNCHANGED <<start, freed, fslist, backup, moved, before, cl, fails>>
  BY DEF Reject, restore_job_order, Call
<1>2. Inside /\ ~Outside /\ ~Inside' /\ ~Outside' /\ Away = {} /\ Away' = {}
  BY <1>1 DEF Inside, Outside, Away
<1>3. List(backup) /\ ToSet(backup) = ToSet(plan[cl]) /\ moved \in ToSet(backup)
  BY <1>1, <1>2 DEF Whole, Covered
<1>4. Lists(plan) /\ cl \in Clusters /\ Planned = JobsOf(plan, Clusters) /\ ToSet(plan[cl]) \subseteq Planned
  BY PlannedJobs DEF Typed
<1>5. Replaced(plan', plan, cl, backup)
  <2>1. ToSet(backup) \cap (JobsOf(plan, Clusters) \ ToSet(plan[cl])) = {}
    BY <1>3
  <2> QED BY <1>1, <1>3, <1>4, <2>1, ReplaceList
<1>6. Planned' = JobsOf(plan', Clusters)
  BY DEF Planned, JobsOf
<1>7. Planned' = Planned
  BY <1>3, <1>4, <1>5, <1>6 DEF Replaced
<1> QED BY <1>1, <1>2, <1>3, <1>5, <1>7 DEF Replaced

LEMMA WholeReject == Typed /\ Whole /\ Reject => Typed' /\ Whole'
<1>1. SUFFICES ASSUME Typed, Whole, Reject PROVE Typed' /\ Whole'
  OBVIOUS
<1>2. /\ Inside /\ ~Inside' /\ ~Outside' /\ Away = {} /\ Away' = {}
      /\ List(backup) /\ ToSet(backup) = ToSet(plan[cl]) /\ Lists(plan') /\ Planned' = Planned
      /\ UNCHANGED <<start, freed, fslist, backup, moved, cl, fails>>
      /\ phase' = "update" /\ update'.next = "check"
  BY <1>1, RejectSteps
<1>3. /\ fixed' = [j \in Jobs |-> IF j \in ToSet(backup) /\ kept[j] # 0 THEN kept[j] ELSE fixed[j]]
      /\ kept' = WithoutBackup(kept, backup)
  BY <1>1 DEF Reject, restore_job_order
<1>4. fixed' \in [Jobs -> 0 .. NumNodes]
  BY <1>1, <1>3 DEF Typed
<1>5. ToSet(backup) \cap Planned = ToSet(plan[cl])
  BY <1>1, <1>2, PlannedJobs DEF Typed
<1>6. kept' \in [Jobs -> 0 .. NumNodes] /\ \A j \in Planned : kept'[j] = 0
  BY <1>1, <1>2, <1>3, <1>5, BackupDropped
<1>7. Typed'
  BY <1>1, <1>2, <1>4, <1>6 DEF Typed
<1>8. Whole'
  BY <1>1, <1>2, <1>6 DEF Whole
<1> QED BY <1>7, <1>8

\* What the completion of a job changes.
LEMMA CompletionSteps ==
  ASSUME Typed, NEW j \in Completing, JobCompletes(j)
  PROVE  /\ Lists(plan') /\ Planned' = Planned \ {j}
         /\ \A k \in Clusters : ToSet(plan[k]) \ {j} \subseteq ToSet(plan'[k])
         /\ phase = "idle" /\ UserData(fslist')
         /\ UNCHANGED <<fixed, kept, start, freed, marked, phase, update, backup, moved, cl, fails>>
<1>1. PICK k \in Clusters : j \in ToSet(plan[k]) /\ plan' = [plan EXCEPT ![k] = Unlinked(@, j)]
  BY DEF JobCompletes
<1>2. /\ phase = "idle"
      /\ UNCHANGED <<fixed, kept, start, freed, marked, phase, update, backup, moved, cl, fails>>
  BY DEF JobCompletes
<1>3. PICK s : s = plan[k]
  OBVIOUS
<1>4. Lists(plan) /\ List(s) /\ Planned = JobsOf(plan, Clusters) /\ ToSet(s) \subseteq Planned
  BY <1>3, PlannedJobs DEF Typed, Lists
<1>5. PICK t : t = Unlinked(s, j)
  OBVIOUS
<1>6. List(t) /\ ToSet(t) = ToSet(s) \ {j}
  BY <1>1, <1>3, <1>4, <1>5, UnlinkedList
<1>7. plan' = [plan EXCEPT ![k] = t]
  BY <1>1, <1>3, <1>5
<1>8. Replaced(plan', plan, k, t)
  <2>1. ToSet(t) \cap (JobsOf(plan, Clusters) \ ToSet(plan[k])) = {}
    BY <1>3, <1>6
  <2> QED BY <1>4, <1>6, <1>7, <2>1, ReplaceList
<1>9. Planned' = Planned \ {j}
  <2>1. Planned' = JobsOf(plan', Clusters)
    BY DEF Planned, JobsOf
  <2>2. JobsOf(plan', Clusters) = (Planned \ ToSet(s)) \cup ToSet(t)
    BY <1>3, <1>4, <1>8 DEF Replaced
  <2> QED BY <1>1, <1>3, <1>4, <1>6, <2>1, <2>2
<1>10. UserData(fslist')
  <2>1. PICK fs : fs = fslist
    OBVIOUS
  <2>2. PICK u : u = Job[j].user
    OBVIOUS
  <2>3. PICK w \in Int : w = Job[j].start - Job[j].qtime
    BY JobsAssumption DEF Jobs
  <2>4. PICK f \in Nat : f = Job[j].share * (Now - Job[j].start)
    BY JobsAssumption DEF Jobs, Now
  <2>5. j \in Jobs /\ Job[j].start \in Int /\ Job[j].qtime \in Int
    BY JobsAssumption DEF Jobs
  <2>6. fslist' = [fs EXCEPT ![u] = [wait |-> @.wait + Job[j].start - Job[j].qtime, Fu |-> @.Fu + f]]
    BY <2>1, <2>2, <2>4 DEF JobCompletes
  <2>7. IsFiniteSet(DOMAIN fs) /\ fs \in [DOMAIN fs -> [wait : Int, Fu : Nat]]
    BY <2>1 DEF Typed, UserData
  <2>8. CASE u \notin DOMAIN fs
    BY <2>1, <2>6, <2>7, <2>8 DEF UserData
  <2>9. CASE u \in DOMAIN fs
    <3>1. fs[u].wait \in Int /\ fs[u].Fu \in Nat
      BY <2>7, <2>9
    <3>2. PICK e \in [wait : Int, Fu : Nat] :
            e = [wait |-> fs[u].wait + Job[j].start - Job[j].qtime, Fu |-> fs[u].Fu + f]
      <4>1. PICK a \in Int : a = fs[u].wait + Job[j].start - Job[j].qtime
        BY <2>5, <3>1
      <4>2. PICK b \in Nat : b = fs[u].Fu + f
        BY <3>1
      <4> QED BY <4>1, <4>2
    <3>3. fslist' = [fs EXCEPT ![u] = e]
      BY <2>6, <2>9, <3>2
    <3>4. DOMAIN fslist' = DOMAIN fs /\ fslist' \in [DOMAIN fs -> [wait : Int, Fu : Nat]]
      BY <2>7, <3>3
    <3> QED BY <2>7, <3>4 DEF UserData
  <2> QED BY <2>8, <2>9
<1>11. \A l \in Clusters : ToSet(plan[l]) \ {j} \subseteq ToSet(plan'[l])
  BY <1>3, <1>6, <1>8 DEF Replaced
<1> QED BY <1>2, <1>8, <1>9, <1>10, <1>11 DEF Replaced

LEMMA WholeJobCompletes ==
  ASSUME Typed, Whole, NEW j \in Completing, JobCompletes(j)
  PROVE  Typed' /\ Whole'
<1>1. /\ Lists(plan') /\ Planned' = Planned \ {j} /\ phase = "idle" /\ UserData(fslist')
      /\ UNCHANGED <<fixed, kept, start, freed, phase, update, backup, moved, cl, fails>>
  BY CompletionSteps
<1>2. ~Outside /\ ~Inside /\ ~Outside' /\ ~Inside' /\ Away = {} /\ Away' = {}
  BY <1>1 DEF Outside, Inside, Away
<1>3. j \notin Queued
  BY JobsAssumption
<1>4. Typed'
  BY <1>1 DEF Typed
<1>5. Whole'
  BY <1>1, <1>2, <1>3 DEF Whole
<1> QED BY <1>4, <1>5

LEMMA WholeCycle == Typed /\ Whole /\ plan_run => Typed' /\ Whole'
<1>1. SUFFICES ASSUME Typed, Whole, plan_run PROVE Typed' /\ Whole'
  OBVIOUS
<1>2. /\ phase = "idle" /\ phase' = "update" /\ update'.next = "ready" /\ cl' \in Clusters
      /\ UNCHANGED <<plan, fixed, kept, start, freed, fslist, backup, moved, fails>>
  BY <1>1, SizesAssumption DEF plan_run, Call, Clusters
<1>3. /\ ~Outside /\ ~Inside /\ ~Outside' /\ ~Inside' /\ Away = {} /\ Away' = {} /\ Planned' = Planned
  BY <1>2 DEF Outside, Inside, Away, Planned
<1>4. Typed'
  BY <1>1, <1>2 DEF Typed
<1>5. Whole'
  BY <1>1, <1>2, <1>3 DEF Whole
<1> QED BY <1>4, <1>5

LEMMA WholeStep == Typed /\ Whole /\ [Next]_vars => Typed' /\ Whole'
<1>1. SUFFICES ASSUME Typed, Whole, [Next]_vars PROVE Typed' /\ Whole'
  OBVIOUS
<1>2. CASE UNCHANGED vars
  <2>1. Typed'
    BY <1>1, <1>2 DEF vars, Typed
  <2>2. /\ (Outside' <=> Outside) /\ (Inside' <=> Inside)
        /\ Planned' = Planned /\ Away' = Away /\ (Covered' <=> Covered)
    BY <1>2 DEF vars, Outside, Inside, Planned, Away, Covered
  <2>3. Whole'
    BY <1>1, <1>2, <2>2 DEF vars, Whole
  <2> QED BY <2>1, <2>3
<1>3. CASE Start
  BY <1>1, <1>3, WholeStart
<1>4. CASE NotEnough \/ TimeUp \/ Restored
  BY <1>1, <1>4, WholeTurn
<1>5. CASE backup_job_order
  BY <1>1, <1>5, WholeBackup
<1>6. CASE TakeOut
  BY <1>1, <1>6, WholeTakeOut
<1>7. CASE Redraw
  BY <1>2, <1>7 DEF Redraw
<1>8. CASE PutBack
  BY <1>1, <1>8, WholePutBack
<1>9. CASE UpdateDone
  BY <1>1, <1>9, WholeUpdateDone
<1>10. CASE UpdateFails
  BY <1>1, <1>10, WholeUpdateFails
<1>11. CASE Evaluate
  BY <1>1, <1>11, WholeEvaluate
<1>12. CASE Accept
  BY <1>1, <1>12, WholeAccept
<1>13. CASE Reject
  BY <1>1, <1>13, WholeReject
<1>14. CASE Crash
  BY <1>1, <1>14, WholeCrash
<1>15. CASE \E j \in Completing : JobCompletes(j)
  BY <1>1, <1>15, WholeJobCompletes
<1>16. CASE MoveToFront
  BY <1>1, <1>16, WholeMoveToFront
<1>17. CASE plan_run
  BY <1>1, <1>17, WholeCycle
<1> QED BY <1>1, <1>2, <1>3, <1>4, <1>5, <1>6, <1>7, <1>8, <1>9, <1>10, <1>11, <1>12, <1>13, <1>14, <1>15,
          <1>16, <1>17 DEF Next

LEMMA WholeAlways == Spec => [](Typed /\ Whole)
BY WholeInit, WholeStep, PTL DEF Spec

\* Whatever moves are tried, and wherever the updates fail, between two moves
\* the lists of the plan hold every queued job that was not freed exactly once,
\* and no job keeps a backup of its nodes.
THEOREM NothingLostAlways == Spec => []NothingLost
<1>1. Typed /\ Whole => NothingLost
  <2>1. SUFFICES ASSUME Typed, Whole, phase \in {"idle", "ready", "head"}
                 PROVE  /\ Queued \ freed = Planned \cap Queued
                        /\ SumFunction([k \in Clusters |-> Len(plan[k])]) = Cardinality(Planned)
                        /\ \A j \in Planned : kept[j] = 0
    BY DEF NothingLost
  <2>2. ~Outside /\ ~Inside /\ Away = {} /\ phase # "crash"
    BY <2>1 DEF Outside, Inside, Away
  <2>3. Planned = JobsOf(plan, Clusters) /\ (\A k \in Clusters : List(plan[k])) /\ Disjoint(plan)
    BY <2>1, PlannedJobs DEF Typed, Lists
  <2>4. PICK f : f = [k \in Clusters |-> Len(plan[k])]
    OBVIOUS
  <2>5. DOMAIN f = Clusters /\ Clusters \in SUBSET Clusters
    BY <2>4
  <2>6. SumFunctionOnSet(f, Clusters) = Cardinality(Planned)
    BY <2>3, <2>4, CountLists
  <2>7. SumFunction(f) = Cardinality(Planned)
    BY <2>5, <2>6 DEF SumFunction
  <2> QED BY <2>1, <2>2, <2>4, <2>7 DEF Whole
<1> QED BY <1>1, WholeAlways, PTL
-----------------------------------------------------------------------------
(***************************************************************************)
(* The invariant behind BackupWorks.                                       *)
(***************************************************************************)
\* The fixed nodes and the start times that a rejected move leads back to.
FormerFixed == IF Outside \/ Inside THEN [fixed EXCEPT ![moved] = kept[moved]] ELSE fixed
FormerStart == Placements(backup, Len(backup), start, FormerFixed).start

Restoring == phase = "update" /\ update.next = "check"

\* At most the first job of the list is one that updates move to the front.
Led(list) == \A x \in 1 .. Len(list) : Prio(list[x]) => x = 1

\* No update of the cluster is under way or due.
Done(k) ==
  /\ phase # "idle"
  /\ phase = "update" => IF update.next = "ready" THEN k < cl ELSE k # cl

\* The marks of an update: the job at the head of the list, if any.
Heads ==
  /\ phase # "update" => marked = {}
  /\ \A j \in marked : j \in ToSet(plan[cl]) /\ Prio(j) /\ plan[cl][1] = j

Backed ==
  /\ freed = {} /\ Heads
  /\ \A j \in Planned \cap Queued : fixed[j] = 0 => j = moved /\ phase = "update" /\ update.next = "evaluate"
  /\ \A k \in Clusters : Done(k) => Settled(plan[k], start, fixed) /\ Led(plan[k])
  /\ phase \in {"head", "draw", "check"} => before = Current
  /\ phase = "decide" => after = Current
  /\ Outside \/ Inside =>
       /\ kept[moved] # 0 /\ before = evaluate_schedule(fslist, Planned \cup Away, FormerStart)
       /\ Led(backup)
  /\ Restoring =>
       /\ backup = plan[cl] /\ before = evaluate_schedule(fslist, Planned, FormerStart)
       /\ Led(backup)

\* The jobs of a cluster, the one that is taken out included.
Members(k) == ToSet(plan[k]) \cup (IF k = cl THEN Away ELSE {})

\* No cluster has two queued priority jobs.
Lone == \A k \in Clusters : \A x, y \in Members(k) : Prio(x) /\ Prio(y) => x = y

\* A cluster keeps its queued jobs while no update fails.
LEMMA MembersStay ==
  ASSUME Typed, Whole, [Next]_vars, ~UpdateFails, NEW k \in Clusters
  PROVE  Members(k) \cap Queued \subseteq Members(k)'
<1>0. cl \in Clusters /\ Lists(plan)
  BY DEF Typed
<1>1. CASE UNCHANGED vars \/ Evaluate
  BY <1>1 DEF vars, Evaluate, Members, Away, Outside
<1>2. CASE Start \/ NotEnough \/ TimeUp \/ Restored \/ backup_job_order \/ Accept \/ Crash \/ plan_run
  <2>1. plan' = plan /\ phase \in {"ready", "head", "check", "decide", "evaluate", "idle"}
    BY <1>2 DEF Start, NotEnough, TimeUp, Restored, backup_job_order, Accept, Crash, plan_run
  <2>2. Away = {}
    BY <2>1 DEF Away, Outside
  <2> QED BY <2>1, <2>2 DEF Members
<1>3. CASE TakeOut
  <2>1. PICK j : Takes(j)
    BY <1>3, TakeOutSteps
  <2>2. Away = {} /\ Away' = {j} /\ cl' = cl
    BY <1>3, <2>1, TakeOutSteps DEF Takes
  <2>3. CASE k = cl
    BY <2>1, <2>2, <2>3 DEF Takes, Members
  <2>4. CASE k # cl
    BY <2>1, <2>2, <2>4 DEF Takes, Members
  <2> QED BY <2>3, <2>4
<1>4. CASE Redraw
  BY <1>1, <1>4 DEF Redraw
<1>5. CASE PutBack
  <2>1. /\ Away = {moved} /\ Away' = {} /\ cl' = cl /\ ToSet(plan'[cl]) = ToSet(plan[cl]) \cup {moved}
        /\ \A l \in Clusters \ {cl} : plan'[l] = plan[l]
    BY <1>5, PutBackSteps
  <2> QED BY <2>1 DEF Members
<1>6. CASE UpdateDone
  <2>1. plan' = plan /\ phase = "update" /\ Return /\ moved' = moved
    BY <1>6 DEF UpdateDone
  <2>2. /\ update' = update
        /\ \/ phase' = "update" /\ update.next = "ready"
           \/ phase' = update.next /\ cl' = cl
    BY <2>1, ReturnSteps
  <2>3. (Outside => Outside' /\ cl' = cl)
    BY <2>1, <2>2 DEF Outside, Typed
  <2>4. Away = {} \/ (Away' = Away /\ cl' = cl)
    BY <2>1, <2>3 DEF Away
  <2> QED BY <2>1, <2>4 DEF Members
<1>7. CASE MoveToFront
  <2>1. ToSet(plan'[cl]) = ToSet(plan[cl]) /\ \A l \in Clusters \ {cl} : plan'[l] = plan[l]
    BY <1>7, FrontSteps
  <2>2. Away' = Away /\ cl' = cl
    BY <1>7 DEF MoveToFront, Away, Outside
  <2> QED BY <2>1, <2>2 DEF Members
<1>8. CASE Reject
  <2>1. /\ Away = {} /\ cl' = cl /\ ToSet(plan'[cl]) = ToSet(plan[cl])
        /\ \A l \in Clusters \ {cl} : plan'[l] = plan[l]
    BY <1>8, RejectSteps
  <2> QED BY <2>1 DEF Members
<1>9. CASE \E j \in Completing : JobCompletes(j)
  <2>1. PICK j \in Completing : JobCompletes(j)
    BY <1>9
  <2>2. ToSet(plan[k]) \ {j} \subseteq ToSet(plan'[k]) /\ phase = "idle"
    BY <2>1, CompletionSteps
  <2>3. Away = {} /\ j \notin Queued
    BY <2>2, JobsAssumption DEF Away, Outside
  <2> QED BY <2>2, <2>3 DEF Members
<1> QED BY <1>1, <1>2, <1>3, <1>4, <1>5, <1>6, <1>7, <1>8, <1>9 DEF Next

LEMMA LoneBefore ==
  ASSUME Typed, Whole, [Next]_vars, ~UpdateFails, Lone'
  PROVE  Lone
<1>1. SUFFICES ASSUME NEW k \in Clusters, NEW x \in Members(k), NEW y \in Members(k), Prio(x), Prio(y)
               PROVE  x = y
  BY DEF Lone
<1>2. x \in Queued /\ y \in Queued
  BY <1>1 DEF Prio
<1>3. x \in Members(k)' /\ y \in Members(k)'
  BY <1>1, <1>2, MembersStay
<1> QED BY <1>1, <1>3 DEF Lone, Prio

LEMMA BackedInit == Init /\ Lone => Backed
<1>1. SUFFICES ASSUME Init, Lone PROVE Backed
  OBVIOUS
<1>2. /\ \A j \in Queued : fixed[j] # 0
      /\ \A k \in Clusters : Settled(plan[k], start, fixed)
  BY <1>1, InitPlacements
<1>3. phase = "ready" /\ freed = {} /\ marked = {}
  BY <1>1 DEF Init
<1>4. ~Outside /\ ~Inside /\ ~Restoring /\ Heads
  BY <1>3 DEF Outside, Inside, Restoring, Heads
<1>5. ASSUME NEW k \in Clusters PROVE Led(plan[k])
  <2>1. SUFFICES ASSUME NEW x \in 1 .. Len(plan[k]), Prio(plan[k][x]), x # 1 PROVE FALSE
    BY DEF Led
  <2>2. List(plan[k])
    BY <1>1, InitLists DEF Init, Lists
  <2>3. DOMAIN plan[k] = 1 .. Len(plan[k]) /\ 1 \in 1 .. Len(plan[k]) /\ 1 < x
    BY <2>1, <2>2 DEF List
  <2>4. \A q, r \in DOMAIN plan[k] : q < r /\ Prio(plan[k][r]) => Prio(plan[k][q])
    BY <1>1, PlansAssumption DEF Init
  <2>5. Prio(plan[k][1])
    BY <2>1, <2>3, <2>4
  <2>6. plan[k][1] \in Members(k) /\ plan[k][x] \in Members(k)
    BY <2>2, <2>3, ToSetElements DEF List, Members
  <2>7. plan[k][1] = plan[k][x]
    BY <1>1, <2>1, <2>5, <2>6 DEF Lone
  <2> QED BY <2>1, <2>2, <2>3, <2>7 DEF List, Distinct
<1> QED BY <1>2, <1>3, <1>4, <1>5 DEF Backed

\* A step that leaves the lists and the placements alone.
LEMMA BackedQuiet ==
  ASSUME Backed, phase \notin {"update", "idle"}, plan' = plan, fixed' = fixed, start' = start, freed' = freed,
         marked' = marked,
         phase' \in {"idle", "head", "draw", "crash"},
         phase' \in {"head", "draw"} => before' = Current'
  PROVE  Backed'
<1>1. Planned' = Planned /\ ~Outside' /\ ~Inside' /\ ~Restoring'
  BY DEF Planned, Outside, Inside, Restoring
<1>2. marked' = {} /\ Heads'
  BY DEF Backed, Heads
<1>3. \A k \in Clusters : Done(k)
  BY DEF Done
<1> QED BY <1>1, <1>2, <1>3 DEF Backed

LEMMA SameEvaluation ==
  ASSUME plan' = plan, start' = start, fslist' = fslist
  PROVE  Current' = Current
<1>1. Planned' = Planned
  BY DEF Planned
<1> QED BY <1>1 DEF Current

LEMMA BackedCalm ==
  ASSUME Typed, Backed, Start \/ NotEnough \/ TimeUp \/ Restored \/ backup_job_order \/ Accept \/ Crash
  PROVE  Backed'
<1>1. CASE Start
  <2>1. Planned' = Planned
    BY <1>1 DEF Start, Planned
  <2>2. before' = Current'
    BY <1>1, <2>1 DEF Start, Current
  <2>3. /\ phase = "ready" /\ phase' = "head"
        /\ plan' = plan /\ fixed' = fixed /\ start' = start /\ freed' = freed /\ marked' = marked
    BY <1>1 DEF Start
  <2> QED BY <2>2, <2>3, BackedQuiet
<1>2. CASE NotEnough \/ TimeUp \/ Restored
  <2>1. phase' \in {"idle", "head"}
    BY <1>2, NextTurnPhase DEF NotEnough, TimeUp, Restored
  <2>2. /\ phase \in {"head", "check"}
        /\ plan' = plan /\ fixed' = fixed /\ start' = start /\ freed' = freed /\ marked' = marked
        /\ fslist' = fslist /\ before' = before
    BY <1>2 DEF NotEnough, TimeUp, Restored
  <2>3. before = Current /\ Current' = Current
    BY <2>2, SameEvaluation DEF Backed
  <2> QED BY <2>1, <2>2, <2>3, BackedQuiet
<1>3. CASE backup_job_order
  <2>1. /\ phase = "head" /\ phase' = "draw"
        /\ plan' = plan /\ fixed' = fixed /\ start' = start /\ freed' = freed /\ marked' = marked
        /\ fslist' = fslist /\ before' = before
    BY <1>3 DEF backup_job_order
  <2>2. before = Current /\ Current' = Current
    BY <2>1, SameEvaluation DEF Backed
  <2> QED BY <2>1, <2>2, BackedQuiet
<1>4. CASE Accept
  <2>1. phase' \in {"idle", "head"}
    BY <1>4, NextTurnPhase DEF Accept
  <2>2. /\ phase = "decide"
        /\ plan' = plan /\ fixed' = fixed /\ start' = start /\ freed' = freed /\ marked' = marked
        /\ fslist' = fslist /\ before' = after
    BY <1>4 DEF Accept
  <2>3. after = Current /\ Current' = Current
    BY <2>2, SameEvaluation DEF Backed
  <2> QED BY <2>1, <2>2, <2>3, BackedQuiet
<1>5. CASE Crash
  <2>1. /\ phase \in {"evaluate", "check", "decide"} /\ phase' = "crash"
        /\ plan' = plan /\ fixed' = fixed /\ start' = start /\ freed' = freed /\ marked' = marked
    BY <1>5 DEF Crash
  <2> QED BY <2>1, BackedQuiet
<1> QED BY <1>1, <1>2, <1>3, <1>4, <1>5

LEMMA BackedEvaluate == Backed /\ Evaluate => Backed'
<1>1. SUFFICES ASSUME Backed, Evaluate PROVE Backed'
  OBVIOUS
<1>2. /\ phase = "evaluate" /\ phase' = "decide" /\ after' = Current
      /\ UNCHANGED <<plan, fixed, kept, start, freed, marked, fslist, update, backup, moved, before, cl>>
  BY <1>1 DEF Evaluate
<1>3. /\ Inside /\ Inside' /\ ~Outside /\ ~Outside' /\ ~Restoring' /\ Planned' = Planned /\ Away' = Away
  BY <1>2 DEF Inside, Outside, Restoring, Planned, Away
<1>4. Current' = Current
  BY <1>2, SameEvaluation
<1>5. FormerFixed' = FormerFixed
  BY <1>2, <1>3 DEF FormerFixed
<1>6. FormerStart' = FormerStart
  BY <1>2, <1>5 DEF FormerStart
<1>7. Heads' /\ \A k \in Clusters : Done(k)
  BY <1>1, <1>2 DEF Backed, Heads, Done
<1> QED BY <1>1, <1>2, <1>3, <1>4, <1>6, <1>7 DEF Backed

\* A list keeps its placements while no queued job of it gets another node or
\* start time.
LEMMA StaysSettled ==
  ASSUME Typed, Typed', NEW k \in Clusters, Settled(plan[k], start, fixed), plan'[k] = plan[k],
         \A j \in ToSet(plan[k]) \ Running : fixed'[j] = fixed[j] /\ start'[j] = start[j]
  PROVE  Settled(plan'[k], start', fixed')
<1>1. PICK list : list = plan[k]
  OBVIOUS
<1>2. list \in Seq(Jobs) /\ Settled(list, start, fixed)
  BY <1>1 DEF Typed, Lists
<1>3. /\ start \in [Jobs -> Int] /\ fixed \in [Jobs -> 0 .. NumNodes]
      /\ start' \in [Jobs -> Int] /\ fixed' \in [Jobs -> 0 .. NumNodes]
  BY DEF Typed
<1>4. \A j \in ToSet(list) \ Running : fixed[j] = fixed'[j] /\ start[j] = start'[j]
  BY <1>1
<1>5. Settled(list, start', fixed')
  BY <1>2, <1>3, <1>4, SettledLocal
<1> QED BY <1>1, <1>5

LEMMA BackedTakeOut ==
  ASSUME Typed, Whole, Backed, TakeOut, Typed', Whole'
  PROVE  Backed'
<1>1. PICK j : Takes(j)
  BY TakeOutSteps
<1>2. /\ j \in Queued /\ j \in ToSet(plan[cl]) /\ moved' = j /\ Planned' = Planned \ {j}
      /\ kept' = IF fixed[j] = 0 THEN kept ELSE [kept EXCEPT ![j] = fixed[j]]
      /\ fixed' = [fixed EXCEPT ![j] = 0]
      /\ \A k \in Clusters \ {cl} : plan'[k] = plan[k]
  BY <1>1 DEF Takes
<1>3. /\ phase = "draw" /\ phase' = "update" /\ update'.next = "put" /\ backup = plan[cl]
      /\ UNCHANGED <<start, freed, fslist, backup, before, cl>>
      /\ ~Outside /\ ~Inside /\ Outside' /\ ~Inside' /\ Away' = {moved'}
  BY TakeOutSteps
<1>4. /\ cl \in Clusters /\ Lists(plan) /\ plan[cl] \in Seq(Jobs) /\ j \in Jobs
      /\ fixed \in [Jobs -> 0 .. NumNodes] /\ kept \in [Jobs -> 0 .. NumNodes] /\ start \in [Jobs -> Int]
  BY <1>2, QueuedOrRunning DEF Typed, Lists
<1>0. /\ \A k \in Clusters : Settled(plan[k], start, fixed) /\ Led(plan[k])
      /\ marked' = {} /\ Heads'
  <2>1. marked' = marked
    BY DEF TakeOut
  <2> QED BY <1>3, <2>1 DEF Backed, Heads, Done
<1>5. j \in Planned
  BY <1>2, <1>4, PlannedJobs
<1>6. fixed[j] # 0 /\ kept'[j] = fixed[j]
  <2>1. fixed[j] # 0
    BY <1>2, <1>3, <1>5 DEF Backed
  <2> QED BY <1>2, <1>4, <2>1
<1>7. ~Restoring'
  BY <1>3 DEF Restoring
<1>8. Planned' \cup Away' = Planned
  BY <1>2, <1>3, <1>5
<1>9. FormerFixed' = fixed
  <2>1. FormerFixed' = [fixed' EXCEPT ![j] = kept'[j]]
    BY <1>2, <1>3 DEF FormerFixed
  <2> QED BY <1>2, <1>4, <1>6, <2>1
<1>10. FormerStart' = start
  <2>1. FormerStart' = Placements(plan[cl], Len(plan[cl]), start, fixed).start
    BY <1>3, <1>9 DEF FormerStart
  <2>2. Settled(plan[cl], start, fixed)
    BY <1>0, <1>4
  <2> QED BY <2>1, <2>2 DEF Settled
<1>11. before' = evaluate_schedule(fslist', Planned' \cup Away', FormerStart')
  <2>1. before = evaluate_schedule(fslist, Planned, start)
    BY <1>3 DEF Backed, Current
  <2> QED BY <1>3, <1>8, <1>10, <2>1
<1>12. ASSUME NEW k \in Clusters, k # cl PROVE Settled(plan'[k], start', fixed') /\ Led(plan'[k])
  <2>1. Settled(plan[k], start, fixed) /\ Led(plan[k]) /\ plan'[k] = plan[k]
    BY <1>0, <1>2, <1>12
  <2>2. j \notin ToSet(plan[k])
    BY <1>2, <1>4, <1>12 DEF Lists, Disjoint
  <2>3. \A e \in ToSet(plan[k]) \ Running : fixed'[e] = fixed[e] /\ start'[e] = start[e]
    BY <1>2, <1>3, <1>4, <2>2
  <2> QED BY <2>1, <2>3, StaysSettled
<1>13. \A e \in Planned' \cap Queued : fixed'[e] # 0
  <2>1. \A e \in Planned' \cap Queued : e \in Planned /\ e # j
    BY <1>2
  <2>2. \A e \in Planned \cap Queued : fixed[e] # 0
    BY <1>3 DEF Backed
  <2>3. \A e \in Jobs : e # j => fixed'[e] = fixed[e]
    BY <1>2, <1>4
  <2> QED BY <2>1, <2>2, <2>3, QueuedOrRunning
<1>14. freed' = {} /\ kept'[moved'] # 0
  BY <1>2, <1>3, <1>6 DEF Backed
<1>15. \A k \in Clusters : Done(k)' => k # cl
  BY <1>3 DEF Done
<1>16. Led(backup')
  BY <1>0, <1>3, <1>4
<1> QED BY <1>0, <1>3, <1>7, <1>11, <1>12, <1>13, <1>14, <1>15, <1>16 DEF Backed

LEMMA BackedPutBack ==
  ASSUME Typed, Whole, Backed, PutBack, Typed'
  PROVE  Backed'
<1>1. /\ phase = "put" /\ phase' = "update" /\ update'.next = "evaluate"
      /\ UNCHANGED <<fixed, kept, start, freed, fslist, backup, moved, before, cl>>
      /\ Outside /\ Away = {moved} /\ ~Outside' /\ Inside' /\ Away' = {}
      /\ Planned' = Planned \cup {moved}
      /\ \A k \in Clusters \ {cl} : plan'[k] = plan[k]
  BY PutBackSteps
<1>2. FormerFixed' = FormerFixed
  BY <1>1 DEF FormerFixed
<1>3. FormerStart' = FormerStart
  BY <1>1, <1>2 DEF FormerStart
<1>4. Planned' \cup Away' = Planned \cup Away /\ ~Restoring'
  BY <1>1 DEF Restoring
<1>5. /\ kept'[moved'] # 0 /\ before' = evaluate_schedule(fslist', Planned' \cup Away', FormerStart')
      /\ Led(backup')
  BY <1>1, <1>3, <1>4 DEF Backed
<1>6. ASSUME NEW k \in Clusters, k # cl PROVE Settled(plan'[k], start', fixed') /\ Led(plan'[k])
  BY <1>1, <1>6 DEF Backed, Done
<1>7. \A j \in Planned' \cap Queued : fixed'[j] = 0 => j = moved'
  BY <1>1 DEF Backed
<1>8. Heads'
  <2>1. marked' = marked
    BY DEF PutBack
  <2> QED BY <1>1, <2>1 DEF Backed, Heads
<1>9. \A k \in Clusters : Done(k)' => k # cl
  BY <1>1 DEF Done
<1> QED BY <1>1, <1>4, <1>5, <1>6, <1>7, <1>8, <1>9 DEF Backed

LEMMA BackedUpdateDone ==
  ASSUME Typed, Whole, Backed, UpdateDone, Typed'
  PROVE  Backed'
<1>1. PICK list : list = plan[cl]
  OBVIOUS
<1>2. PICK r : r = Placements(list, Len(list), start, fixed)
  OBVIOUS
<1>3. /\ phase = "update" /\ start' = r.start /\ fixed' = r.fixed /\ Return /\ InFront
      /\ marked' = marked \ ToSet(list)
      /\ UNCHANGED <<plan, kept, freed, fslist, backup, moved, before>>
  BY <1>1, <1>2 DEF UpdateDone
<1>4. /\ update' = update /\ cl' \in Clusters
      /\ \/ phase' = "update" /\ update.next = "ready" /\ cl' = cl + 1
         \/ phase' = update.next /\ cl' = cl /\ (update.next = "ready" => cl = NumClusters)
      /\ update.next \in {"put", "evaluate", "check", "ready"}
  BY <1>3, ReturnSteps DEF Typed
<1>5. /\ List(list) /\ list \in Seq(Jobs) /\ cl \in Clusters
      /\ start \in [Jobs -> Int] /\ fixed \in [Jobs -> 0 .. NumNodes] /\ kept \in [Jobs -> 0 .. NumNodes]
      /\ start' \in [Jobs -> Int] /\ fixed' \in [Jobs -> 0 .. NumNodes]
      /\ Lists(plan)
  BY <1>1 DEF Typed, Lists
<1>6. Progress(list, start, fixed, r, Len(list))
  <2>1. Len(list) \in 0 .. Len(list)
    BY <1>5
  <2> QED BY <1>2, <1>5, <2>1, UpdateResult
<1>7. /\ \A j \in Jobs : fixed[j] # 0 => fixed'[j] = fixed[j]
      /\ \A j \in Jobs \ (ToSet(list) \ Running) : start'[j] = start[j] /\ fixed'[j] = fixed[j]
  BY <1>3, <1>6 DEF Progress
<1>8. \A j \in ToSet(list) \ Running : fixed'[j] # 0
  <2>1. \A j \in ToSet(list) : \E x \in 1 .. Len(list) : list[x] = j
    BY <1>5, ToSetElements
  <2> QED BY <1>3, <1>6, <2>1 DEF Progress
<1>9. /\ Planned' = Planned /\ Away' = Away /\ (Outside' <=> Outside) /\ (Inside' <=> Inside)
      /\ ~Restoring' /\ phase' \in {"update", "put", "evaluate", "check", "ready"}
  BY <1>3, <1>4 DEF Planned, Away, Outside, Inside, Restoring
<1>16. marked' = {} /\ Heads'
  <2>1. marked \subseteq ToSet(list)
    BY <1>1 DEF Backed, Heads
  <2> QED BY <1>3, <2>1 DEF Heads
<1>17. Led(list)
  <2>1. SUFFICES ASSUME NEW x \in 1 .. Len(list), Prio(list[x]) PROVE x = 1
    BY DEF Led
  <2>2. list[x] \in ToSet(list)
    BY <1>5, ToSetElements
  <2>3. list[x] \in marked
    BY <1>1, <1>3, <2>1, <2>2 DEF InFront, Moves
  <2>4. list[1] = list[x]
    BY <1>1, <2>3 DEF Backed, Heads
  <2>5. 1 \in 1 .. Len(list)
    BY <1>5, <2>1
  <2> QED BY <1>5, <2>4, <2>5 DEF List, Distinct
<1>18. ASSUME NEW k \in Clusters, Done(k)', k # cl PROVE Done(k)
  <2>1. k \in Int /\ cl \in Int /\ NumClusters \in Int /\ k <= NumClusters
    BY <1>5, SizesAssumption DEF Clusters
  <2> QED BY <1>3, <1>4, <1>18, <2>1 DEF Done
<1>10. ASSUME NEW k \in Clusters, Done(k)' PROVE Settled(plan'[k], start', fixed') /\ Led(plan'[k])
  <2>1. CASE k = cl
    <3>1. Settled(list, r.start, r.fixed)
      BY <1>2, <1>5, UpdateSettles
    <3> QED BY <1>1, <1>3, <1>17, <2>1, <3>1
  <2>2. CASE k # cl
    <3>1. Settled(plan[k], start, fixed) /\ Led(plan[k]) /\ plan'[k] = plan[k]
      BY <1>3, <1>10, <1>18, <2>2 DEF Backed
    <3>2. \A j \in ToSet(plan[k]) : j \notin ToSet(list) /\ j \in Jobs
      BY <1>1, <1>5, <2>2, ToSetElements DEF Lists, Disjoint
    <3>3. \A j \in ToSet(plan[k]) \ Running : fixed'[j] = fixed[j] /\ start'[j] = start[j]
      BY <1>7, <3>2
    <3> QED BY <3>1, <3>3, StaysSettled
  <2> QED BY <2>1, <2>2
<1>11. \A j \in Planned \cap Queued : fixed'[j] # 0
  <2>1. ASSUME NEW j \in Planned \cap Queued PROVE fixed'[j] # 0
    <3>1. j \in Jobs /\ j \notin Running
      BY QueuedOrRunning
    <3>2. CASE j \in ToSet(list)
      BY <1>8, <3>1, <3>2
    <3>3. CASE j \notin ToSet(list)
      <4>1. fixed[j] # 0
        <5>1. fixed[j] = 0 => j = moved /\ update.next = "evaluate"
          BY <2>1 DEF Backed
        <5>2. update.next = "evaluate" => Inside /\ ~Outside /\ Covered /\ Away = {}
          BY <1>3 DEF Whole, Inside, Outside, Away
        <5>3. update.next = "evaluate" => moved \in ToSet(list)
          BY <1>1, <5>2 DEF Covered, Backed
        <5> QED BY <3>3, <5>1, <5>3
      <4> QED BY <1>7, <3>1, <4>1
    <3> QED BY <3>2, <3>3
  <2> QED BY <2>1
<1>12. Outside \/ Inside => before' = evaluate_schedule(fslist', Planned' \cup Away', FormerStart')
  <2>1. SUFFICES ASSUME Outside \/ Inside
                 PROVE  before' = evaluate_schedule(fslist', Planned' \cup Away', FormerStart')
    OBVIOUS
  <2>2. Covered /\ freed = {}
    BY <2>1 DEF Whole, Backed
  <2>3. /\ backup \in Seq(Jobs) /\ ToSet(list) \subseteq ToSet(backup)
        /\ moved \in Jobs
    BY <1>1, <2>2, QueuedOrRunning DEF Covered, List
  <2>4. ASSUME NEW j \in Jobs, j # moved PROVE fixed'[j] = fixed[j]
    <3>1. CASE j \in ToSet(list) \ Running
      <4>1. j \in Planned /\ j \in Queued
        BY <1>1, <1>5, <3>1, PlannedJobs, QueuedOrRunning
      <4>2. fixed[j] # 0
        BY <2>4, <4>1 DEF Backed
      <4> QED BY <1>7, <4>2
    <3>2. CASE j \notin ToSet(list) \ Running
      BY <1>7, <3>2
    <3> QED BY <3>1, <3>2
  <2>5. FormerFixed' = FormerFixed
    <3>1. /\ FormerFixed = [fixed EXCEPT ![moved] = kept[moved]]
          /\ FormerFixed' = [fixed' EXCEPT ![moved] = kept[moved]]
      BY <1>3, <1>9, <2>1 DEF FormerFixed
    <3> QED BY <1>5, <2>3, <2>4, <3>1
  <2>6. FormerFixed \in [Jobs -> 0 .. NumNodes]
    BY <1>5, <2>1, <2>3 DEF FormerFixed
  <2>7. FormerStart' = FormerStart
    <3>1. \A j \in Jobs \ (ToSet(backup) \ Running) : start'[j] = start[j]
      BY <1>7, <2>3
    <3>2. PICK f \in [Jobs -> 0 .. NumNodes] : f = FormerFixed
      BY <2>6
    <3>3. Placements(backup, Len(backup), start', f).start = Placements(backup, Len(backup), start, f).start
      BY <1>5, <2>3, <3>1, UpdateForgets
    <3> QED BY <1>3, <2>5, <3>2, <3>3 DEF FormerStart
  <2> QED BY <1>3, <1>9, <2>1, <2>7 DEF Backed
<1>13. phase' = "check" => before' = Current'
  <2>1. SUFFICES ASSUME phase' = "check" PROVE before' = Current'
    OBVIOUS
  <2>2. Restoring /\ ~Outside /\ ~Inside
    BY <1>3, <1>4, <2>1 DEF Restoring, Outside, Inside
  <2>3. backup = list /\ before = evaluate_schedule(fslist, Planned, FormerStart)
    BY <1>1, <2>2 DEF Backed
  <2>4. FormerStart = start'
    BY <1>2, <1>3, <2>2, <2>3 DEF FormerStart, FormerFixed
  <2> QED BY <1>3, <1>9, <2>3, <2>4 DEF Current
<1>14. Outside \/ Inside => kept'[moved'] # 0 /\ Led(backup')
  BY <1>3 DEF Backed
<1>15. freed' = {}
  BY <1>3 DEF Backed
<1> QED BY <1>9, <1>10, <1>11, <1>12, <1>13, <1>14, <1>15, <1>16 DEF Backed

\* The only priority job of a cluster goes to the front; a plan that is being
\* restored has it there already.
LEMMA BackedMoveToFront ==
  ASSUME Typed, Lone, Backed, MoveToFront
  PROVE  Backed'
<1>1. /\ phase = "update"
      /\ UNCHANGED <<fixed, kept, start, freed, fslist, phase, update, backup, moved, before, after, cl>>
  BY DEF MoveToFront
<1>2. /\ Planned' = Planned /\ ToSet(plan'[cl]) = ToSet(plan[cl])
      /\ \A k \in Clusters \ {cl} : plan'[k] = plan[k]
  BY FrontSteps
<1>3. PICK j \in ToSet(plan[cl]) :
        /\ Moves(j) /\ plan'[cl][1] = j /\ marked' = marked \cup {j}
        /\ plan[cl][1] = j => plan'[cl] = plan[cl]
  BY FrontSteps
<1>4. cl \in Clusters /\ plan[cl] \in Seq(Jobs)
  BY DEF Typed, Lists
<1>5. marked = {}
  <2>1. SUFFICES ASSUME NEW e \in marked PROVE FALSE
    OBVIOUS
  <2>2. e \in ToSet(plan[cl]) /\ Prio(e) /\ Prio(j) /\ j # e
    BY <1>3, <2>1 DEF Backed, Heads, Moves
  <2> QED BY <1>3, <1>4, <2>2 DEF Lone, Members
<1>6. Heads'
  BY <1>1, <1>2, <1>3, <1>5 DEF Heads, Moves, Prio
<1>7. /\ (Outside' <=> Outside) /\ (Inside' <=> Inside) /\ Away' = Away /\ (Restoring' <=> Restoring)
  BY <1>1 DEF Outside, Inside, Away, Restoring
<1>8. FormerFixed' = FormerFixed
  BY <1>1, <1>7 DEF FormerFixed
<1>9. FormerStart' = FormerStart
  BY <1>1, <1>8 DEF FormerStart
<1>10. \A k \in Clusters : Done(k)' => Done(k) /\ k # cl
  BY <1>1, <1>4 DEF Done, Clusters
<1>11. Restoring => plan'[cl] = plan[cl]
  <2>1. SUFFICES ASSUME Restoring PROVE plan[cl][1] = j
    BY <1>3
  <2>2. Led(plan[cl])
    BY <2>1 DEF Backed
  <2>3. PICK x \in 1 .. Len(plan[cl]) : plan[cl][x] = j
    BY <1>3, <1>4, ToSetElements
  <2>4. x = 1
    BY <1>3, <2>2, <2>3 DEF Led, Moves
  <2> QED BY <2>3, <2>4
<1>12. \A k \in Clusters : Done(k)' => Settled(plan'[k], start', fixed') /\ Led(plan'[k])
  BY <1>1, <1>2, <1>10 DEF Backed
<1>13. \A e \in Planned' \cap Queued : fixed'[e] = 0 => e = moved' /\ phase' = "update" /\ update'.next = "evaluate"
  BY <1>1, <1>2 DEF Backed
<1>14. Outside' \/ Inside' =>
         /\ kept'[moved'] # 0 /\ before' = evaluate_schedule(fslist', Planned' \cup Away', FormerStart')
         /\ Led(backup')
  BY <1>1, <1>2, <1>7, <1>9 DEF Backed
<1>15. Restoring' =>
         /\ backup' = plan'[cl'] /\ before' = evaluate_schedule(fslist', Planned', FormerStart')
         /\ Led(backup')
  BY <1>1, <1>2, <1>7, <1>9, <1>11 DEF Backed
<1>16. freed' = {}
  BY <1>1 DEF Backed
<1> QED BY <1>1, <1>6, <1>12, <1>13, <1>14, <1>15, <1>16 DEF Backed

LEMMA BackedReject ==
  ASSUME Typed, Whole, Backed, Reject, Typed'
  PROVE  Backed'
<1>1. /\ Inside /\ ~Outside /\ ~Inside' /\ ~Outside' /\ Away = {} /\ Away' = {}
      /\ List(backup) /\ ToSet(backup) = ToSet(plan[cl]) /\ moved \in ToSet(backup)
      /\ Planned' = Planned /\ plan'[cl] = backup
      /\ \A k \in Clusters \ {cl} : plan'[k] = plan[k]
      /\ UNCHANGED <<start, freed, fslist, backup, moved, before, cl>>
      /\ phase' = "update" /\ update'.next = "check"
  BY RejectSteps
<1>2. fixed' = [j \in Jobs |-> IF j \in ToSet(backup) /\ kept[j] # 0 THEN kept[j] ELSE fixed[j]]
  BY DEF Reject, restore_job_order
<1>3. phase = "decide"
  BY DEF Reject
<1>4. /\ fixed \in [Jobs -> 0 .. NumNodes] /\ kept \in [Jobs -> 0 .. NumNodes] /\ cl \in Clusters
      /\ Lists(plan) /\ ToSet(plan[cl]) \subseteq Planned /\ ToSet(backup) \subseteq Jobs /\ moved \in Jobs
  BY <1>1, PlannedJobs, ToSetElements DEF Typed, List
<1>5. kept[moved] # 0 /\ before = evaluate_schedule(fslist, Planned, FormerStart)
  BY <1>1 DEF Backed
<1>6. \A j \in ToSet(backup) : j # moved => kept[j] = 0
  BY <1>1, <1>3, <1>4 DEF Whole
<1>7. fixed' = FormerFixed
  <2>1. FormerFixed = [fixed EXCEPT ![moved] = kept[moved]]
    BY <1>1 DEF FormerFixed
  <2>2. \A j \in Jobs : fixed'[j] = [fixed EXCEPT ![moved] = kept[moved]][j]
    BY <1>1, <1>2, <1>4, <1>5, <1>6
  <2> QED BY <1>2, <1>4, <2>1, <2>2
<1>8. FormerFixed' = FormerFixed
  BY <1>1, <1>7 DEF FormerFixed
<1>9. FormerStart' = FormerStart
  BY <1>1, <1>8 DEF FormerStart
<1>10. ASSUME NEW k \in Clusters, k # cl PROVE Settled(plan'[k], start', fixed') /\ Led(plan'[k])
  <2>1. Settled(plan[k], start, fixed) /\ Led(plan[k]) /\ plan'[k] = plan[k]
    BY <1>1, <1>3, <1>10 DEF Backed, Done
  <2>2. \A j \in ToSet(plan[k]) : j \notin ToSet(backup) /\ j \in Jobs
    BY <1>1, <1>4, <1>10, ToSetElements DEF Lists, Disjoint
  <2>3. \A j \in ToSet(plan[k]) \ Running : fixed'[j] = fixed[j] /\ start'[j] = start[j]
    BY <1>1, <1>2, <2>2
  <2> QED BY <2>1, <2>3, StaysSettled
<1>11. \A j \in Planned \cap Queued : fixed'[j] # 0
  <2>1. \A j \in Planned \cap Queued : fixed[j] # 0
    BY <1>3 DEF Backed
  <2> QED BY <1>2, <2>1, QueuedOrRunning
<1>12. freed' = {}
  BY <1>1 DEF Backed
<1>13. Restoring' =>
         /\ backup' = plan'[cl'] /\ before' = evaluate_schedule(fslist', Planned', FormerStart')
         /\ Led(backup')
  <2>1. Led(backup)
    BY <1>1 DEF Backed
  <2> QED BY <1>1, <1>5, <1>9, <2>1
<1>14. Heads'
  <2>1. marked' = marked
    BY DEF Reject
  <2> QED BY <1>3, <2>1 DEF Backed, Heads
<1>15. \A k \in Clusters : Done(k)' => k # cl
  BY <1>1 DEF Done
<1> QED BY <1>1, <1>10, <1>11, <1>12, <1>13, <1>14, <1>15 DEF Backed

LEMMA BackedIdle ==
  ASSUME Typed, Backed, plan_run \/ \E j \in Completing : JobCompletes(j)
  PROVE  Backed'
<1>1. /\ phase = "idle" /\ Planned' \subseteq Planned /\ fixed' = fixed /\ freed' = freed /\ marked' = {}
      /\ phase' = "idle" \/ (phase' = "update" /\ update'.next = "ready" /\ cl' = 1)
  <2>1. CASE plan_run
    BY <2>1 DEF plan_run, Call, Planned
  <2>2. CASE \E j \in Completing : JobCompletes(j)
    BY <2>2, CompletionSteps DEF Backed, Heads
  <2> QED BY <2>1, <2>2
<1>2. ~Outside' /\ ~Inside' /\ ~Restoring' /\ Heads'
  BY <1>1 DEF Outside, Inside, Restoring, Heads
<1>3. \A k \in Clusters : ~Done(k)'
  BY <1>1 DEF Done, Clusters
<1>4. \A e \in Planned' \cap Queued : fixed'[e] # 0
  BY <1>1 DEF Backed
<1>5. freed' = {}
  BY <1>1 DEF Backed
<1> QED BY <1>1, <1>2, <1>3, <1>4, <1>5 DEF Backed

LEMMA BackedStep ==
  Typed /\ Whole /\ (fails = 0 /\ Lone => Backed) /\ [Next]_vars /\ Typed' /\ Whole'
  => (fails' = 0 /\ Lone' => Backed')
<1>1. SUFFICES ASSUME Typed, Whole, fails = 0 /\ Lone => Backed, [Next]_vars, Typed', Whole', fails' = 0, Lone'
               PROVE  Backed'
  OBVIOUS
<1>2. ~UpdateFails
  BY <1>1 DEF UpdateFails, Typed
<1>3. fails = 0 /\ Lone
  <2>1. fails = 0
    BY <1>1, <1>2 DEF Next, vars, Start, NotEnough, TimeUp, backup_job_order, TakeOut, Redraw, PutBack,
                      MoveToFront, UpdateDone, Evaluate, Accept, Reject, Restored, Crash, plan_run, JobCompletes
  <2> QED BY <1>1, <1>2, <2>1, LoneBefore
<1>4. Backed
  BY <1>1, <1>3
<1>5. CASE UNCHANGED vars
  <2>1. /\ Planned' = Planned /\ Away' = Away /\ (Outside' <=> Outside) /\ (Inside' <=> Inside)
        /\ (Restoring' <=> Restoring) /\ FormerFixed' = FormerFixed
    BY <1>5 DEF vars, Planned, Away, Outside, Inside, Restoring, FormerFixed
  <2>2. Current' = Current /\ FormerStart' = FormerStart
    BY <1>5, <2>1, SameEvaluation DEF vars, FormerStart
  <2>3. UNCHANGED <<plan, fixed, kept, start, freed, fslist, phase, update, backup, moved, before, after, cl>>
    BY <1>5 DEF vars
  <2>4. Heads' /\ \A k \in Clusters : Done(k)' => Done(k)
    BY <1>4, <1>5 DEF vars, Backed, Heads, Done
  <2> QED BY <1>4, <2>1, <2>2, <2>3, <2>4 DEF Backed
<1>6. CASE Start \/ NotEnough \/ TimeUp \/ Restored \/ backup_job_order \/ Accept \/ Crash
  BY <1>1, <1>4, <1>6, BackedCalm
<1>7. CASE TakeOut
  BY <1>1, <1>4, <1>7, BackedTakeOut
<1>8. CASE Redraw
  BY <1>5, <1>8 DEF Redraw
<1>9. CASE PutBack
  BY <1>1, <1>4, <1>9, BackedPutBack
<1>10. CASE UpdateDone
  BY <1>1, <1>4, <1>10, BackedUpdateDone
<1>11. CASE Evaluate
  BY <1>4, <1>11, BackedEvaluate
<1>12. CASE Reject
  BY <1>1, <1>4, <1>12, BackedReject
<1>13. CASE plan_run \/ \E j \in Completing : JobCompletes(j)
  BY <1>1, <1>4, <1>13, BackedIdle
<1>14. CASE MoveToFront
  BY <1>1, <1>3, <1>4, <1>14, BackedMoveToFront
<1> QED BY <1>1, <1>2, <1>5, <1>6, <1>7, <1>8, <1>9, <1>10, <1>11, <1>12, <1>13, <1>14 DEF Next

\* As long as every update succeeds and no cluster has two queued priority
\* jobs, the evaluation that the next move is compared with is the evaluation of
\* the plan at hand: what a rejected move did to the order, the nodes and the
\* start times is undone, although each update moves the priority job.
THEOREM BackupWorksAlways == Spec => []BackupWorks
<1> DEFINE IInv == Typed /\ Whole /\ (fails = 0 /\ Lone => Backed)
<1>1. Init => IInv
  BY WholeInit, BackedInit
<1>2. IInv /\ [Next]_vars => IInv'
  BY WholeStep, BackedStep
<1>3. IInv => BackupWorks
  <2>1. SUFFICES ASSUME IInv, phase = "head", fails = 0,
                        \A k \in Clusters : \A x, y \in ToSet(plan[k]) : Prio(x) /\ Prio(y) => x = y
                 PROVE  before = Current
    BY DEF BackupWorks
  <2>2. Away = {}
    BY <2>1 DEF Away, Outside
  <2>3. Lone
    BY <2>1, <2>2 DEF Lone, Members
  <2> QED BY <2>1, <2>3 DEF Backed
<1> HIDE DEF IInv
<1> QED BY <1>1, <1>2, <1>3, PTL DEF Spec
-----------------------------------------------------------------------------
(***************************************************************************)
(* The evaluation: a weighted sum of relative changes that is positive is  *)
(* a product that falls.                                                   *)
(***************************************************************************)
LEMMA TimesLess ==
  ASSUME NEW x \in Int, NEW y \in Int, NEW c \in Int, c > 0, x < y
  PROVE  x * c < y * c
<1>1. PICK d \in Int : d = y - x /\ d > 0
  OBVIOUS
<1>2. d * c > 0
  BY <1>1
<1>3. d * c = y * c - x * c
  BY <1>1
<1> QED BY <1>2, <1>3

LEMMA TimesAtMost ==
  ASSUME NEW x \in Int, NEW y \in Int, NEW c \in Int, c >= 0, x <= y
  PROVE  x * c <= y * c
<1>1. PICK d \in Int : d = y - x /\ d >= 0
  OBVIOUS
<1>2. d * c >= 0
  BY <1>1
<1>3. d * c = y * c - x * c
  BY <1>1
<1> QED BY <1>2, <1>3

LEMMA CancelLess ==
  ASSUME NEW x \in Int, NEW y \in Int, NEW c \in Int, c > 0, x * c < y * c
  PROVE  x < y
<1>1. ~(y <= x)
  BY TimesAtMost
<1> QED BY <1>1

LEMMA Square ==
  ASSUME NEW x \in Int
  PROVE  x * x \in Int /\ x * x >= 0
<1>1. CASE x >= 0
  BY <1>1
<1>2. CASE x < 0
  <2>1. PICK y \in Int : y = -x /\ y > 0
    BY <1>2
  <2>2. y * y > 0 /\ y * y = x * x
    BY <2>1
  <2> QED BY <2>2
<1> QED BY <1>1, <1>2

Power5(z) == z * z * z * z * z
Power10(z) == Power5(z) * Power5(z)

\* The mean of six positive numbers is at least their geometric mean, for five
\* equal ones.
LEMMA SixMeans ==
  ASSUME NEW a \in Nat, NEW c \in Nat
  PROVE  (6 * c - 5 * a) * Power5(a) <= c * Power5(c)
<1>1. PICK k \in Nat : k = c * c * c * c + 2 * (c * c * c * a) + 3 * (c * c * a * a) + 4 * (c * a * a * a) + 5 * (a * a * a * a)
  <2>1. c * c * c * c \in Nat /\ c * c * c * a \in Nat /\ c * c * a * a \in Nat /\ c * a * a * a \in Nat /\ a * a * a * a \in Nat
    OBVIOUS
  <2> QED BY <2>1
<1>2. PICK d \in Int : d = c - a
  OBVIOUS
<1>3. d * d >= 0 /\ d * d \in Int
  BY Square
<1>4. (d * d) * k >= 0
  BY <1>3
<1>5. (d * d) * k = c * Power5(c) - (6 * c - 5 * a) * Power5(a)
  BY <1>1, <1>2 DEF Power5
<1>6. c * Power5(c) \in Int /\ (6 * c - 5 * a) * Power5(a) \in Int
  BY DEF Power5
<1> QED BY <1>4, <1>5, <1>6

LEMMA Power5Type ==
  ASSUME NEW a \in Nat
  PROVE  Power5(a) \in Nat /\ (a > 0 => Power5(a) > 0) /\ (a = 0 => Power5(a) = 0)
<1>1. a * a \in Nat /\ (a > 0 => a * a > 0)
  OBVIOUS
<1>2. PICK b \in Nat : b = a * a /\ (a > 0 => b > 0)
  BY <1>1
<1>3. PICK d \in Nat : d = b * b /\ (a > 0 => d > 0)
  BY <1>2
<1>4. d * a \in Nat /\ (a > 0 => d * a > 0)
  BY <1>3
<1>5. Power5(a) = d * a
  BY <1>2, <1>3 DEF Power5
<1> QED BY <1>2, <1>3, <1>4, <1>5

\* If p / q + 5 a / c < 6 then p a^5 < q c^5.
LEMMA FiveAndOne ==
  ASSUME NEW p \in Nat, NEW q \in Nat, q > 0, NEW a \in Nat, NEW c \in Nat, c > 0,
         p * c < q * (6 * c - 5 * a)
  PROVE  p * Power5(a) < q * Power5(c)
<1>1. PICK A \in Nat : A = Power5(a) /\ (a > 0 => A > 0) /\ (a = 0 => A = 0)
  BY Power5Type
<1>2. PICK C \in Nat : C = Power5(c) /\ C > 0
  BY Power5Type
<1>3. PICK e \in Int : e = 6 * c - 5 * a
  <2>1. PICK f \in Int : f = 6 * c
    OBVIOUS
  <2>2. PICK g \in Int : g = 5 * a
    OBVIOUS
  <2>3. f - g \in Int
    OBVIOUS
  <2> QED BY <2>1, <2>2, <2>3
<1>4. CASE a = 0
  <2>1. p * A = 0 /\ q * C > 0
    BY <1>1, <1>2, <1>4
  <2> QED BY <1>1, <1>2, <2>1
<1>5. CASE a > 0
  <2>1. PICK pc \in Int : pc = p * c
    OBVIOUS
  <2>2. PICK qe \in Int : qe = q * e
    OBVIOUS
  <2>3. pc * A < qe * A
    <3>1. pc < qe /\ A > 0
      BY <1>1, <1>3, <1>5, <2>1, <2>2
    <3> QED BY <3>1, TimesLess
  <2>4. e * A <= c * C
    BY <1>1, <1>2, <1>3, SixMeans
  <2>5. PICK eA \in Int : eA = e * A
    OBVIOUS
  <2>6. PICK cC \in Int : cC = c * C
    OBVIOUS
  <2>7. eA * q <= cC * q
    BY <2>4, <2>5, <2>6, TimesAtMost
  <2>8. qe * A = eA * q /\ pc * A = (p * A) * c /\ cC * q = (q * C) * c
    BY <2>1, <2>2, <2>5, <2>6
  <2>9. PICK pA \in Int : pA = p * A
    OBVIOUS
  <2>10. PICK qC \in Int : qC = q * C
    OBVIOUS
  <2>11. pA * c < qC * c
    <3>1. pc * A \in Int /\ qe * A \in Int /\ eA * q \in Int /\ cC * q \in Int
      OBVIOUS
    <3> QED BY <2>3, <2>7, <2>8, <2>9, <2>10, <3>1
  <2>12. pA < qC
    BY <2>11, CancelLess
  <2> QED BY <1>1, <1>2, <2>9, <2>10, <2>12
<1> QED BY <1>4, <1>5

\* If x / x0 + y / y0 + 10 z / z0 < 12 then x y z^10 < x0 y0 z0^10.
LEMMA TwelveMeans ==
  ASSUME NEW x \in Nat, NEW y \in Nat, NEW z \in Nat, NEW x0 \in Nat, NEW y0 \in Nat, NEW z0 \in Nat,
         x0 > 0, y0 > 0, z0 > 0,
         (x0 - x) * y0 * z0 + (y0 - y) * x0 * z0 + 10 * ((z0 - z) * x0 * y0) > 0
  PROVE  (x * y) * Power10(z) < (x0 * y0) * Power10(z0)
<1>1. PICK u \in Nat : u = x * y0
  OBVIOUS
<1>2. PICK v \in Nat : v = y * x0
  OBVIOUS
<1>3. PICK w \in Nat : w = x0 * y0 /\ w > 0
  OBVIOUS
<1>4. PICK p \in Nat : p = u + v
  OBVIOUS
<1>5. PICK q \in Nat : q = 2 * w /\ q > 0
  BY <1>3
<1>6. PICK A \in Nat : A = Power5(z)
  BY Power5Type
<1>7. PICK C \in Nat : C = Power5(z0) /\ C > 0
  BY Power5Type
<1>8. p * A < q * C
  <2>1. (x0 - x) * y0 * z0 + (y0 - y) * x0 * z0 + 10 * ((z0 - z) * x0 * y0)
          = q * (6 * z0 - 5 * z) - p * z0
    BY <1>1, <1>2, <1>3, <1>4, <1>5
  <2>2. p * z0 \in Int /\ q * (6 * z0 - 5 * z) \in Int
    OBVIOUS
  <2>3. p * z0 < q * (6 * z0 - 5 * z)
    BY <2>1, <2>2
  <2> QED BY <1>5, <1>6, <1>7, <2>3, FiveAndOne
<1>9. PICK pA \in Nat : pA = p * A
  OBVIOUS
<1>10. PICK qC \in Nat : qC = q * C /\ qC > 0
  BY <1>5, <1>7
<1>11. pA * pA < qC * qC
  <2>1. pA * pA <= qC * pA
    BY <1>8, <1>9, <1>10, TimesAtMost
  <2>2. pA * qC < qC * qC
    BY <1>8, <1>9, <1>10, TimesLess
  <2>3. pA * qC = qC * pA
    OBVIOUS
  <2>4. pA * pA \in Int /\ qC * pA \in Int /\ qC * qC \in Int
    OBVIOUS
  <2> QED BY <2>1, <2>2, <2>3, <2>4
<1>12. PICK AA \in Nat : AA = A * A
  OBVIOUS
<1>13. PICK CC \in Nat : CC = C * C
  OBVIOUS
<1>14. PICK r \in Nat : r = x * y
  OBVIOUS
<1>15. 4 * (u * v) <= p * p
  <2>1. PICK d \in Int : d = u - v
    OBVIOUS
  <2>2. d * d >= 0 /\ d * d \in Int
    BY Square
  <2>3. d * d = p * p - 4 * (u * v)
    BY <1>4, <2>1
  <2>4. p * p \in Int /\ u * v \in Int
    OBVIOUS
  <2> QED BY <2>2, <2>3, <2>4
<1>16. u * v = r * w
  BY <1>1, <1>2, <1>3, <1>14
<1>17. (4 * (r * w)) * AA <= (p * p) * AA
  <2>1. 4 * (r * w) \in Int /\ p * p \in Int /\ AA >= 0 /\ 4 * (r * w) <= p * p
    BY <1>15, <1>16
  <2> QED BY <2>1, TimesAtMost
<1>18. (p * p) * AA = pA * pA /\ qC * qC = (4 * (w * w)) * CC
  BY <1>5, <1>9, <1>10, <1>12, <1>13
<1>19. PICK m \in Nat : m = 4 * w /\ m > 0
  BY <1>3
<1>20. PICK rA \in Nat : rA = r * AA
  OBVIOUS
<1>21. PICK wC \in Nat : wC = w * CC
  OBVIOUS
<1>22. (4 * (r * w)) * AA = rA * m /\ (4 * (w * w)) * CC = wC * m
  BY <1>19, <1>20, <1>21
<1>23. rA * m < wC * m
  <2>1. rA * m \in Int /\ wC * m \in Int /\ pA * pA \in Int
    OBVIOUS
  <2> QED BY <1>11, <1>17, <1>18, <1>22, <2>1
<1>24. rA < wC
  BY <1>19, <1>23, CancelLess
<1> QED BY <1>3, <1>6, <1>7, <1>12, <1>13, <1>14, <1>20, <1>21, <1>24 DEF Power10

\* What an evaluation may hold.
Rated(e) ==
  /\ e.num \in Nat /\ e.slowdown \in Nat /\ e.wait \in Nat /\ e.fairness \in Int
  /\ e.num = 0 => e.wait = 0

LEMMA SumOfFunction ==
  ASSUME NEW S, IsFiniteSet(S), NEW f, DOMAIN f = S, NEW N \in {Nat, Int}, \A x \in S : f[x] \in N
  PROVE  SumFunction(f) \in N
BY SumType DEF SumFunction

LEMMA FairnessType ==
  ASSUME NEW fs, UserData(fs), NEW jobs, jobs \subseteq Jobs, NEW st \in [Jobs -> Int]
  PROVE  fairshare_result_max(fs, jobs, st) \in Int
<1>1. PICK U : U = DOMAIN fs
  OBVIOUS
<1>2. IsFiniteSet(U) /\ \A u \in U : fs[u].wait \in Int /\ fs[u].Fu \in Nat
  BY <1>1 DEF UserData
<1>3. ASSUME NEW u PROVE PlannedFu(u, jobs) \in Nat /\ PlannedWait(u, jobs, st) \in Int
  <2>1. PICK S : S = {j \in jobs : Job[j].user = u}
    OBVIOUS
  <2>2. IsFiniteSet(S) /\ S \subseteq Jobs
    BY <2>1, JobsAssumption, FS_Subset
  <2>3. PICK f : f = [j \in S |-> Job[j].share * Job[j].time]
    OBVIOUS
  <2>4. PICK w : w = [j \in S |-> st[j] - Job[j].qtime]
    OBVIOUS
  <2>5. DOMAIN f = S /\ \A j \in S : f[j] \in Nat
    BY <2>2, <2>3, JobsAssumption
  <2>6. DOMAIN w = S /\ \A j \in S : w[j] \in Int
    BY <2>2, <2>4, JobsAssumption
  <2>7. SumFunction(f) \in Nat /\ SumFunction(w) \in Int
    BY <2>2, <2>5, <2>6, SumOfFunction
  <2> QED BY <2>1, <2>3, <2>4, <2>7 DEF PlannedFu, PlannedWait
<1>4. PICK fu : fu = [u \in U |-> fs[u].Fu + PlannedFu(u, jobs)]
  OBVIOUS
<1>5. \A u \in U : fu[u] \in Nat
  BY <1>2, <1>3, <1>4
<1>6. PICK x : x = [u \in U |-> ((fs[u].wait + PlannedWait(u, jobs, st)) * FuScale) \div fu[u]]
  OBVIOUS
<1>7. PICK mean : mean = SumFunction(x) \div Cardinality(U)
  OBVIOUS
<1>8. PICK sq : sq = [u \in U |-> (FuScale + mean - x[u]) * (FuScale + mean - x[u])]
  OBVIOUS
<1>9. fairshare_result_max(fs, jobs, st) = IF \E u \in U : fu[u] = 0 THEN -1 ELSE SumFunction(sq)
  BY <1>1, <1>4, <1>6, <1>7, <1>8 DEF fairshare_result_max
<1>10. CASE \E u \in U : fu[u] = 0
  BY <1>9, <1>10
<1>11. CASE \A u \in U : fu[u] # 0
  <2>1. ASSUME NEW u \in U PROVE x[u] \in Int
    <3>1. PICK d \in Nat : d = fu[u] /\ d > 0
      BY <1>5, <1>11
    <3>2. PICK n \in Int : n = (fs[u].wait + PlannedWait(u, jobs, st)) * FuScale
      <4>1. fs[u].wait + PlannedWait(u, jobs, st) \in Int
        BY <1>2, <1>3
      <4> QED BY <4>1, SizesAssumption
    <3>3. n \div d \in Int
      BY <3>1
    <3> QED BY <1>6, <3>1, <3>2, <3>3
  <2>2. ASSUME NEW u \in U PROVE sq[u] \in Int
    <3>1. Cardinality(U) \in Nat /\ Cardinality(U) > 0
      BY <1>2, FS_CardinalityType, FS_EmptySet
    <3>2. SumFunction(x) \in Int
      <4>1. DOMAIN x = U
        BY <1>6
      <4> QED BY <1>2, <2>1, <4>1, SumOfFunction
    <3>3. mean \in Int
      BY <1>7, <3>1, <3>2
    <3>4. PICK d \in Int : d = FuScale + mean - x[u]
      BY <2>1, <3>3, SizesAssumption
    <3>5. sq[u] = d * d
      BY <1>8, <3>4
    <3> QED BY <3>5
  <2>3. DOMAIN sq = U
    BY <1>8
  <2>4. SumFunction(sq) \in Int
    BY <1>2, <2>2, <2>3, SumOfFunction
  <2> QED BY <1>9, <1>11, <2>4
<1> QED BY <1>10, <1>11

LEMMA EvaluationType ==
  ASSUME NEW fs, UserData(fs), NEW jobs, jobs \subseteq Jobs, NEW st \in [Jobs -> Int],
         \A j \in Queued : st[j] \in Future
  PROVE  Rated(evaluate_schedule(fs, jobs, st))
<1>1. PICK S : S = jobs \cap Queued
  OBVIOUS
<1>2. IsFiniteSet(S) /\ S \subseteq Jobs
  BY <1>1, JobsAssumption, FS_Subset
<1>3. PICK e : e = evaluate_schedule(fs, jobs, st)
  OBVIOUS
<1>4. PICK f : f = [j \in S |-> job_slowdown_time(j, st)]
  OBVIOUS
<1>5. PICK g : g = [j \in S |-> job_wait_time(j, st)]
  OBVIOUS
<1>6. /\ e.num = Cardinality(S) /\ e.slowdown = SumFunction(f) /\ e.wait = SumFunction(g)
      /\ e.fairness = fairshare_result_max(fs, jobs, st)
  BY <1>1, <1>3, <1>4, <1>5 DEF evaluate_schedule
<1>7. ASSUME NEW j \in S PROVE f[j] \in Nat /\ g[j] \in Nat
  <2>1. PICK t \in Nat : t = st[j] - Job[j].qtime
    <3>1. st[j] \in Int /\ st[j] >= 0 /\ Job[j].qtime \in Int /\ Job[j].qtime <= 0
      BY <1>1, <1>2, JobsAssumption DEF Future, Now
    <3> QED BY <3>1
  <2>2. PICK n \in Nat : n = Job[j].time
    BY <1>2, JobsAssumption
  <2>3. PICK r \in Nat : r = Job[j].root
    BY <1>2, JobsAssumption
  <2>4. g[j] = t * r
    BY <1>5, <2>1, <2>3 DEF job_wait_time
  <2>5. st[j] + Job[j].time - Job[j].qtime = t + n
    <3>1. st[j] \in Int /\ Job[j].qtime \in Int
      BY <1>2, JobsAssumption
    <3> QED BY <2>1, <2>2, <3>1
  <2>6. PICK m \in Nat : m = t + n
    OBVIOUS
  <2>7. CASE n < 1
    <3>1. f[j] = m * TimeScale
      BY <1>4, <2>2, <2>5, <2>6, <2>7 DEF job_slowdown_time
    <3> QED BY <2>4, <3>1, SizesAssumption
  <2>8. CASE ~(n < 1)
    <3>1. PICK q \in Nat : q = TimeScale \div n
      BY <2>8, SizesAssumption
    <3>2. f[j] = m * r * q
      BY <1>4, <2>2, <2>3, <2>5, <2>6, <2>8, <3>1 DEF job_slowdown_time
    <3> QED BY <2>4, <3>2
  <2> QED BY <2>7, <2>8
<1>8. DOMAIN f = S /\ DOMAIN g = S
  BY <1>4, <1>5
<1>9. e.slowdown \in Nat /\ e.wait \in Nat
  BY <1>2, <1>6, <1>7, <1>8, SumOfFunction
<1>10. e.num \in Nat
  BY <1>2, <1>6, FS_CardinalityType
<1>11. e.num = 0 => e.wait = 0
  <2>1. e.num = 0 => S = {}
    BY <1>2, <1>6, FS_EmptySet
  <2>2. S = {} => SumFunctionOnSet(g, S) = 0
    BY <1>2, SumUnfold
  <2> QED BY <1>6, <1>8, <2>1, <2>2 DEF SumFunction
<1>12. e.fairness \in Int
  BY <1>6, FairnessType
<1> QED BY <1>3, <1>9, <1>10, <1>11, <1>12 DEF Rated

\* The averages of slowdown and wait time and the tenth power of the
\* fairness, multiplied: Value over the square of Size.
Value(e) == (e.slowdown * e.wait) * Power10(e.fairness)
Size(e) == IF e.num = 0 THEN 1 ELSE e.num

Worse(b, a) == Value(a) * (b.num * b.num) < Value(b) * (Size(a) * Size(a))

\* A move that is taken makes the product smaller.
LEMMA BetterIsLess ==
  ASSUME NEW b, Rated(b), NEW a, Rated(a), Better(b, a)
  PROVE  b.num > 0 /\ Worse(b, a)
<1>1. PICK n \in Nat : n = Size(a) /\ n > 0
  BY DEF Rated, Size
<1>2. PICK bn \in Nat : bn = b.num
  BY DEF Rated
<1>3. PICK bs \in Nat : bs = b.slowdown
  BY DEF Rated
<1>4. PICK bw \in Nat : bw = b.wait /\ bw > 0
  BY DEF Rated, Better
<1>5. PICK bf \in Nat : bf = b.fairness
  BY DEF Rated, Better
<1>6. PICK s \in Nat : s = a.slowdown
  BY DEF Rated
<1>7. PICK w \in Nat : w = a.wait
  BY DEF Rated
<1>8. PICK f \in Nat : f = a.fairness
  BY DEF Rated, Better
<1>9. bn > 0
  BY <1>2, <1>4 DEF Rated
<1>10. (bs * n - s * bn) * bw * bf + (bw * n - w * bn) * bs * bf + 10 * (bf - f) * bs * bw * n > 0
  <2>1. Weight(b, a) > 0
    BY DEF Better
  <2>2. n = IF a.num = 0 THEN 1 ELSE a.num
    BY <1>1 DEF Size
  <2> QED BY <1>2, <1>3, <1>4, <1>5, <1>6, <1>7, <1>8, <2>1, <2>2 DEF Weight
<1>11. bs > 0
  <2>1. CASE bs = 0
    <3>1. PICK k \in Nat : k = s * bn
      OBVIOUS
    <3>2. PICK l \in Nat : l = bw * bf
      OBVIOUS
    <3>3. (bs * n - s * bn) * bw * bf + (bw * n - w * bn) * bs * bf + 10 * (bf - f) * bs * bw * n
            = -(k * l)
      BY <2>1, <3>1, <3>2
    <3>4. k * l \in Nat
      OBVIOUS
    <3> QED BY <1>10, <3>3, <3>4
  <2> QED BY <2>1
<1>12. bf > 0
  <2>1. CASE bf = 0
    <3>1. PICK k \in Nat : k = bs * bw * n
      OBVIOUS
    <3>2. (bs * n - s * bn) * bw * bf + (bw * n - w * bn) * bs * bf + 10 * (bf - f) * bs * bw * n
            = -(10 * (f * k))
      BY <2>1, <3>1
    <3>3. f * k \in Nat
      OBVIOUS
    <3> QED BY <1>10, <3>2, <3>3
  <2> QED BY <2>1
<1>13. PICK x \in Nat : x = s * bn
  OBVIOUS
<1>14. PICK y \in Nat : y = w * bn
  OBVIOUS
<1>15. PICK x0 \in Nat : x0 = bs * n /\ x0 > 0
  BY <1>1, <1>11
<1>16. PICK y0 \in Nat : y0 = bw * n /\ y0 > 0
  BY <1>1, <1>4
<1>17. (x0 - x) * y0 * bf + (y0 - y) * x0 * bf + 10 * ((bf - f) * x0 * y0) > 0
  <2>1. PICK g \in Int : g = (bs * n - s * bn) * bw * bf + (bw * n - w * bn) * bs * bf + 10 * (bf - f) * bs * bw * n
    OBVIOUS
  <2>2. g * n > 0
    BY <1>1, <1>10, <2>1
  <2>3. g * n = (x0 - x) * y0 * bf + (y0 - y) * x0 * bf + 10 * ((bf - f) * x0 * y0)
    BY <1>13, <1>14, <1>15, <1>16, <2>1
  <2> QED BY <2>2, <2>3
<1>18. (x * y) * Power10(f) < (x0 * y0) * Power10(bf)
  BY <1>12, <1>15, <1>16, <1>17, TwelveMeans
<1>19. PICK F \in Int : F = Power10(f)
  BY DEF Power10, Power5
<1>20. PICK G \in Int : G = Power10(bf)
  BY DEF Power10, Power5
<1>21. (x * y) * F = ((s * w) * F) * (bn * bn)
  BY <1>13, <1>14
<1>22. (x0 * y0) * G = ((bs * bw) * G) * (n * n)
  BY <1>15, <1>16
<1>23. ((s * w) * F) * (bn * bn) < ((bs * bw) * G) * (n * n)
  BY <1>18, <1>19, <1>20, <1>21, <1>22
<1>24. Value(a) = (s * w) * F /\ Value(b) = (bs * bw) * G
  BY <1>3, <1>4, <1>5, <1>6, <1>7, <1>8, <1>19, <1>20 DEF Value
<1> QED BY <1>1, <1>2, <1>9, <1>23, <1>24 DEF Worse

LEMMA ValueType ==
  ASSUME NEW e, Rated(e)
  PROVE  Value(e) \in Int /\ Size(e) \in Nat /\ Size(e) > 0
<1>1. PICK z \in Int : z = e.fairness
  BY DEF Rated
<1>2. PICK p \in Int : p = Power5(z)
  BY DEF Power5
<1>3. PICK q \in Nat : q = e.slowdown * e.wait
  BY DEF Rated
<1>4. q * (p * p) \in Int
  OBVIOUS
<1> QED BY <1>1, <1>2, <1>3, <1>4 DEF Value, Power10, Size, Rated

LEMMA WorseTransitive ==
  ASSUME NEW g, Rated(g), g.num > 0, NEW b, Rated(b), b.num > 0, NEW a, Rated(a), Worse(g, b), Worse(b, a)
  PROVE  Worse(g, a)
<1>1. PICK vg \in Int : vg = Value(g)
  BY ValueType
<1>2. PICK vb \in Int : vb = Value(b)
  BY ValueType
<1>3. PICK va \in Int : va = Value(a)
  BY ValueType
<1>4. PICK G \in Int : G = g.num * g.num /\ G > 0
  BY DEF Rated
<1>5. PICK B \in Int : B = b.num * b.num /\ B > 0
  BY DEF Rated
<1>6. PICK A \in Int : A = Size(a) * Size(a) /\ A > 0
  <2>1. PICK n \in Nat : n = Size(a) /\ n > 0
    BY ValueType
  <2>2. n * n \in Int /\ n * n > 0
    BY <2>1
  <2> QED BY <2>1, <2>2
<1>7. vb * G < vg * B
  BY <1>1, <1>2, <1>4, <1>5 DEF Worse, Size
<1>8. va * B < vb * A
  BY <1>2, <1>3, <1>5, <1>6 DEF Worse
<1>9. (vb * G) * A < (vg * B) * A
  <2>1. vb * G \in Int /\ vg * B \in Int
    OBVIOUS
  <2> QED BY <1>6, <1>7, <2>1, TimesLess
<1>10. (va * B) * G < (vb * A) * G
  <2>1. va * B \in Int /\ vb * A \in Int
    OBVIOUS
  <2> QED BY <1>4, <1>8, <2>1, TimesLess
<1>11. PICK l \in Int : l = va * G
  OBVIOUS
<1>12. PICK r \in Int : r = vg * A
  OBVIOUS
<1>13. (va * B) * G = l * B /\ (vb * A) * G = (vb * G) * A /\ (vg * B) * A = r * B
  BY <1>11, <1>12
<1>14. l * B < r * B
  <2>1. l * B \in Int /\ r * B \in Int /\ (vb * G) * A \in Int
    OBVIOUS
  <2> QED BY <1>9, <1>10, <1>13, <2>1
<1>15. l < r
  BY <1>5, <1>14, CancelLess
<1> QED BY <1>1, <1>3, <1>4, <1>6, <1>11, <1>12, <1>15 DEF Worse

-----------------------------------------------------------------------------
(***************************************************************************)
(* The invariant behind NoReturn.                                          *)
(***************************************************************************)
Falling ==
  /\ Rated(before) /\ Rated(after)
  /\ \A g \in given : Rated(g) /\ g.num > 0 /\ Worse(g, before)

LEMMA NoneRated == Rated(None)
BY DEF Rated, None

LEMMA CurrentRated ==
  ASSUME Typed, NEW fs, UserData(fs)
  PROVE  Rated(evaluate_schedule(fs, Planned, start))
<1>1. Planned \subseteq Jobs /\ start \in [Jobs -> Int] /\ \A j \in Queued : start[j] \in Future
  BY PlannedJobs DEF Typed
<1> QED BY <1>1, EvaluationType

LEMMA FallingStep == Typed /\ Whole /\ Falling /\ [Next]_vars => Falling'
<1>1. SUFFICES ASSUME Typed, Whole, Falling, [Next]_vars PROVE Falling'
  OBVIOUS
<1>2. CASE UNCHANGED <<before, after, given>>
  BY <1>1, <1>2 DEF Falling
<1>3. CASE Start
  <2>1. UserData(fslist')
    <3>1. Planned \subseteq Jobs
      BY <1>1, PlannedJobs DEF Typed
    <3> QED BY <1>1, <1>3, <3>1, UsersAdded DEF Typed, Start
  <2>2. PICK fs : fs = fslist'
    OBVIOUS
  <2>3. Rated(evaluate_schedule(fs, Planned, start))
    BY <1>1, <2>1, <2>2, CurrentRated
  <2>4. before' = evaluate_schedule(fs, Planned, start) /\ given' = {} /\ after' = after
    BY <1>3, <2>2 DEF Start
  <2> QED BY <1>1, <2>3, <2>4 DEF Falling
<1>4. CASE Evaluate
  <2>1. Rated(Current)
    BY <1>1, CurrentRated DEF Current, Typed
  <2>2. after' = Current /\ before' = before /\ given' = given
    BY <1>4 DEF Evaluate
  <2> QED BY <1>1, <2>1, <2>2 DEF Falling
<1>5. CASE Accept
  <2>1. Better(before, after) /\ given' = given \cup {before} /\ before' = after /\ after' = None
    BY <1>5 DEF Accept
  <2>2. Rated(before) /\ Rated(after)
    BY <1>1 DEF Falling
  <2>3. before.num > 0 /\ Worse(before, after)
    BY <2>1, <2>2, BetterIsLess
  <2>4. ASSUME NEW g \in given PROVE Rated(g) /\ g.num > 0 /\ Worse(g, after)
    <3>1. Rated(g) /\ g.num > 0 /\ Worse(g, before)
      BY <1>1, <2>4 DEF Falling
    <3> QED BY <2>2, <2>3, <3>1, WorseTransitive
  <2> QED BY <2>1, <2>2, <2>3, <2>4, NoneRated DEF Falling
<1>6. CASE Reject
  <2>1. after' = None /\ before' = before /\ given' = given
    BY <1>6 DEF Reject
  <2> QED BY <1>1, <2>1, NoneRated DEF Falling
<1>7. CASE NotEnough \/ TimeUp \/ Restored \/ backup_job_order \/ TakeOut \/ Redraw \/ PutBack
  BY <1>2, <1>7 DEF NotEnough, TimeUp, Restored, backup_job_order, TakeOut, Redraw, PutBack, vars
<1>8. CASE MoveToFront \/ UpdateDone \/ UpdateFails \/ Crash \/ plan_run \/ \E j \in Completing : JobCompletes(j)
  BY <1>2, <1>8 DEF MoveToFront, UpdateDone, UpdateFails, Crash, plan_run, JobCompletes
<1>9. CASE UNCHANGED vars
  BY <1>2, <1>9 DEF vars
<1> QED BY <1>1, <1>3, <1>4, <1>5, <1>6, <1>7, <1>8, <1>9 DEF Next

\* The optimization never comes back to an evaluation that it has improved in
\* the same call, whatever the weights of the jobs are: the accepted moves make
\* one product of the three parts of the evaluation fall.
THEOREM NoReturnAlways == Spec => []NoReturn
<1>1. Init => Falling
  BY NoneRated DEF Init, Falling
<1>2. Init => Typed /\ Whole /\ Falling
  BY <1>1, WholeInit
<1>3. Typed /\ Whole /\ Falling /\ [Next]_vars => (Typed /\ Whole /\ Falling)'
  BY WholeStep, FallingStep
<1>4. Falling => NoReturn
  <2>1. SUFFICES ASSUME Falling, before \in given PROVE FALSE
    BY DEF NoReturn
  <2>2. Rated(before) /\ before.num > 0 /\ Worse(before, before)
    BY <2>1 DEF Falling
  <2>3. PICK v \in Int : v = Value(before)
    BY <2>2, ValueType
  <2>4. PICK n \in Int : n = before.num * before.num
    BY <2>2 DEF Rated
  <2>5. v * n < v * n
    BY <2>2, <2>3, <2>4 DEF Worse, Size
  <2>6. v * n \in Int
    OBVIOUS
  <2> QED BY <2>5, <2>6
<1> QED BY <1>2, <1>3, <1>4, PTL DEF Spec
=============================================================================
