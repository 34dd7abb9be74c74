----------------------------- MODULE BaseLemmas -----------------------------
(***************************************************************************)
(* Facts on which the proofs of the components rest: induction, stated for *)
(* sets of naturals and sets of sets instead of predicates, what inserting *)
(* into a sequence and removing from it does, and what a sum over a finite *)
(* set is.                                                                 *)
(***************************************************************************)
EXTENDS Integers, SequencesExt, SequenceTheorems, FiniteSetTheorems, WellFoundedInduction, TLAPS

\* A set of naturals that is not empty has a least element.
LEMMA LeastNatural ==
  ASSUME NEW T, T \subseteq Nat, T # {}
  PROVE  \E m \in T : \A n \in T : m <= n
<1> DEFINE R == OpToRel(<, Nat)
<1>1. IsWellFoundedOn(R, Nat)
  BY NatLessThanWellFounded
<1>2. \A x, y \in Nat : x < y => <<x, y>> \in R
  BY DEF OpToRel
<1> HIDE DEF R
<1>3. PICK m \in T : \A y \in T : ~ (<<y, m>> \in R)
  BY <1>1, WFMin
<1>4. ASSUME NEW n \in T PROVE m <= n
  <2>1. m \in Nat /\ n \in Nat
    OBVIOUS
  <2>2. ~ (n < m)
    BY <1>2, <1>3, <2>1
  <2> QED BY <2>1, <2>2
<1> QED BY <1>4

\* A set with 0 and with the successor of each of its naturals has them all.
LEMMA SetInduction ==
  ASSUME NEW S, 0 \in S, \A n \in Nat : n \in S => n + 1 \in S
  PROVE  \A n \in Nat : n \in S
<1> DEFINE T == Nat \ S
<1>1. SUFFICES ASSUME T # {} PROVE FALSE
  OBVIOUS
<1>2. T \subseteq Nat
  OBVIOUS
<1>3. PICK m \in T : \A n \in T : m <= n
  <2> HIDE DEF T
  <2> QED BY <1>1, <1>2, LeastNatural
<1>4. m - 1 \in Nat
  OBVIOUS
<1>5. m - 1 \in S
  BY <1>3, <1>4
<1> QED BY <1>4, <1>5

\* r is s with e put at place i.
Inserted(r, S, s, i, e) ==
  /\ r \in Seq(S) /\ Len(r) = Len(s) + 1
  /\ \A x \in 1 .. Len(s) + 1 : r[x] = IF x < i THEN s[x] ELSE IF x = i THEN e ELSE s[x - 1]

\* What inserting into a list does to its elements (list_add_infrontof,
\* list_add_begin, list_add_end).
LEMMA InsertAtResult ==
  ASSUME NEW S, NEW s \in Seq(S), NEW i \in 1 .. Len(s) + 1, NEW e \in S
  PROVE  Inserted(InsertAt(s, i, e), S, s, i, e)
<1> DEFINE a == SubSeq(s, 1, i - 1)
           b == SubSeq(s, i, Len(s))
           t == a \o <<e>>
<1>1. a \in Seq(S) /\ Len(a) = i - 1 /\ \A x \in 1 .. i - 1 : a[x] = s[x]
  OBVIOUS
<1>2. b \in Seq(S) /\ Len(b) = Len(s) - i + 1
      /\ \A x \in 1 .. Len(s) - i + 1 : b[x] = s[x + i - 1]
  OBVIOUS
<1>3. <<e>> \in Seq(S) /\ Len(<<e>>) = 1 /\ <<e>>[1] = e
  OBVIOUS
<1>4. InsertAt(s, i, e) = t \o b
  BY DEF InsertAt
<1> HIDE DEF a, b
<1>5. t \in Seq(S) /\ Len(t) = i /\ \A x \in 1 .. i : t[x] = IF x < i THEN s[x] ELSE e
  BY <1>1, <1>3, ConcatProperties
<1> HIDE DEF t
<1>6. t \o b \in Seq(S) /\ Len(t \o b) = Len(s) + 1
      /\ \A x \in 1 .. Len(s) + 1 : (t \o b)[x] = IF x <= i THEN t[x] ELSE b[x - i]
  <2>1. /\ t \o b \in Seq(S) /\ Len(t \o b) = Len(t) + Len(b)
        /\ \A x \in 1 .. Len(t) + Len(b) :
             (t \o b)[x] = IF x <= Len(t) THEN t[x] ELSE b[x - Len(t)]
    BY <1>2, <1>5, ConcatProperties, Zenon
  <2>2. Len(t) + Len(b) = Len(s) + 1 /\ Len(t) = i
    BY <1>2, <1>5
  <2> QED BY <2>1, <2>2, Zenon
<1> HIDE DEF t
<1> QED
  BY <1>2, <1>4, <1>5, <1>6 DEF Inserted

\* The same, spelled out.
LEMMA InsertAtElements ==
  ASSUME NEW S, NEW s \in Seq(S), NEW i \in 1 .. Len(s) + 1, NEW e \in S
  PROVE  /\ InsertAt(s, i, e) \in Seq(S)
         /\ Len(InsertAt(s, i, e)) = Len(s) + 1
         /\ \A x \in 1 .. Len(s) + 1 : InsertAt(s, i, e)[x] =
              IF x < i THEN s[x] ELSE IF x = i THEN e ELSE s[x - 1]
<1>1. PICK r : r = InsertAt(s, i, e)
  OBVIOUS
<1>2. Inserted(r, S, s, i, e)
  BY <1>1, InsertAtResult, Zenon
<1>3. /\ r \in Seq(S) /\ Len(r) = Len(s) + 1
      /\ \A x \in 1 .. Len(s) + 1 : r[x] = IF x < i THEN s[x] ELSE IF x = i THEN e ELSE s[x - 1]
  BY <1>2 DEF Inserted
<1> QED BY <1>1, <1>3, Zenon

\* What list_remove_item does to the elements of a list.
LEMMA RemoveAtElements ==
  ASSUME NEW S, NEW s \in Seq(S), NEW i \in 1 .. Len(s)
  PROVE  /\ RemoveAt(s, i) \in Seq(S)
         /\ Len(RemoveAt(s, i)) = Len(s) - 1
         /\ \A x \in 1 .. Len(s) - 1 : RemoveAt(s, i)[x] =
              IF x < i THEN s[x] ELSE s[x + 1]
<1> DEFINE a == SubSeq(s, 1, i - 1)
           b == SubSeq(s, i + 1, Len(s))
<1>1. a \in Seq(S) /\ Len(a) = i - 1 /\ \A x \in 1 .. i - 1 : a[x] = s[x]
  OBVIOUS
<1>2. b \in Seq(S) /\ Len(b) = Len(s) - i
      /\ \A x \in 1 .. Len(s) - i : b[x] = s[x + i]
  OBVIOUS
<1>3. RemoveAt(s, i) = a \o b
  BY DEF RemoveAt
<1> HIDE DEF a, b
<1>4. a \o b \in Seq(S) /\ Len(a \o b) = Len(s) - 1
      /\ \A x \in 1 .. Len(s) - 1 : (a \o b)[x] = IF x <= i - 1 THEN a[x] ELSE b[x - i + 1]
  <2>1. /\ a \o b \in Seq(S) /\ Len(a \o b) = Len(a) + Len(b)
        /\ \A x \in 1 .. Len(a) + Len(b) :
             (a \o b)[x] = IF x <= Len(a) THEN a[x] ELSE b[x - Len(a)]
    BY <1>1, <1>2, ConcatProperties, Zenon
  <2>2. Len(a) + Len(b) = Len(s) - 1 /\ Len(a) = i - 1
    BY <1>1, <1>2
  <2> QED BY <2>1, <2>2
<1> QED
  BY <1>1, <1>2, <1>3, <1>4

\* The first element of a sequence.
LEMMA InsertIntoEmpty ==
  ASSUME NEW S, NEW e \in S
  PROVE  InsertAt(<<>>, 1, e) = <<e>>
<1>1. SubSeq(<<>>, 1, 1 - 1) = <<>> /\ SubSeq(<<>>, 1, Len(<<>>)) = <<>>
  OBVIOUS
<1>2. <<>> \o <<e>> = <<e>> /\ <<e>> \o <<>> = <<e>>
  OBVIOUS
<1> QED BY <1>1, <1>2 DEF InsertAt

\* Induction over the subsets of a finite set: a set of sets that has every
\* subset whose proper subsets it has has all of them.
LEMMA SubsetInduction ==
  ASSUME NEW T, IsFiniteSet(T), NEW P,
         ASSUME NEW s \in SUBSET T, \A t \in SUBSET s : t # s => t \in P
         PROVE  s \in P
  PROVE  \A s \in SUBSET T : s \in P
<1> DEFINE bad == {s \in SUBSET T : s \notin P}
           sizes == {n \in Nat : \E s \in bad : Cardinality(s) = n}
<1>1. SUFFICES ASSUME bad # {} PROVE FALSE
  OBVIOUS
<1>2. \A s \in bad : IsFiniteSet(s) /\ Cardinality(s) \in Nat
  BY FS_Subset, FS_CardinalityType
<1>3. sizes # {} /\ sizes \subseteq Nat
  BY <1>1, <1>2
<1>4. PICK m \in sizes : \A n \in sizes : m <= n
  <2> HIDE DEF sizes
  <2> QED BY <1>3, LeastNatural
<1>5. PICK s \in bad : Cardinality(s) = m
  OBVIOUS
<1>6. ASSUME NEW t \in SUBSET s, t # s PROVE t \in P
  <2>1. Cardinality(t) < Cardinality(s)
    BY <1>2, <1>6, FS_Subset, FS_CardinalityType
  <2>2. SUFFICES ASSUME t \in bad PROVE FALSE
    OBVIOUS
  <2>3. Cardinality(t) \in sizes
    BY <1>2, <2>2
  <2> QED BY <1>2, <1>4, <1>5, <2>1, <2>2, <2>3
<1> QED BY <1>6

\* A function takes its least value somewhere on a finite set.
LEMMA LeastValue ==
  ASSUME NEW S, IsFiniteSet(S), S # {}, NEW f, \A x \in S : f[x] \in Int
  PROVE  \E x \in S : \A y \in S : f[x] <= f[y]
<1> DEFINE P == {s \in SUBSET S : s = {} \/ \E x \in s : \A y \in s : f[x] <= f[y]}
<1>1. ASSUME NEW s \in SUBSET S, \A t \in SUBSET s : t # s => t \in P
      PROVE  s \in P
  <2>1. CASE s = {}
    BY <2>1
  <2>2. CASE s # {}
    <3>1. PICK e \in s : TRUE
      BY <2>2
    <3>2. s \ {e} \in P
      <4>1. s \ {e} \in SUBSET s /\ s \ {e} # s
        BY <3>1
      <4> HIDE DEF P
      <4> QED BY <4>1, <1>1
    <3>3. CASE s \ {e} = {}
      <4>1. \A y \in s : f[e] <= f[y]
        BY <3>1, <3>3
      <4> QED BY <3>1, <4>1
    <3>4. CASE s \ {e} # {}
      <4>1. PICK x \in s \ {e} : \A y \in s \ {e} : f[x] <= f[y]
        BY <3>2, <3>4
      <4>2. f[x] \in Int /\ f[e] \in Int /\ \A y \in s : f[y] \in Int
        BY <3>1, <4>1
      <4>3. CASE f[x] <= f[e]
        <5>1. \A y \in s : f[x] <= f[y]
          BY <4>1, <4>3
        <5> QED BY <4>1, <5>1
      <4>4. CASE ~(f[x] <= f[e])
        <5>1. \A y \in s : f[e] <= f[y]
          BY <4>1, <4>2, <4>4
        <5> QED BY <3>1, <5>1
      <4> QED BY <4>3, <4>4
    <3> QED BY <3>3, <3>4
  <2> QED BY <2>1, <2>2
<1> HIDE DEF P
<1>2. \A s \in SUBSET S : s \in P
  BY <1>1, SubsetInduction
<1>3. S \in P
  BY <1>2
<1> QED BY <1>3 DEF P

-----------------------------------------------------------------------------
\* Sums: the element that SumFunctionOnSet takes first, and the function that
\* its recursion defines.
Some(s) == CHOOSE x \in s : TRUE

Summing(f, T, g) ==
  g = [s \in SUBSET T |-> IF s = {} THEN 0 ELSE f[Some(s)] + g[s \ {Some(s)}]]

\* That recursion has a solution,
LEMMA SummingExists ==
  ASSUME NEW f, NEW T, IsFiniteSet(T)
  PROVE  \E g : Summing(f, T, g)
<1> DEFINE next(g, s) == IF s = {} THEN 0 ELSE f[Some(s)] + g[s \ {Some(s)}]
           Upto(n, g) == \A s \in SUBSET T : Cardinality(s) <= n => g[s] = next(g, s)
           N == {n \in Nat : \E g : Upto(n, g)}
<1>1. \A s \in SUBSET T : IsFiniteSet(s) /\ Cardinality(s) \in Nat /\ Cardinality(s) <= Cardinality(T)
  BY FS_Subset, FS_CardinalityType
<1>2. \A s \in SUBSET T : s # {} =>
        s \ {Some(s)} \in SUBSET T /\ Cardinality(s \ {Some(s)}) = Cardinality(s) - 1
  BY <1>1, FS_RemoveElement DEF Some
<1>3. 0 \in N
  <2>1. \A s \in SUBSET T : Cardinality(s) <= 0 => s = {}
    BY <1>1, FS_EmptySet
  <2>2. Upto(0, [s \in SUBSET T |-> 0])
    BY <2>1
  <2> HIDE DEF Upto
  <2> QED BY <2>2
<1>4. ASSUME NEW n \in Nat, n \in N PROVE n + 1 \in N
  <2>1. PICK g : Upto(n, g)
    BY <1>4
  <2> DEFINE h == [s \in SUBSET T |-> next(g, s)]
  <2>2. ASSUME NEW s \in SUBSET T, Cardinality(s) <= n + 1 PROVE h[s] = next(h, s)
    <3>1. CASE s = {}
      BY <3>1
    <3>2. CASE s # {}
      <4> DEFINE r == s \ {Some(s)}
      <4>1. r \in SUBSET T /\ Cardinality(r) <= n
        BY <1>1, <1>2, <2>2, <3>2
      <4>2. g[r] = next(g, r) /\ h[r] = next(g, r)
        BY <2>1, <4>1
      <4> QED BY <3>2, <4>2
    <3> QED BY <3>1, <3>2
  <2>3. Upto(n + 1, h)
    BY <2>2
  <2> HIDE DEF Upto, h
  <2> QED BY <2>3
<1> HIDE DEF N
<1>5. \A n \in Nat : n \in N
  BY <1>3, <1>4, SetInduction
<1>6. PICK g : Upto(Cardinality(T), g)
  BY <1>5, FS_CardinalityType DEF N
<1> DEFINE h == [s \in SUBSET T |-> next(g, s)]
<1>7. \A s \in SUBSET T : g[s] = next(g, s)
  BY <1>1, <1>6
<1>8. ASSUME NEW s \in SUBSET T PROVE next(g, s) = next(h, s)
  <2>1. CASE s = {}
    BY <2>1
  <2>2. CASE s # {}
    <3>1. s \ {Some(s)} \in SUBSET T
      BY <1>2, <2>2
    <3>2. h[s \ {Some(s)}] = g[s \ {Some(s)}]
      BY <1>7, <3>1
    <3> QED BY <2>2, <3>2
  <2> QED BY <2>1, <2>2
<1>9. h = [s \in SUBSET T |-> next(h, s)]
  BY <1>8
<1> QED BY <1>9 DEF Summing

\* and only one.
LEMMA SummingUnique ==
  ASSUME NEW f, NEW T, IsFiniteSet(T), NEW R \in SUBSET T,
         NEW g, Summing(f, T, g), NEW h, Summing(f, R, h)
  PROVE  \A s \in SUBSET R : g[s] = h[s]
<1> DEFINE P == {s \in SUBSET R : g[s] = h[s]}
<1>1. ASSUME NEW s \in SUBSET R, \A t \in SUBSET s : t # s => t \in P
      PROVE  s \in P
  <2> DEFINE r == s \ {Some(s)}
  <2>1. s # {} => r \in SUBSET s /\ r # s
    BY DEF Some
  <2>2. s # {} => g[r] = h[r]
    BY <1>1, <2>1
  <2>3. /\ g[s] = IF s = {} THEN 0 ELSE f[Some(s)] + g[r]
        /\ h[s] = IF s = {} THEN 0 ELSE f[Some(s)] + h[r]
    BY DEF Summing
  <2> QED BY <2>2, <2>3
<1>2. IsFiniteSet(R)
  BY FS_Subset
<1> HIDE DEF P
<1>3. \A s \in SUBSET R : s \in P
  BY <1>1, <1>2, SubsetInduction
<1> QED BY <1>3 DEF P

\* A sum takes the chosen element first.
LEMMA SumUnfold ==
  ASSUME NEW f, NEW S, IsFiniteSet(S)
  PROVE  /\ S = {} => SumFunctionOnSet(f, S) = 0
         /\ S # {} => /\ Some(S) \in S
                      /\ SumFunctionOnSet(f, S) =
                           f[Some(S)] + SumFunctionOnSet(f, S \ {Some(S)})
<1> DEFINE it(T) == CHOOSE g : Summing(f, T, g)
           r == S \ {Some(S)}
<1>1. \A T : SumFunctionOnSet(f, T) = it(T)[T]
  BY DEF SumFunctionOnSet, FoldFunctionOnSet, MapThenFoldSet, Some, Summing
<1>2. IsFiniteSet(r)
  BY FS_RemoveElement
<1>3. Summing(f, S, it(S)) /\ Summing(f, r, it(r))
  BY <1>2, SummingExists
<1> HIDE DEF it
<1>4. it(S)[r] = it(r)[r]
  BY <1>3, SummingUnique
<1>5. it(S)[S] = IF S = {} THEN 0 ELSE f[Some(S)] + it(S)[r]
  BY <1>3 DEF Summing
<1>6. S # {} => Some(S) \in S
  BY DEF Some
<1> QED BY <1>1, <1>4, <1>5, <1>6

\* A sum of naturals is a natural, one of integers an integer.
LEMMA SumType ==
  ASSUME NEW f, NEW S, IsFiniteSet(S), NEW N \in {Nat, Int}, \A x \in S : f[x] \in N
  PROVE  SumFunctionOnSet(f, S) \in N
<1> DEFINE P == {s \in SUBSET S : SumFunctionOnSet(f, s) \in N}
<1>1. ASSUME NEW s \in SUBSET S, \A t \in SUBSET s : t # s => t \in P
      PROVE  s \in P
  <2>1. IsFiniteSet(s)
    BY FS_Subset
  <2>2. CASE s = {}
    <3>1. SumFunctionOnSet(f, s) = 0
      BY <2>1, <2>2, SumUnfold
    <3>2. 0 \in N
      OBVIOUS
    <3> QED BY <3>1, <3>2
  <2>3. CASE s # {}
    <3>1. Some(s) \in s /\ SumFunctionOnSet(f, s) = f[Some(s)] + SumFunctionOnSet(f, s \ {Some(s)})
      BY <2>1, <2>3, SumUnfold
    <3>2. SumFunctionOnSet(f, s \ {Some(s)}) \in N /\ f[Some(s)] \in N
      BY <1>1, <3>1
    <3> QED BY <3>1, <3>2
  <2> QED BY <2>2, <2>3
<1> HIDE DEF P
<1>2. S \in P
  BY <1>1, SubsetInduction
<1> QED BY <1>2 DEF P

\* A sum of integers may take any element first.
LEMMA SumTake ==
  ASSUME NEW f, NEW S, IsFiniteSet(S), \A x \in S : f[x] \in Int, NEW e \in S
  PROVE  SumFunctionOnSet(f, S) = f[e] + SumFunctionOnSet(f, S \ {e})
<1> DEFINE sum(s) == SumFunctionOnSet(f, s)
           P == {s \in SUBSET S : \A x \in s : sum(s) = f[x] + sum(s \ {x})}
<1>1. \A s \in SUBSET S : IsFiniteSet(s) /\ sum(s) \in Int
  BY FS_Subset, SumType
<1>2. \A s \in SUBSET S : s # {} => Some(s) \in s /\ sum(s) = f[Some(s)] + sum(s \ {Some(s)})
  BY <1>1, SumUnfold
<1> HIDE DEF sum
<1>3. ASSUME NEW s \in SUBSET S, \A t \in SUBSET s : t # s => t \in P
      PROVE  s \in P
  <2>1. ASSUME NEW x \in s PROVE sum(s) = f[x] + sum(s \ {x})
    <3> DEFINE c == Some(s)
    <3>1. c \in s /\ sum(s) = f[c] + sum(s \ {c})
      BY <1>2
    <3> HIDE DEF c
    <3>2. CASE x = c
      BY <3>1, <3>2
    <3>3. CASE x # c
      <4>1. sum(s \ {c}) = f[x] + sum((s \ {c}) \ {x})
        BY <1>3, <3>1, <3>3
      <4>2. sum(s \ {x}) = f[c] + sum((s \ {x}) \ {c})
        BY <1>3, <3>1, <3>3
      <4>3. (s \ {x}) \ {c} = (s \ {c}) \ {x}
        OBVIOUS
      <4>4. f[x] \in Int /\ f[c] \in Int /\ sum((s \ {c}) \ {x}) \in Int
        BY <1>1, <3>1
      <4> DEFINE rest == sum((s \ {c}) \ {x})
      <4>5. sum(s) = f[c] + (f[x] + rest) /\ sum(s \ {x}) = f[c] + rest
        BY <3>1, <4>1, <4>2, <4>3
      <4>6. rest \in Int
        BY <4>4
      <4> HIDE DEF rest
      <4> QED BY <4>4, <4>5, <4>6
    <3> QED BY <3>2, <3>3
  <2> QED BY <2>1
<1> HIDE DEF P
<1>4. S \in P
  BY <1>3, SubsetInduction
<1> QED BY <1>4 DEF P, sum

\* Sums over the same set of functions that agree on it are equal.
LEMMA SumEqual ==
  ASSUME NEW f, NEW g, NEW S, IsFiniteSet(S), \A x \in S : f[x] = g[x]
  PROVE  SumFunctionOnSet(f, S) = SumFunctionOnSet(g, S)
<1> DEFINE P == {s \in SUBSET S : SumFunctionOnSet(f, s) = SumFunctionOnSet(g, s)}
<1>1. ASSUME NEW s \in SUBSET S, \A t \in SUBSET s : t # s => t \in P
      PROVE  s \in P
  <2>1. IsFiniteSet(s)
    BY FS_Subset
  <2>2. CASE s = {}
    BY <2>1, <2>2, SumUnfold
  <2>3. CASE s # {}
    <3>1. Some(s) \in s /\ SumFunctionOnSet(f, s) = f[Some(s)] + SumFunctionOnSet(f, s \ {Some(s)})
          /\ SumFunctionOnSet(g, s) = g[Some(s)] + SumFunctionOnSet(g, s \ {Some(s)})
      BY <2>1, <2>3, SumUnfold
    <3>2. SumFunctionOnSet(f, s \ {Some(s)}) = SumFunctionOnSet(g, s \ {Some(s)})
      BY <1>1, <3>1
    <3> QED BY <3>1, <3>2
  <2> QED BY <2>2, <2>3
<1> HIDE DEF P
<1>2. S \in P
  BY <1>1, SubsetInduction
<1> QED BY <1>2 DEF P

\* A sum over more naturals is not smaller.
LEMMA SumMonotone ==
  ASSUME NEW f, NEW g, NEW S, IsFiniteSet(S), NEW R \in SUBSET S,
         \A x \in S : g[x] \in Nat, \A x \in R : f[x] \in Nat /\ f[x] <= g[x]
  PROVE  SumFunctionOnSet(f, R) <= SumFunctionOnSet(g, S)
<1> DEFINE P == {s \in SUBSET S : SumFunctionOnSet(f, s \cap R) <= SumFunctionOnSet(g, s)}
<1>1. ASSUME NEW s \in SUBSET S, \A t \in SUBSET s : t # s => t \in P
      PROVE  s \in P
  <2>1. IsFiniteSet(s) /\ IsFiniteSet(s \cap R)
    BY FS_Subset
  <2>2. CASE s = {}
    <3>1. SumFunctionOnSet(f, s \cap R) = 0 /\ SumFunctionOnSet(g, s) = 0
      BY <2>1, <2>2, SumUnfold
    <3> QED BY <3>1
  <2>3. CASE s # {}
    <3>1. PICK x \in s : TRUE
      BY <2>3
    <3> DEFINE t == s \ {x}
    <3>2. SumFunctionOnSet(f, t \cap R) <= SumFunctionOnSet(g, t)
      BY <1>1, <3>1
    <3>3. SumFunctionOnSet(g, s) = g[x] + SumFunctionOnSet(g, t)
      BY <2>1, SumTake
    <3>4. IsFiniteSet(t) /\ IsFiniteSet(t \cap R)
      BY <2>1, FS_Subset
    <3>5. SumFunctionOnSet(g, t) \in Nat /\ SumFunctionOnSet(f, t \cap R) \in Nat
      BY <3>4, SumType
    <3>6. CASE x \in R
      <4>1. (s \cap R) \ {x} = t \cap R /\ x \in s \cap R
        BY <3>6
      <4>2. SumFunctionOnSet(f, s \cap R) = f[x] + SumFunctionOnSet(f, t \cap R)
        BY <2>1, <4>1, SumTake
      <4>3. f[x] \in Nat /\ g[x] \in Nat /\ f[x] <= g[x]
        BY <3>6
      <4> QED BY <3>2, <3>3, <3>5, <4>2, <4>3
    <3>7. CASE x \notin R
      <4>1. s \cap R = t \cap R
        BY <3>7
      <4>2. g[x] \in Nat
        OBVIOUS
      <4>3. SumFunctionOnSet(f, s \cap R) = SumFunctionOnSet(f, t \cap R)
        BY <4>1
      <4> HIDE DEF t
      <4>4. SumFunctionOnSet(f, s \cap R) <= SumFunctionOnSet(g, s)
        BY <3>2, <3>3, <3>5, <4>2, <4>3
      <4> QED BY <4>4
    <3> QED BY <3>6, <3>7
  <2> QED BY <2>2, <2>3
<1> HIDE DEF P
<1>2. S \in P
  <2>1. \A s \in SUBSET S : s \in P
    BY <1>1, SubsetInduction
  <2> QED BY <2>1
<1>3. S \cap R = R
  OBVIOUS
<1> QED BY <1>2, <1>3 DEF P

\* One more element adds its value.
LEMMA SumAdd ==
  ASSUME NEW f, NEW S, IsFiniteSet(S), NEW e, e \notin S, f[e] \in Int, \A x \in S : f[x] \in Int
  PROVE  SumFunctionOnSet(f, S \union {e}) = f[e] + SumFunctionOnSet(f, S)
<1>0. PICK T : T = S \union {e}
  OBVIOUS
<1>1. IsFiniteSet(T) /\ e \in T /\ T \ {e} = S
  BY <1>0, FS_AddElement
<1>2. \A x \in T : f[x] \in Int
  BY <1>0
<1>3. SumFunctionOnSet(f, T) = f[e] + SumFunctionOnSet(f, T \ {e})
  BY <1>1, <1>2, SumTake
<1> QED BY <1>0, <1>1, <1>3

\* A sum of ones counts.
LEMMA SumOfOnes ==
  ASSUME NEW f, NEW S, IsFiniteSet(S), \A x \in S : f[x] = 1
  PROVE  SumFunctionOnSet(f, S) = Cardinality(S)
<1> DEFINE P == {s \in SUBSET S : SumFunctionOnSet(f, s) = Cardinality(s)}
<1>1. ASSUME NEW s \in SUBSET S, \A t \in SUBSET s : t # s => t \in P
      PROVE  s \in P
  <2>1. IsFiniteSet(s)
    BY FS_Subset
  <2>2. CASE s = {}
    BY <2>1, <2>2, SumUnfold, FS_EmptySet
  <2>3. CASE s # {}
    <3>1. Some(s) \in s /\ SumFunctionOnSet(f, s) = f[Some(s)] + SumFunctionOnSet(f, s \ {Some(s)})
      BY <2>1, <2>3, SumUnfold
    <3>2. s \ {Some(s)} \in P
      BY <1>1, <3>1
    <3>3. Cardinality(s \ {Some(s)}) = Cardinality(s) - 1 /\ Cardinality(s) \in Nat
      BY <2>1, <3>1, FS_RemoveElement, FS_CardinalityType
    <3> QED BY <3>1, <3>2, <3>3
  <2> QED BY <2>2, <2>3
<1> HIDE DEF P
<1>2. S \in P
  BY <1>1, SubsetInduction
<1> QED BY <1>2 DEF P
=============================================================================
