--------------------------- MODULE PlanList_proofs ---------------------------
(***************************************************************************)
(* Proofs about plan_list_operations.cpp: after any series of operations   *)
(* the pointers describe one sequence (WellLinked), and the operations     *)
(* implement the abstract list (ImplementsList).                           *)
(***************************************************************************)
EXTENDS PlanList, BaseLemmas

\* The item to which one step along the links leads.
Follow(links, p) == IF p = NULL THEN NULL ELSE links[p]

\* No step stays at the item, one more step follows one more link.
LEMMA StepsUnfold ==
  ASSUME NEW links, NEW i
  PROVE  /\ Steps(links, i, 0) = i
         /\ \A n \in Nat : Steps(links, i, n + 1) = Follow(links, Steps(links, i, n))
<1> DEFINE Walk(n, g) == g = [k \in 0 .. n |-> IF k = 0 THEN i ELSE Follow(links, g[k - 1])]
           S == {n \in Nat : \E g : Walk(n, g)}
           at(n) == CHOOSE g : Walk(n, g)
<1>1. \A n \in Nat : \E g : Walk(n, g)
  <2>1. 0 \in S
    <3>1. Walk(0, [k \in 0 .. 0 |-> i])
      OBVIOUS
    <3> QED BY <3>1
  <2>2. ASSUME NEW n \in Nat, n \in S PROVE n + 1 \in S
    <3>1. PICK g : Walk(n, g)
      BY <2>2
    <3> DEFINE h == [k \in 0 .. n + 1 |-> IF k = n + 1 THEN Follow(links, g[n]) ELSE g[k]]
    <3>2. ASSUME NEW k \in 0 .. n + 1
          PROVE  h[k] = IF k = 0 THEN i ELSE Follow(links, h[k - 1])
      <4>1. CASE k = n + 1
        BY <4>1
      <4>2. CASE k # n + 1
        <5>1. k \in 0 .. n
          BY <4>2
        <5> HIDE DEF Walk
        <5>2. g[k] = IF k = 0 THEN i ELSE Follow(links, g[k - 1])
          BY <3>1, <5>1 DEF Walk
        <5> QED BY <5>1, <5>2, <4>2
      <4> QED BY <4>1, <4>2
    <3>3. Walk(n + 1, h)
      BY <3>2
    <3> HIDE DEF Walk, h
    <3> QED BY <3>3
  <2> HIDE DEF S
  <2>3. \A n \in Nat : n \in S
    BY <2>1, <2>2, SetInduction
  <2> QED BY <2>3 DEF S
<1>2. ASSUME NEW n \in Nat PROVE Walk(n, at(n))
  BY <1>1
<1>3. \A n \in Nat : Steps(links, i, n) = at(n)[n]
  BY DEF Steps, Follow
<1>4. \A n \in Nat : \A k \in 0 .. n :
        at(n)[k] = IF k = 0 THEN i ELSE Follow(links, at(n)[k - 1])
  <2>1. TAKE n \in Nat
  <2>2. TAKE k \in 0 .. n
  <2>3. PICK g : g = at(n)
    OBVIOUS
  <2> HIDE DEF at, Walk
  <2>4. Walk(n, g)
    BY <1>2, <2>3, Zenon
  <2>5. g[k] = IF k = 0 THEN i ELSE Follow(links, g[k - 1])
    BY ONLY <2>4, k \in 0 .. n, SMTT(30) DEF Walk
  <2> QED BY <2>3, <2>5
<1> HIDE DEF at, Walk
<1>5. ASSUME NEW n \in Nat PROVE at(n + 1)[n] = at(n)[n]
  <2> DEFINE T == {k \in Nat : k <= n => at(n + 1)[k] = at(n)[k]}
  <2>1. 0 \in T
    BY <1>4
  <2>2. ASSUME NEW k \in Nat, k \in T PROVE k + 1 \in T
    <3>1. SUFFICES ASSUME k + 1 <= n PROVE at(n + 1)[k + 1] = at(n)[k + 1]
      OBVIOUS
    <3>2. at(n + 1)[k] = at(n)[k]
      BY <2>2, <3>1
    <3>3. k + 1 \in 0 .. n /\ k + 1 \in 0 .. n + 1 /\ k + 1 # 0 /\ (k + 1) - 1 = k
      BY <3>1
    <3> QED BY <1>4, <3>2, <3>3
  <2> HIDE DEF T
  <2>3. \A k \in Nat : k \in T
    BY <2>1, <2>2, SetInduction
  <2> QED BY <2>3 DEF T
<1>6. ASSUME NEW n \in Nat PROVE at(n + 1)[n + 1] = Follow(links, at(n + 1)[n])
  <2>1. n + 1 \in Nat /\ n + 1 \in 0 .. n + 1 /\ n + 1 # 0 /\ (n + 1) - 1 = n
    OBVIOUS
  <2> QED BY <1>4, <2>1
<1>7. at(0)[0] = i
  BY <1>4
<1>8. \A n \in Nat : n + 1 \in Nat
  OBVIOUS
<1> QED BY <1>3, <1>5, <1>6, <1>7, <1>8
-----------------------------------------------------------------------------
(***************************************************************************)
(* The operations on a list that represents a sequence.                    *)
(***************************************************************************)

ListType ==
  [succ : [Items -> Pointer], pred : [Items -> Pointer], first : Pointer,
   last : Pointer, current : Pointer, num_items : Nat]

\* The part of Represents that is about the pointers of a list.
Linked(l, s) ==
  /\ l \in ListType /\ s \in Seq(Items)
  /\ \A x, y \in DOMAIN s : s[x] = s[y] => x = y
  /\ l.num_items = Len(s)
  /\ l.first = IF s = <<>> THEN NULL ELSE s[1]
  /\ l.last = IF s = <<>> THEN NULL ELSE s[Len(s)]
  /\ \A x \in DOMAIN s :
       /\ l.pred[s[x]] = IF x = 1 THEN NULL ELSE s[x - 1]
       /\ l.succ[s[x]] = IF x = Len(s) THEN NULL ELSE s[x + 1]

\* Item i does not occur in sequence s.
Absent(i, s) == \A x \in DOMAIN s : s[x] # i

\* The items outside sequence s, other than i, keep the links they had.
SameOutside(l, r, s, i) ==
  \A k \in Items : k # i /\ Absent(k, s) => r.succ[k] = l.succ[k] /\ r.pred[k] = l.pred[k]

\* One more item, which is the current one.
LEMMA CountedFields ==
  ASSUME NEW l \in ListType, NEW new \in Pointer
  PROVE  LET r == Counted(l, new)
         IN /\ r \in ListType /\ r.succ = l.succ /\ r.pred = l.pred /\ r.first = l.first
            /\ r.last = l.last /\ r.current = new /\ r.num_items = l.num_items + 1
<1>1. Counted(l, new) \in ListType
  <2> DEFINE n == l.num_items + 1
             m == [l EXCEPT !.num_items = n]
  <2>1. n \in Nat
    BY DEF ListType
  <2>2. Counted(l, new) = [m EXCEPT !.current = new]
    BY DEF Counted, ListType
  <2> HIDE DEF n
  <2>3. m \in ListType
    BY <2>1 DEF ListType
  <2> HIDE DEF m
  <2>4. [m EXCEPT !.current = new] \in ListType
    BY <2>3 DEF ListType
  <2> QED BY <2>2, <2>4
<1>2. LET r == Counted(l, new)
      IN /\ r.succ = l.succ /\ r.pred = l.pred /\ r.first = l.first
         /\ r.last = l.last /\ r.current = new /\ r.num_items = l.num_items + 1
  BY DEF Counted, ListType
<1> QED BY <1>1, <1>2

\* The fields of the list after list_add_infrontof.
LEMMA LinkInFrontFields ==
  ASSUME NEW l \in ListType, NEW next \in Items, NEW new \in Items, new # next, l.pred[next] # new
  PROVE  LET r == LinkInFront(l, next, new)
         IN /\ r \in ListType
            /\ r.num_items = l.num_items + 1 /\ r.current = new
            /\ r.first = IF l.pred[next] = NULL THEN new ELSE l.first
            /\ r.last = l.last
            /\ \A i \in Items :
                 /\ r.succ[i] = IF i = new THEN next ELSE IF i = l.pred[next] THEN new ELSE l.succ[i]
                 /\ r.pred[i] = IF i = next THEN new ELSE IF i = new THEN l.pred[next] ELSE l.pred[i]
<1> DEFINE before == l.pred[next]
           l1 == IF before # NULL THEN set_successor(l, before, new) ELSE [l EXCEPT !.first = new]
           l2 == set_successor(l1, new, next)
           l3 == set_predeccessor(l2, new, before)
           l4 == set_predeccessor(l3, next, new)
           r == Counted(l4, new)
<1> USE NullAssumption DEF Pointer
<1>1. before \in Pointer /\ l.succ \in [Items -> Pointer] /\ l.pred \in [Items -> Pointer]
  BY DEF ListType
<1>2. r = LinkInFront(l, next, new)
  BY DEF LinkInFront, get_predeccessor
<1>3. l.pred[next] = before
  OBVIOUS
<1> HIDE DEF before
<1>4. /\ l1 \in ListType
      /\ l1.succ = IF before # NULL THEN [l.succ EXCEPT ![before] = new] ELSE l.succ
      /\ l1.pred = l.pred /\ l1.first = (IF before = NULL THEN new ELSE l.first)
      /\ l1.last = l.last /\ l1.num_items = l.num_items
  <2>1. CASE before # NULL
    BY <1>1, <2>1 DEF set_successor, ListType
  <2>2. CASE before = NULL
    BY <1>1, <2>2 DEF ListType
  <2> QED BY <2>1, <2>2
<1> HIDE DEF l1
<1>5. /\ l2 \in ListType /\ l2.succ = [l1.succ EXCEPT ![new] = next] /\ l2.pred = l1.pred
      /\ l2.first = l1.first /\ l2.last = l1.last /\ l2.num_items = l1.num_items
  BY <1>1, <1>4 DEF set_successor, ListType
<1> HIDE DEF l2
<1>6. /\ l3 \in ListType /\ l3.pred = [l2.pred EXCEPT ![new] = before] /\ l3.succ = l2.succ
      /\ l3.first = l2.first /\ l3.last = l2.last /\ l3.num_items = l2.num_items
  BY <1>1, <1>5 DEF set_predeccessor, ListType
<1> HIDE DEF l3
<1>7. /\ l4 \in ListType /\ l4.pred = [l3.pred EXCEPT ![next] = new] /\ l4.succ = l3.succ
      /\ l4.first = l3.first /\ l4.last = l3.last /\ l4.num_items = l3.num_items
  BY <1>1, <1>6 DEF set_predeccessor, ListType
<1> HIDE DEF l4
<1>8. /\ r \in ListType /\ r.succ = l4.succ /\ r.pred = l4.pred /\ r.first = l4.first
      /\ r.last = l4.last /\ r.current = new /\ r.num_items = l4.num_items + 1
  BY <1>1, <1>7, CountedFields
<1> HIDE DEF r
<1>9. /\ r.first = (IF before = NULL THEN new ELSE l.first) /\ r.last = l.last
      /\ r.num_items = l.num_items + 1
  BY <1>4, <1>5, <1>6, <1>7, <1>8
<1>10. r.succ = [(IF before # NULL THEN [l.succ EXCEPT ![before] = new] ELSE l.succ) EXCEPT ![new] = next]
  BY <1>4, <1>5, <1>6, <1>7, <1>8
<1>11. r.pred = [[l.pred EXCEPT ![new] = before] EXCEPT ![next] = new]
  BY <1>4, <1>5, <1>6, <1>7, <1>8
<1>12. \A i \in Items :
         /\ r.succ[i] = IF i = new THEN next ELSE IF i = before THEN new ELSE l.succ[i]
         /\ r.pred[i] = IF i = next THEN new ELSE IF i = new THEN before ELSE l.pred[i]
  BY <1>1, <1>3, <1>10, <1>11
<1> QED
  BY <1>2, <1>3, <1>8, <1>9, <1>12

\* The fields of the list after list_add_inbackof.
LEMMA LinkInBackFields ==
  ASSUME NEW l \in ListType, NEW previous \in Items, NEW new \in Items, new # previous, l.succ[previous] # new
  PROVE  LET r == LinkInBack(l, previous, new)
         IN /\ r \in ListType
            /\ r.num_items = l.num_items + 1 /\ r.current = new
            /\ r.last = IF l.succ[previous] = NULL THEN new ELSE l.last
            /\ r.first = l.first
            /\ \A i \in Items :
                 /\ r.pred[i] = IF i = new THEN previous ELSE IF i = l.succ[previous] THEN new ELSE l.pred[i]
                 /\ r.succ[i] = IF i = previous THEN new ELSE IF i = new THEN l.succ[previous] ELSE l.succ[i]
<1> DEFINE behind == l.succ[previous]
           l1 == IF behind # NULL THEN set_predeccessor(l, behind, new) ELSE [l EXCEPT !.last = new]
           l2 == set_successor(l1, new, behind)
           l3 == set_predeccessor(l2, new, previous)
           l4 == set_successor(l3, previous, new)
           r == Counted(l4, new)
<1> USE NullAssumption DEF Pointer
<1>1. behind \in Pointer /\ l.pred \in [Items -> Pointer] /\ l.succ \in [Items -> Pointer]
  BY DEF ListType
<1>2. r = LinkInBack(l, previous, new)
  BY DEF LinkInBack, get_successor
<1>3. l.succ[previous] = behind
  OBVIOUS
<1> HIDE DEF behind
<1>4. /\ l1 \in ListType
      /\ l1.pred = IF behind # NULL THEN [l.pred EXCEPT ![behind] = new] ELSE l.pred
      /\ l1.succ = l.succ /\ l1.last = (IF behind = NULL THEN new ELSE l.last)
      /\ l1.first = l.first /\ l1.num_items = l.num_items
  <2>1. CASE behind # NULL
    BY <1>1, <2>1 DEF set_predeccessor, ListType
  <2>2. CASE behind = NULL
    BY <1>1, <2>2 DEF ListType
  <2> QED BY <2>1, <2>2
<1> HIDE DEF l1
<1>5. /\ l2 \in ListType /\ l2.succ = [l1.succ EXCEPT ![new] = behind] /\ l2.pred = l1.pred
      /\ l2.last = l1.last /\ l2.first = l1.first /\ l2.num_items = l1.num_items
  BY <1>1, <1>4 DEF set_successor, ListType
<1> HIDE DEF l2
<1>6. /\ l3 \in ListType /\ l3.pred = [l2.pred EXCEPT ![new] = previous] /\ l3.succ = l2.succ
      /\ l3.last = l2.last /\ l3.first = l2.first /\ l3.num_items = l2.num_items
  BY <1>1, <1>5 DEF set_predeccessor, ListType
<1> HIDE DEF l3
<1>7. /\ l4 \in ListType /\ l4.succ = [l3.succ EXCEPT ![previous] = new] /\ l4.pred = l3.pred
      /\ l4.last = l3.last /\ l4.first = l3.first /\ l4.num_items = l3.num_items
  BY <1>1, <1>6 DEF set_successor, ListType
<1> HIDE DEF l4
<1>8. /\ r \in ListType /\ r.pred = l4.pred /\ r.succ = l4.succ /\ r.last = l4.last
      /\ r.first = l4.first /\ r.current = new /\ r.num_items = l4.num_items + 1
  BY <1>1, <1>7, CountedFields
<1> HIDE DEF r
<1>9. /\ r.last = (IF behind = NULL THEN new ELSE l.last) /\ r.first = l.first
      /\ r.num_items = l.num_items + 1
  BY <1>4, <1>5, <1>6, <1>7, <1>8
<1>10. r.pred = [(IF behind # NULL THEN [l.pred EXCEPT ![behind] = new] ELSE l.pred) EXCEPT ![new] = previous]
  BY <1>4, <1>5, <1>6, <1>7, <1>8
<1>11. r.succ = [[l.succ EXCEPT ![new] = behind] EXCEPT ![previous] = new]
  BY <1>4, <1>5, <1>6, <1>7, <1>8
<1>12. \A i \in Items :
         /\ r.pred[i] = IF i = new THEN previous ELSE IF i = behind THEN new ELSE l.pred[i]
         /\ r.succ[i] = IF i = previous THEN new ELSE IF i = new THEN behind ELSE l.succ[i]
  BY <1>1, <1>3, <1>10, <1>11
<1> QED
  BY <1>2, <1>3, <1>8, <1>9, <1>12

\* The fields of the list after list_remove_item.
LEMMA RemoveFields ==
  ASSUME NEW l \in ListType, l.num_items > 0, NEW i \in Items, l.pred[i] # i, l.succ[i] # i,
         NEW set_free \in BOOLEAN
  PROVE  LET r == list_remove_item(l, i, set_free)
         IN /\ r \in ListType
            /\ r.num_items = l.num_items - 1 /\ r.current = NULL
            /\ r.first = IF l.pred[i] = NULL THEN l.succ[i] ELSE l.first
            /\ r.last = IF l.succ[i] = NULL THEN l.pred[i] ELSE l.last
            /\ \A k \in Items :
                 /\ r.succ[k] = IF k = l.pred[i] THEN l.succ[i]
                                ELSE IF k = i /\ ~set_free THEN NULL ELSE l.succ[k]
                 /\ r.pred[k] = IF k = l.succ[i] THEN l.pred[i]
                                ELSE IF k = i /\ ~set_free THEN NULL ELSE l.pred[k]
<1> DEFINE before == l.pred[i]
           behind == l.succ[i]
           n == l.num_items - 1
           l1 == IF before # NULL THEN set_successor(l, before, behind)
                 ELSE [set_predeccessor(l, behind, NULL) EXCEPT !.first = behind]
           l2 == IF behind # NULL THEN set_predeccessor(l1, behind, before)
                 ELSE [set_successor(l1, before, NULL) EXCEPT !.last = before]
           l3 == [l2 EXCEPT !.num_items = n]
           l4 == [l3 EXCEPT !.current = NULL]
           l5 == set_successor(l4, i, NULL)
           l6 == set_predeccessor(l5, i, NULL)
           r == list_remove_item(l, i, set_free)
<1> USE NullAssumption DEF Pointer
<1>1. /\ before \in Pointer /\ behind \in Pointer /\ n \in Nat
      /\ l.succ \in [Items -> Pointer] /\ l.pred \in [Items -> Pointer]
  BY DEF ListType
<1>2. l.pred[i] = before /\ l.succ[i] = behind /\ n = l.num_items - 1
  OBVIOUS
<1>3. /\ l2.num_items = l.num_items
      /\ r = IF set_free THEN [l2 EXCEPT !.num_items = @ - 1, !.current = NULL]
             ELSE set_predeccessor(set_successor([l2 EXCEPT !.num_items = @ - 1, !.current = NULL],
                                                 i, NULL), i, NULL)
  <2>1. l2.num_items = l.num_items
    BY DEF set_successor, set_predeccessor, ListType
  <2>2. get_predeccessor(l, i) = before /\ get_successor(l, i) = behind
    BY DEF get_predeccessor, get_successor
  <2> HIDE DEF before, behind
  <2> QED BY <2>1, <2>2 DEF list_remove_item
<1> HIDE DEF before, behind, n, r
<1>4. /\ l1 \in ListType
      /\ \A k \in Items : l1.succ[k] = IF k = before THEN behind ELSE l.succ[k]
      /\ \A k \in Items : k # behind => l1.pred[k] = l.pred[k]
      /\ l1.first = (IF before = NULL THEN behind ELSE l.first)
      /\ l1.last = l.last /\ l1.num_items = l.num_items
  <2>1. CASE before # NULL
    BY <1>1, <2>1 DEF set_successor, ListType
  <2>2. CASE before = NULL
    BY <1>1, <2>2 DEF set_predeccessor, ListType
  <2> QED BY <2>1, <2>2
<1>5. /\ l2 \in ListType
      /\ \A k \in Items : l2.succ[k] = IF k = before THEN behind ELSE l.succ[k]
      /\ \A k \in Items : l2.pred[k] = IF k = behind THEN before ELSE l.pred[k]
      /\ l2.first = l1.first
      /\ l2.last = (IF behind = NULL THEN before ELSE l.last) /\ l2.num_items = l.num_items
  <2> HIDE DEF l1
  <2>1. CASE behind # NULL
    BY <1>1, <1>4, <2>1 DEF set_predeccessor, ListType
  <2>2. CASE behind = NULL
    BY <1>1, <1>4, <2>2 DEF set_successor, ListType
  <2> QED BY <2>1, <2>2
<1>6. l4 = [l2 EXCEPT !.num_items = @ - 1, !.current = NULL]
  <2> HIDE DEF l2
  <2> QED BY <1>2, <1>5 DEF ListType
<1> HIDE DEF l1, l2
<1>7. /\ l3 \in ListType /\ l3.succ = l2.succ /\ l3.pred = l2.pred
      /\ l3.first = l2.first /\ l3.last = l2.last /\ l3.num_items = n
  BY <1>1, <1>5 DEF ListType
<1> HIDE DEF l3
<1>8. /\ l4 \in ListType /\ l4.succ = l2.succ /\ l4.pred = l2.pred /\ l4.current = NULL
      /\ l4.first = l2.first /\ l4.last = l2.last /\ l4.num_items = n
  BY <1>7 DEF ListType
<1> HIDE DEF l4
<1>9. /\ l5 \in ListType /\ l5.succ = [l4.succ EXCEPT ![i] = NULL] /\ l5.pred = l4.pred
      /\ l5.first = l4.first /\ l5.last = l4.last /\ l5.num_items = n /\ l5.current = NULL
  BY <1>8 DEF set_successor, ListType
<1>10. r = IF set_free THEN l4 ELSE l6
  BY <1>3, <1>6
<1> HIDE DEF l5
<1>11. /\ l6 \in ListType /\ l6.pred = [l5.pred EXCEPT ![i] = NULL] /\ l6.succ = l5.succ
       /\ l6.first = l5.first /\ l6.last = l5.last /\ l6.num_items = n /\ l6.current = NULL
  BY <1>9 DEF set_predeccessor, ListType
<1> HIDE DEF l6
<1>12. r \in ListType /\ r.num_items = n /\ r.current = NULL /\ r.first = l2.first /\ r.last = l2.last
  BY <1>8, <1>9, <1>10, <1>11
<1>13. l4.succ \in [Items -> Pointer] /\ l4.pred \in [Items -> Pointer]
  BY <1>8 DEF ListType
<1>14. \A k \in Items :
         /\ r.succ[k] = IF k = i /\ ~set_free THEN NULL ELSE l2.succ[k]
         /\ r.pred[k] = IF k = i /\ ~set_free THEN NULL ELSE l2.pred[k]
  BY <1>8, <1>9, <1>10, <1>11, <1>13
<1>15. \A k \in Items :
         /\ r.succ[k] = IF k = before THEN behind ELSE IF k = i /\ ~set_free THEN NULL ELSE l.succ[k]
         /\ r.pred[k] = IF k = behind THEN before ELSE IF k = i /\ ~set_free THEN NULL ELSE l.pred[k]
  BY <1>2, <1>5, <1>14
<1> QED
  BY <1>2, <1>4, <1>5, <1>12, <1>15 DEF r

\* What Linked says of the positions of a sequence.
LEMMA LinkedPositions ==
  ASSUME NEW l, NEW s, Linked(l, s)
  PROVE  /\ l \in ListType /\ s \in Seq(Items) /\ Len(s) \in Nat /\ DOMAIN s = 1 .. Len(s)
         /\ \A v \in 1 .. Len(s) : /\ s[v] \in Items /\ s[v] # NULL
                                   /\ l.pred[s[v]] = IF v = 1 THEN NULL ELSE s[v - 1]
                                   /\ l.succ[s[v]] = IF v = Len(s) THEN NULL ELSE s[v + 1]
         /\ \A v, w \in 1 .. Len(s) : s[v] = s[w] => v = w
<1>1. l \in ListType /\ s \in Seq(Items)
  BY DEF Linked
<1>2. Len(s) \in Nat /\ DOMAIN s = 1 .. Len(s)
  BY <1>1
<1>3. \A v \in 1 .. Len(s) : s[v] \in Items /\ s[v] # NULL
  BY <1>1, NullAssumption
<1> QED BY <1>1, <1>2, <1>3, Zenon DEF Linked

\* Inserting an item that is not in a sequence repeats none.
LEMMA InsertedOnce ==
  ASSUME NEW s \in Seq(Items), NEW x \in 1 .. Len(s) + 1, NEW new \in Items, Absent(new, s),
         \A v, w \in 1 .. Len(s) : s[v] = s[w] => v = w
  PROVE  \A y, z \in 1 .. Len(s) + 1 : InsertAt(s, x, new)[y] = InsertAt(s, x, new)[z] => y = z
<1> DEFINE t == InsertAt(s, x, new)
           n == Len(s)
<1>1. \A v, w \in 1 .. n : s[v] = s[w] => v = w
  OBVIOUS
<1>2. n \in Nat /\ x \in 1 .. n + 1
  OBVIOUS
<1>3. \A v \in 1 .. n : s[v] # new
  BY DEF Absent
<1>4. \A y \in 1 .. n + 1 : t[y] = IF y < x THEN s[y] ELSE IF y = x THEN new ELSE s[y - 1]
  BY InsertAtElements
<1> HIDE DEF t, n
<1>5. ASSUME NEW y \in 1 .. n + 1, NEW z \in 1 .. n + 1, t[y] = t[z] PROVE y = z
  <2>1. CASE y = x \/ z = x
    <3>1. t[x] = new
      BY <1>2, <1>4
    <3>2. ASSUME NEW k \in 1 .. n + 1, k # x PROVE t[k] # new
      <4>1. CASE k < x
        BY <1>2, <1>3, <1>4, <4>1
      <4>2. CASE k > x
        BY <1>2, <1>3, <1>4, <4>2
      <4> QED BY <1>2, <3>2, <4>1, <4>2
    <3> QED BY <1>5, <2>1, <3>1, <3>2
  <2>2. CASE y # x /\ z # x
    <3> DEFINE at(k) == IF k < x THEN k ELSE k - 1
    <3>1. at(y) \in 1 .. n /\ at(z) \in 1 .. n
      BY <1>2, <2>2
    <3>2. t[y] = s[at(y)] /\ t[z] = s[at(z)]
      BY <1>2, <1>4, <2>2
    <3> HIDE DEF at
    <3>3. at(y) = at(z)
      BY <1>1, <1>5, <3>1, <3>2
    <3> QED BY <1>2, <2>2, <3>3 DEF at
  <2> QED BY <2>1, <2>2
<1> QED BY <1>5 DEF t, n

\* An item that is put in front of another one.
LEMMA FrontLinked ==
  ASSUME NEW l, NEW s \in Seq(Items), Linked(l, s), NEW x \in 1 .. Len(s), NEW new \in Items,
         Absent(new, s)
  PROVE  LET r == LinkInFront(l, s[x], new)
         IN Linked(r, InsertAt(s, x, new)) /\ r.current = new /\ SameOutside(l, r, s, new)
<1> DEFINE r == LinkInFront(l, s[x], new)
           t == InsertAt(s, x, new)
           n == Len(s)
           before == IF x = 1 THEN NULL ELSE s[x - 1]
<1>1. /\ l \in ListType /\ s \in Seq(Items) /\ DOMAIN s = 1 .. n
      /\ l.num_items = n
      /\ l.first = IF s = <<>> THEN NULL ELSE s[1]
      /\ l.last = IF s = <<>> THEN NULL ELSE s[n]
  BY LinkedPositions DEF Linked
<1>2. n \in Nat /\ x \in 1 .. n
  BY <1>1
<1>3. s # <<>>
  BY <1>1, <1>2
<1>4. /\ t \in Seq(Items) /\ Len(t) = n + 1
      /\ \A y \in 1 .. n + 1 : t[y] = IF y < x THEN s[y] ELSE IF y = x THEN new ELSE s[y - 1]
  <2>1. x \in 1 .. Len(s) + 1
    OBVIOUS
  <2> QED BY <2>1, InsertAtElements
<1>5. /\ \A v \in 1 .. n : /\ s[v] \in Items /\ s[v] # NULL
                           /\ l.pred[s[v]] = IF v = 1 THEN NULL ELSE s[v - 1]
                           /\ l.succ[s[v]] = IF v = n THEN NULL ELSE s[v + 1]
      /\ \A v, w \in 1 .. n : s[v] = s[w] => v = w
  BY LinkedPositions
<1>6. \A v \in 1 .. n : s[v] # new
  BY <1>1 DEF Absent
<1> HIDE DEF n
<1>7. s[x] # new /\ l.pred[s[x]] = before /\ before # new
  BY <1>2, <1>5, <1>6, NullAssumption
<1>8. /\ r \in ListType /\ r.num_items = l.num_items + 1 /\ r.current = new
      /\ r.first = (IF before = NULL THEN new ELSE l.first) /\ r.last = l.last
      /\ \A i \in Items :
           /\ r.succ[i] = IF i = new THEN s[x] ELSE IF i = before THEN new ELSE l.succ[i]
           /\ r.pred[i] = IF i = s[x] THEN new ELSE IF i = new THEN before ELSE l.pred[i]
  BY <1>1, <1>2, <1>5, <1>7, LinkInFrontFields
<1>9. DOMAIN t = 1 .. n + 1
  <2> HIDE DEF t
  <2> QED BY <1>4
<1> HIDE DEF r, t
<1>10. \A y, z \in 1 .. n + 1 : t[y] = t[z] => y = z
  <2>1. x \in 1 .. Len(s) + 1
    OBVIOUS
  <2> QED BY <1>5, <2>1, InsertedOnce DEF t, n
<1>11. r.first = t[1] /\ r.last = t[n + 1]
  BY <1>1, <1>2, <1>3, <1>4, <1>5, <1>8
<1>12. ASSUME NEW y \in 1 .. n + 1
       PROVE  /\ r.pred[t[y]] = IF y = 1 THEN NULL ELSE t[y - 1]
              /\ r.succ[t[y]] = IF y = n + 1 THEN NULL ELSE t[y + 1]
  <2>1. CASE y < x
    <3>1. y \in 1 .. n /\ t[y] = s[y] /\ s[y] # s[x] /\ s[y] # new /\ s[y] \in Items
      BY <1>2, <1>4, <1>5, <1>6, <2>1
    <3>2. s[y] = before <=> y + 1 = x
      BY <1>2, <1>5, <2>1, <3>1
    <3>3. r.pred[s[y]] = l.pred[s[y]] /\ r.succ[s[y]] = IF y + 1 = x THEN new ELSE l.succ[s[y]]
      BY <1>8, <3>1, <3>2
    <3>4. y # 1 => t[y - 1] = s[y - 1]
      BY <1>2, <1>4, <2>1
    <3>5. y # n + 1 /\ t[y + 1] = IF y + 1 = x THEN new ELSE s[y + 1]
      BY <1>2, <1>4, <2>1
    <3> QED BY <1>2, <1>5, <2>1, <3>1, <3>3, <3>4, <3>5
  <2>2. CASE y = x
    BY <1>2, <1>4, <1>5, <1>6, <1>7, <1>8, <2>2
  <2>3. CASE y > x
    <3> DEFINE v == y - 1
    <3>1. v \in 1 .. n /\ y = v + 1 /\ v >= x
      BY <1>2, <2>3
    <3> HIDE DEF v
    <3>2. t[y] = s[v] /\ s[v] # new /\ s[v] \in Items /\ (s[v] = s[x] <=> v = x)
      BY <1>2, <1>4, <1>5, <1>6, <2>3, <3>1
    <3>3. s[v] # before
      BY <1>2, <1>5, <3>1
    <3>4. r.pred[s[v]] = (IF v = x THEN new ELSE l.pred[s[v]]) /\ r.succ[s[v]] = l.succ[s[v]]
      BY <1>8, <3>2, <3>3
    <3>5. y # 1 /\ t[y - 1] = IF v = x THEN new ELSE s[v - 1]
      BY <1>2, <1>4, <3>1, SMTT(30)
    <3>6. y # n + 1 => t[y + 1] = s[v + 1]
      BY <1>2, <1>4, <3>1
    <3>7. v # 1 \/ v = x
      BY <1>2, <3>1
    <3>8. r.pred[t[y]] = IF y = 1 THEN NULL ELSE t[y - 1]
      BY <1>2, <1>5, <3>1, <3>2, <3>4, <3>5, <3>7
    <3>9. r.succ[t[y]] = IF y = n + 1 THEN NULL ELSE t[y + 1]
      BY <1>2, <1>5, <3>1, <3>2, <3>4, <3>6
    <3> QED BY <3>8, <3>9
  <2> QED BY <1>2, <2>1, <2>2, <2>3
<1>13. SameOutside(l, r, s, new)
  <2>1. ASSUME NEW k \in Items, k # new, Absent(k, s)
        PROVE  r.succ[k] = l.succ[k] /\ r.pred[k] = l.pred[k]
    <3>1. k # s[x] /\ k # before
      BY <1>1, <1>2, <2>1, NullAssumption DEF Absent
    <3> QED BY <1>8, <2>1, <3>1
  <2> QED BY <2>1 DEF SameOutside
<1>14. t # <<>>
  BY <1>2, <1>4
<1>15. Linked(r, t)
  <2>1. l.num_items + 1 = Len(t)
    BY <1>1, <1>4 DEF n
  <2>2. \A y, z \in DOMAIN t : t[y] = t[z] => y = z
    BY <1>9, <1>10
  <2>3. \A y \in DOMAIN t : /\ r.pred[t[y]] = IF y = 1 THEN NULL ELSE t[y - 1]
                            /\ r.succ[t[y]] = IF y = Len(t) THEN NULL ELSE t[y + 1]
    BY <1>4, <1>9, <1>12
  <2>4. /\ r.first = IF t = <<>> THEN NULL ELSE t[1]
        /\ r.last = IF t = <<>> THEN NULL ELSE t[Len(t)]
    BY <1>4, <1>11, <1>14
  <2> QED BY <1>4, <1>8, <2>1, <2>2, <2>3, <2>4, Zenon DEF Linked
<1> QED BY <1>8, <1>13, <1>15 DEF r, t

\* An item that is put behind another one.
LEMMA BackLinked ==
  ASSUME NEW l, NEW s \in Seq(Items), Linked(l, s), NEW x \in 1 .. Len(s), NEW new \in Items,
         Absent(new, s)
  PROVE  LET r == LinkInBack(l, s[x], new)
         IN Linked(r, InsertAt(s, x + 1, new)) /\ r.current = new /\ SameOutside(l, r, s, new)
<1> DEFINE r == LinkInBack(l, s[x], new)
           e == x + 1
           t == InsertAt(s, e, new)
           n == Len(s)
           behind == IF x = n THEN NULL ELSE s[x + 1]
<1>1. /\ l \in ListType /\ s \in Seq(Items) /\ DOMAIN s = 1 .. n
      /\ l.num_items = n
      /\ l.first = IF s = <<>> THEN NULL ELSE s[1]
      /\ l.last = IF s = <<>> THEN NULL ELSE s[n]
  BY LinkedPositions DEF Linked
<1>2. n \in Nat /\ x \in 1 .. n
  BY <1>1
<1>3. s # <<>>
  BY <1>1, <1>2
<1>4. /\ t \in Seq(Items) /\ Len(t) = n + 1
      /\ \A y \in 1 .. n + 1 : t[y] = IF y < e THEN s[y] ELSE IF y = e THEN new ELSE s[y - 1]
  <2>1. e \in 1 .. Len(s) + 1
    OBVIOUS
  <2> HIDE DEF e
  <2>2. Inserted(t, Items, s, e, new)
    BY <2>1, InsertAtResult, Zenon
  <2> HIDE DEF t
  <2> QED BY <2>2 DEF Inserted
<1>5. /\ \A v \in 1 .. n : /\ s[v] \in Items /\ s[v] # NULL
                           /\ l.pred[s[v]] = IF v = 1 THEN NULL ELSE s[v - 1]
                           /\ l.succ[s[v]] = IF v = n THEN NULL ELSE s[v + 1]
      /\ \A v, w \in 1 .. n : s[v] = s[w] => v = w
  BY LinkedPositions
<1>6. \A v \in 1 .. n : s[v] # new
  BY <1>1 DEF Absent
<1>7. \A y, z \in 1 .. n + 1 : t[y] = t[z] => y = z
  <2>1. e \in 1 .. Len(s) + 1
    OBVIOUS
  <2> HIDE DEF e
  <2> QED BY <1>5, <2>1, InsertedOnce
<1> HIDE DEF n
<1>8. s[x] # new /\ l.succ[s[x]] = behind /\ behind # new
  BY <1>2, <1>5, <1>6, NullAssumption
<1>9. /\ r \in ListType /\ r.num_items = l.num_items + 1 /\ r.current = new
      /\ r.last = (IF behind = NULL THEN new ELSE l.last) /\ r.first = l.first
      /\ \A i \in Items :
           /\ r.pred[i] = IF i = new THEN s[x] ELSE IF i = behind THEN new ELSE l.pred[i]
           /\ r.succ[i] = IF i = s[x] THEN new ELSE IF i = new THEN behind ELSE l.succ[i]
  BY <1>1, <1>2, <1>5, <1>8, LinkInBackFields
<1>10. DOMAIN t = 1 .. n + 1
  <2> HIDE DEF t
  <2> QED BY <1>4
<1> HIDE DEF r, t
<1>11. r.first = t[1] /\ r.last = t[n + 1]
  BY <1>1, <1>2, <1>3, <1>4, <1>5, <1>9
<1>12. ASSUME NEW y \in 1 .. n + 1
       PROVE  /\ r.pred[t[y]] = IF y = 1 THEN NULL ELSE t[y - 1]
              /\ r.succ[t[y]] = IF y = n + 1 THEN NULL ELSE t[y + 1]
  <2>1. CASE y <= x
    <3>1. y \in 1 .. n /\ t[y] = s[y] /\ s[y] # new /\ s[y] \in Items
      BY <1>2, <1>4, <1>5, <1>6, <2>1
    <3>2. s[y] # behind /\ (s[y] = s[x] <=> y = x)
      BY <1>2, <1>5, <2>1, <3>1
    <3>3. r.pred[s[y]] = l.pred[s[y]] /\ r.succ[s[y]] = IF y = x THEN new ELSE l.succ[s[y]]
      BY <1>9, <3>1, <3>2
    <3>4. y # 1 => t[y - 1] = s[y - 1]
      BY <1>2, <1>4, <2>1
    <3>5. y # n + 1 /\ t[y + 1] = IF y = x THEN new ELSE s[y + 1]
      BY <1>2, <1>4, <2>1
    <3>6. y # n \/ y = x
      BY <1>2, <2>1
    <3>7. r.pred[t[y]] = IF y = 1 THEN NULL ELSE t[y - 1]
      BY <1>2, <1>5, <3>1, <3>3, <3>4
    <3>8. r.succ[t[y]] = IF y = n + 1 THEN NULL ELSE t[y + 1]
      BY <1>2, <1>5, <3>1, <3>3, <3>5, <3>6
    <3> QED BY <3>7, <3>8
  <2>2. CASE y = x + 1
    <3>1. t[y] = new /\ y # 1 /\ t[y - 1] = s[x]
      BY <1>2, <1>4, <2>2
    <3>2. y # n + 1 => t[y + 1] = s[x + 1]
      BY <1>2, <1>4, <2>2
    <3>3. r.pred[new] = s[x] /\ r.succ[new] = behind
      BY <1>8, <1>9
    <3> QED BY <1>2, <2>2, <3>1, <3>2, <3>3
  <2>3. CASE y > x + 1
    <3> DEFINE v == y - 1
    <3>1. v \in 1 .. n /\ y = v + 1 /\ v > x
      BY <1>2, <2>3
    <3> HIDE DEF v
    <3>2. t[y] = s[v] /\ s[v] # new /\ s[v] \in Items /\ s[v] # s[x]
      BY <1>2, <1>4, <1>5, <1>6, <2>3, <3>1
    <3>3. s[v] = behind <=> v = x + 1
      BY <1>2, <1>5, <3>1
    <3>4. r.pred[s[v]] = (IF v = x + 1 THEN new ELSE l.pred[s[v]]) /\ r.succ[s[v]] = l.succ[s[v]]
      BY <1>9, <3>2, <3>3
    <3>5. y # 1 /\ t[y - 1] = IF v = x + 1 THEN new ELSE s[v - 1]
      BY <1>2, <1>4, <3>1
    <3>6. y # n + 1 => t[y + 1] = s[v + 1]
      BY <1>2, <1>4, <3>1
    <3>7. r.pred[t[y]] = IF y = 1 THEN NULL ELSE t[y - 1]
      <4>1. v # 1 /\ l.pred[s[v]] = s[v - 1]
        BY <1>2, <1>5, <3>1
      <4> QED BY <3>2, <3>4, <3>5, <4>1
    <3>8. r.succ[t[y]] = IF y = n + 1 THEN NULL ELSE t[y + 1]
      BY <1>2, <1>5, <3>1, <3>2, <3>4, <3>6
    <3> QED BY <3>7, <3>8
  <2> QED BY <1>2, <2>1, <2>2, <2>3
<1>13. SameOutside(l, r, s, new)
  <2>1. ASSUME NEW k \in Items, k # new, Absent(k, s)
        PROVE  r.succ[k] = l.succ[k] /\ r.pred[k] = l.pred[k]
    <3>1. k # s[x] /\ k # behind
      BY <1>1, <1>2, <2>1, NullAssumption DEF Absent
    <3> QED BY <1>9, <2>1, <3>1
  <2> QED BY <2>1 DEF SameOutside
<1>14. t # <<>>
  BY <1>2, <1>4
<1>15. Linked(r, t)
  <2>1. l.num_items + 1 = Len(t)
    BY <1>1, <1>4 DEF n
  <2>2. \A y, z \in DOMAIN t : t[y] = t[z] => y = z
    BY <1>7, <1>10
  <2>3. \A y \in DOMAIN t : /\ r.pred[t[y]] = IF y = 1 THEN NULL ELSE t[y - 1]
                            /\ r.succ[t[y]] = IF y = Len(t) THEN NULL ELSE t[y + 1]
    BY <1>4, <1>10, <1>12
  <2>4. /\ r.first = IF t = <<>> THEN NULL ELSE t[1]
        /\ r.last = IF t = <<>> THEN NULL ELSE t[Len(t)]
    BY <1>4, <1>11, <1>14
  <2> QED BY <1>4, <1>9, <2>1, <2>2, <2>3, <2>4, Zenon DEF Linked
<1> QED BY <1>9, <1>13, <1>15 DEF r, t

\* The first item of an empty list has no links of its own.
LEMMA SingleLinked ==
  ASSUME NEW l, Linked(l, <<>>), NEW new \in Items, l.succ[new] = NULL, l.pred[new] = NULL
  PROVE  LET r == Single(l, new)
         IN Linked(r, InsertAt(<<>>, 1, new)) /\ r.current = new /\ SameOutside(l, r, <<>>, new)
<1> DEFINE m == [l EXCEPT !.first = new, !.last = new]
           r == Single(l, new)
           t == InsertAt(<<>>, 1, new)
<1>1. l \in ListType /\ new \in Pointer /\ l.num_items = 0
  BY DEF Linked, Pointer
<1>2. /\ m \in ListType /\ m.succ = l.succ /\ m.pred = l.pred /\ m.first = new /\ m.last = new
      /\ m.num_items = 0
  BY <1>1 DEF ListType
<1>3. r = Counted(m, new)
  BY DEF Single
<1> HIDE DEF m, r
<1>4. /\ r \in ListType /\ r.succ = l.succ /\ r.pred = l.pred /\ r.first = new /\ r.last = new
      /\ r.current = new /\ r.num_items = 1
  BY <1>1, <1>2, <1>3, CountedFields
<1>5. t = <<new>>
  BY InsertIntoEmpty
<1> HIDE DEF t
<1>6. t \in Seq(Items) /\ Len(t) = 1 /\ t[1] = new /\ DOMAIN t = {1} /\ t # <<>>
  BY <1>5
<1>7. Linked(r, t)
  BY <1>4, <1>6 DEF Linked
<1>8. SameOutside(l, r, <<>>, new)
  BY <1>4 DEF SameOutside
<1> QED BY <1>4, <1>7, <1>8 DEF r, t

\* An item that is taken out.
LEMMA RemoveLinked ==
  ASSUME NEW l, NEW s \in Seq(Items), Linked(l, s), NEW x \in 1 .. Len(s), NEW set_free \in BOOLEAN
  PROVE  LET r == list_remove_item(l, s[x], set_free)
         IN /\ Linked(r, RemoveAt(s, x)) /\ r.current = NULL /\ SameOutside(l, r, s, NULL)
            /\ ~set_free => r.succ[s[x]] = NULL /\ r.pred[s[x]] = NULL
<1> DEFINE i == s[x]
           r == list_remove_item(l, i, set_free)
           t == RemoveAt(s, x)
           n == Len(s)
           before == IF x = 1 THEN NULL ELSE s[x - 1]
           behind == IF x = n THEN NULL ELSE s[x + 1]
<1>1. /\ l \in ListType /\ s \in Seq(Items) /\ DOMAIN s = 1 .. n
      /\ l.num_items = n
      /\ l.first = IF s = <<>> THEN NULL ELSE s[1]
      /\ l.last = IF s = <<>> THEN NULL ELSE s[n]
  BY LinkedPositions DEF Linked
<1>2. n \in Nat /\ x \in 1 .. n /\ n > 0
  BY <1>1
<1>3. s # <<>>
  BY <1>1, <1>2
<1>4. /\ t \in Seq(Items) /\ Len(t) = n - 1
      /\ \A y \in 1 .. n - 1 : t[y] = IF y < x THEN s[y] ELSE s[y + 1]
  BY RemoveAtElements
<1>5. /\ \A v \in 1 .. n : /\ s[v] \in Items /\ s[v] # NULL
                           /\ l.pred[s[v]] = IF v = 1 THEN NULL ELSE s[v - 1]
                           /\ l.succ[s[v]] = IF v = n THEN NULL ELSE s[v + 1]
      /\ \A v, w \in 1 .. n : s[v] = s[w] => v = w
  BY LinkedPositions, SMTT(30)
<1> HIDE DEF n
<1>6. i \in Items /\ l.pred[i] = before /\ l.succ[i] = behind
  BY <1>2, <1>5
<1>7. before # i /\ behind # i
  BY <1>2, <1>5
<1>8. /\ r \in ListType /\ r.num_items = l.num_items - 1 /\ r.current = NULL
      /\ r.first = (IF before = NULL THEN behind ELSE l.first)
      /\ r.last = (IF behind = NULL THEN before ELSE l.last)
      /\ \A k \in Items :
           /\ r.succ[k] = IF k = before THEN behind ELSE IF k = i /\ ~set_free THEN NULL ELSE l.succ[k]
           /\ r.pred[k] = IF k = behind THEN before ELSE IF k = i /\ ~set_free THEN NULL ELSE l.pred[k]
  <2> HIDE DEF i, before, behind
  <2> QED BY <1>1, <1>2, <1>6, <1>7, RemoveFields
<1>9. DOMAIN t = 1 .. n - 1
  <2> HIDE DEF t
  <2> QED BY <1>2, <1>4
<1> HIDE DEF r, t
<1>10. ASSUME NEW y \in 1 .. n - 1, NEW z \in 1 .. n - 1, t[y] = t[z] PROVE y = z
  <2> DEFINE at(k) == IF k < x THEN k ELSE k + 1
  <2>1. at(y) \in 1 .. n /\ at(z) \in 1 .. n
    BY <1>2
  <2>2. t[y] = s[at(y)] /\ t[z] = s[at(z)]
    BY <1>2, <1>4
  <2> HIDE DEF at
  <2>3. at(y) = at(z)
    BY <1>5, <1>10, <2>1, <2>2
  <2> QED BY <1>2, <2>3 DEF at
<1>11. t = <<>> <=> n = 1
  BY <1>2, <1>4
<1>12. /\ r.first = IF n = 1 THEN NULL ELSE t[1]
       /\ r.last = IF n = 1 THEN NULL ELSE t[n - 1]
  <2>1. n # 1 => t[1] = IF x = 1 THEN s[2] ELSE s[1]
    BY <1>2, <1>4
  <2>2. n # 1 => t[n - 1] = IF x = n THEN s[n - 1] ELSE s[n]
    BY <1>2, <1>4
  <2>3. before = NULL <=> x = 1
    BY <1>2, <1>5
  <2>4. behind = NULL <=> x = n
    BY <1>2, <1>5
  <2>5. r.first = IF x = 1 THEN behind ELSE s[1]
    BY <1>1, <1>3, <1>8, <2>3
  <2>6. r.last = IF x = n THEN before ELSE s[n]
    BY <1>1, <1>3, <1>8, <2>4
  <2> QED BY <1>2, <2>1, <2>2, <2>5, <2>6
<1>13. ASSUME NEW y \in 1 .. n - 1
       PROVE  /\ r.pred[t[y]] = IF y = 1 THEN NULL ELSE t[y - 1]
              /\ r.succ[t[y]] = IF y = n - 1 THEN NULL ELSE t[y + 1]
  <2>1. CASE y < x
    <3>1. y \in 1 .. n /\ t[y] = s[y] /\ s[y] # i /\ s[y] \in Items
      BY <1>2, <1>4, <1>5, <2>1
    <3>2. s[y] # behind /\ (s[y] = before <=> y + 1 = x)
      BY <1>2, <1>5, <2>1, <3>1
    <3>3. r.pred[s[y]] = l.pred[s[y]] /\ r.succ[s[y]] = IF y + 1 = x THEN behind ELSE l.succ[s[y]]
      BY <1>8, <3>1, <3>2
    <3>4. y # 1 => t[y - 1] = s[y - 1]
      BY <1>2, <1>4, <2>1
    <3>5. y # n - 1 => t[y + 1] = IF y + 1 = x THEN s[x + 1] ELSE s[y + 1]
      BY <1>2, <1>4, <2>1
    <3>6. y = n - 1 => y + 1 = x /\ x = n
      BY <1>2, <2>1
    <3>7. r.pred[t[y]] = IF y = 1 THEN NULL ELSE t[y - 1]
      BY <1>2, <1>5, <3>1, <3>3, <3>4
    <3>8. r.succ[t[y]] = IF y = n - 1 THEN NULL ELSE t[y + 1]
      BY <1>2, <1>5, <3>1, <3>3, <3>5, <3>6
    <3> QED BY <3>7, <3>8
  <2>2. CASE y >= x
    <3> DEFINE v == y + 1
    <3>1. v \in 1 .. n /\ y = v - 1 /\ v > x
      BY <1>2, <2>2
    <3> HIDE DEF v
    <3>2. t[y] = s[v] /\ s[v] \in Items /\ s[v] # i
      BY <1>2, <1>4, <1>5, <2>2, <3>1
    <3>3. s[v] # before /\ (s[v] = behind <=> v = x + 1)
      BY <1>2, <1>5, <3>1, SMTT(30)
    <3>4. r.pred[s[v]] = (IF v = x + 1 THEN before ELSE l.pred[s[v]]) /\ r.succ[s[v]] = l.succ[s[v]]
      BY <1>8, <3>2, <3>3
    <3>5. y # 1 => t[y - 1] = IF v = x + 1 THEN s[x - 1] ELSE s[v - 1]
      BY <1>2, <1>4, <3>1
    <3>6. y # n - 1 => t[y + 1] = s[v + 1]
      BY <1>2, <1>4, <3>1
    <3>7. r.pred[t[y]] = IF y = 1 THEN NULL ELSE t[y - 1]
      <4>1. v # 1 /\ (y = 1 => v = x + 1 /\ x = 1) /\ (y # 1 /\ v = x + 1 => x # 1)
        BY <1>2, <3>1
      <4>2. l.pred[s[v]] = s[v - 1]
        BY <1>5, <3>1, <4>1
      <4> QED BY <3>2, <3>4, <3>5, <4>1, <4>2
    <3>8. r.succ[t[y]] = IF y = n - 1 THEN NULL ELSE t[y + 1]
      BY <1>2, <1>5, <3>1, <3>2, <3>4, <3>6
    <3> QED BY <3>7, <3>8
  <2> QED BY <1>2, <2>1, <2>2
<1>14. SameOutside(l, r, s, NULL)
  <2>1. ASSUME NEW k \in Items, Absent(k, s)
        PROVE  r.succ[k] = l.succ[k] /\ r.pred[k] = l.pred[k]
    <3>1. k # i /\ k # before /\ k # behind
      BY <1>1, <1>2, <2>1, NullAssumption DEF Absent
    <3> QED BY <1>8, <2>1, <3>1
  <2> QED BY <2>1 DEF SameOutside
<1>15. ~set_free => r.succ[i] = NULL /\ r.pred[i] = NULL
  BY <1>6, <1>7, <1>8
<1>16. Linked(r, t)
  <2>1. r.num_items = Len(t)
    BY <1>1, <1>4, <1>8
  <2>2. \A y, z \in DOMAIN t : t[y] = t[z] => y = z
    BY <1>9, <1>10
  <2>3. \A y \in DOMAIN t : /\ r.pred[t[y]] = IF y = 1 THEN NULL ELSE t[y - 1]
                            /\ r.succ[t[y]] = IF y = Len(t) THEN NULL ELSE t[y + 1]
    BY <1>4, <1>9, <1>13
  <2>4. /\ r.first = IF t = <<>> THEN NULL ELSE t[1]
        /\ r.last = IF t = <<>> THEN NULL ELSE t[Len(t)]
    BY <1>4, <1>11, <1>12
  <2> QED BY <1>4, <1>8, <2>1, <2>2, <2>3, <2>4, Zenon DEF Linked
<1> QED BY <1>8, <1>14, <1>15, <1>16 DEF r, t

\* Item i is linked to nothing.
Unlinked(l, i) == l.succ[i] = NULL /\ l.pred[i] = NULL

\* list_add_infrontof, with list_add_begin when there is no item to stand before.
LEMMA AddInFrontLinked ==
  ASSUME NEW l, NEW s \in Seq(Items), Linked(l, s), NEW new \in Items, Absent(new, s),
         Unlinked(l, new), NEW p \in Pointer, p = NULL \/ ~Absent(p, s)
  PROVE  LET r == list_add_infrontof(l, p, new)
         IN \E x \in 1 .. Len(s) + 1 :
              /\ Linked(r, InsertAt(s, x, new)) /\ r.current = new /\ SameOutside(l, r, s, new)
              /\ IF p = NULL THEN x = 1 ELSE x <= Len(s) /\ s[x] = p
<1>1. l.num_items = Len(s) /\ l.first = (IF s = <<>> THEN NULL ELSE s[1]) /\ DOMAIN s = 1 .. Len(s)
  BY DEF Linked
<1>2. ASSUME NEW x \in 1 .. Len(s)
      PROVE  LET r == LinkInFront(l, s[x], new)
             IN Linked(r, InsertAt(s, x, new)) /\ r.current = new /\ SameOutside(l, r, s, new)
  BY FrontLinked
<1>3. CASE p # NULL
  <2>1. PICK x \in 1 .. Len(s) : s[x] = p
    BY <1>1, <1>3 DEF Absent
  <2>2. list_add_infrontof(l, p, new) = LinkInFront(l, s[x], new)
    BY <1>3, <2>1 DEF list_add_infrontof
  <2>3. x \in 1 .. Len(s) + 1 /\ x <= Len(s)
    OBVIOUS
  <2> QED BY <1>2, <1>3, <2>1, <2>2, <2>3, Zenon
<1>4. CASE p = NULL /\ s = <<>>
  <2>1. list_add_infrontof(l, p, new) = Single(l, new)
    BY <1>1, <1>4 DEF list_add_infrontof, list_add_begin
  <2>2. LET r == Single(l, new)
        IN Linked(r, InsertAt(s, 1, new)) /\ r.current = new /\ SameOutside(l, r, s, new)
    BY <1>4, SingleLinked DEF Unlinked
  <2>3. 1 \in 1 .. Len(s) + 1
    OBVIOUS
  <2> QED BY <1>4, <2>1, <2>2, <2>3, Zenon
<1>5. CASE p = NULL /\ s # <<>>
  <2>1. 1 \in 1 .. Len(s) /\ 1 \in 1 .. Len(s) + 1 /\ l.num_items # 0
    BY <1>1, <1>5
  <2>2. list_add_infrontof(l, p, new) = LinkInFront(l, s[1], new)
    BY <1>1, <1>5, <2>1 DEF list_add_infrontof, list_add_begin
  <2> QED BY <1>2, <1>5, <2>1, <2>2, Zenon
<1> QED BY <1>3, <1>4, <1>5

\* list_add_inbackof, with list_add_end when there is no item to stand behind.
LEMMA AddInBackLinked ==
  ASSUME NEW l, NEW s \in Seq(Items), Linked(l, s), NEW new \in Items, Absent(new, s),
         Unlinked(l, new), NEW p \in Pointer, p = NULL \/ ~Absent(p, s)
  PROVE  LET r == list_add_inbackof(l, p, new)
         IN \E x \in 1 .. Len(s) + 1 :
              /\ Linked(r, InsertAt(s, x, new)) /\ r.current = new /\ SameOutside(l, r, s, new)
              /\ IF p = NULL THEN x = Len(s) + 1 ELSE x > 1 /\ s[x - 1] = p
<1>1. l.num_items = Len(s) /\ l.last = (IF s = <<>> THEN NULL ELSE s[Len(s)]) /\ DOMAIN s = 1 .. Len(s)
  BY DEF Linked
<1>2. ASSUME NEW x \in 1 .. Len(s)
      PROVE  LET r == LinkInBack(l, s[x], new)
             IN Linked(r, InsertAt(s, x + 1, new)) /\ r.current = new /\ SameOutside(l, r, s, new)
  BY BackLinked
<1>3. \A x \in 1 .. Len(s) : x + 1 \in 1 .. Len(s) + 1 /\ x + 1 > 1 /\ (x + 1) - 1 = x
  OBVIOUS
<1>4. CASE p # NULL
  <2>1. PICK x \in 1 .. Len(s) : s[x] = p
    BY <1>1, <1>4 DEF Absent
  <2>2. list_add_inbackof(l, p, new) = LinkInBack(l, s[x], new)
    BY <1>4, <2>1 DEF list_add_inbackof
  <2> QED BY <1>2, <1>3, <1>4, <2>1, <2>2, Zenon
<1>5. CASE p = NULL /\ s = <<>>
  <2>1. list_add_inbackof(l, p, new) = Single(l, new)
    BY <1>1, <1>5 DEF list_add_inbackof, list_add_end
  <2>2. LET r == Single(l, new)
        IN Linked(r, InsertAt(s, 1, new)) /\ r.current = new /\ SameOutside(l, r, s, new)
    BY <1>5, SingleLinked DEF Unlinked
  <2>3. 1 \in 1 .. Len(s) + 1 /\ 1 = Len(s) + 1
    BY <1>5
  <2> QED BY <1>5, <2>1, <2>2, <2>3, Zenon
<1>6. CASE p = NULL /\ s # <<>>
  <2>1. Len(s) \in 1 .. Len(s) /\ l.num_items # 0
    BY <1>1, <1>6
  <2>2. list_add_inbackof(l, p, new) = LinkInBack(l, s[Len(s)], new)
    BY <1>1, <1>6, <2>1 DEF list_add_inbackof, list_add_end
  <2> QED BY <1>2, <1>3, <1>6, <2>1, <2>2, Zenon
<1> QED BY <1>4, <1>5, <1>6

\* list_move_item: taken out, then added behind its new predeccessor or in front.
LEMMA MoveLinked ==
  ASSUME NEW l, NEW s \in Seq(Items), Linked(l, s), NEW x \in 1 .. Len(s),
         NEW p \in Pointer, p # s[x], p = NULL \/ ~Absent(p, s)
  PROVE  LET r == list_move_item(l, s[x], p)
             t == RemoveAt(s, x)
         IN \E y \in 1 .. Len(s) :
              /\ Linked(r, InsertAt(t, y, s[x])) /\ r.current = s[x] /\ SameOutside(l, r, s, NULL)
              /\ IF p = NULL THEN y = 1 ELSE y > 1 /\ t[y - 1] = p
<1> DEFINE i == s[x]
           t == RemoveAt(s, x)
           w == list_remove_item(l, i, FALSE)
           r == list_move_item(l, i, p)
<1>1. /\ Linked(w, t) /\ SameOutside(l, w, s, NULL) /\ Unlinked(w, i)
  BY RemoveLinked DEF Unlinked
<1>2. /\ t \in Seq(Items) /\ Len(t) = Len(s) - 1
      /\ \A y \in 1 .. Len(s) - 1 : t[y] = IF y < x THEN s[y] ELSE s[y + 1]
  BY RemoveAtElements
<1>3. /\ i \in Items /\ DOMAIN s = 1 .. Len(s)
      /\ \A v, y \in 1 .. Len(s) : s[v] = s[y] => v = y
  BY LinkedPositions
<1>4. DOMAIN t = 1 .. Len(s) - 1
  <2> HIDE DEF t
  <2> QED BY <1>2
<1>5. Absent(i, t)
  <2> HIDE DEF t
  <2>1. ASSUME NEW y \in 1 .. Len(s) - 1 PROVE t[y] # i
    <3>1. CASE y < x
      BY <1>2, <1>3, <3>1
    <3>2. CASE y >= x
      BY <1>2, <1>3, <3>2
    <3> QED BY <3>1, <3>2
  <2> QED BY <1>4, <2>1 DEF Absent
<1>6. ASSUME NEW k, Absent(k, s) PROVE Absent(k, t)
  <2> HIDE DEF t
  <2>1. ASSUME NEW y \in 1 .. Len(s) - 1 PROVE t[y] # k
    <3>1. y \in 1 .. Len(s) /\ y + 1 \in 1 .. Len(s)
      OBVIOUS
    <3> QED BY <1>2, <1>3, <1>6, <3>1 DEF Absent
  <2> QED BY <1>4, <2>1 DEF Absent
<1>7. p # NULL => ~Absent(p, t)
  <2> HIDE DEF t
  <2>1. SUFFICES ASSUME p # NULL PROVE \E y \in 1 .. Len(s) - 1 : t[y] = p
    BY <1>4 DEF Absent
  <2>2. PICK v \in 1 .. Len(s) : s[v] = p
    BY <1>3, <2>1 DEF Absent
  <2>3. v # x
    BY <2>2
  <2>4. CASE v < x
    <3>1. v \in 1 .. Len(s) - 1 /\ t[v] = s[v]
      BY <1>2, <2>4
    <3> QED BY <2>2, <3>1
  <2>5. CASE v > x
    <3>1. v - 1 \in 1 .. Len(s) - 1 /\ t[v - 1] = s[v]
      BY <1>2, <2>5
    <3> QED BY <2>2, <3>1
  <2> QED BY <2>3, <2>4, <2>5
<1> DEFINE T(y) == IF p = NULL THEN y = 1 ELSE y > 1 /\ t[y - 1] = p
<1>8. \E y \in 1 .. Len(t) + 1 :
        Linked(r, InsertAt(t, y, i)) /\ r.current = i /\ SameOutside(w, r, t, i) /\ T(y)
  <2>1. CASE p # NULL
    <3>1. r = list_add_inbackof(w, p, i)
      BY <2>1 DEF list_move_item
    <3> HIDE DEF t, i, w, r
    <3> QED BY <1>1, <1>2, <1>3, <1>5, <1>7, <2>1, <3>1, AddInBackLinked
  <2>2. CASE p = NULL
    <3>1. r = list_add_infrontof(w, w.first, i)
      BY <2>2 DEF list_move_item
    <3> HIDE DEF t, i, w, r
    <3>2. w.first = IF t = <<>> THEN NULL ELSE t[1]
      BY <1>1 DEF Linked
    <3>3. w.first \in Pointer
      BY <1>1 DEF Linked, ListType
    <3>4. w.first # NULL => t # <<>> /\ 1 \in DOMAIN t /\ ~Absent(w.first, t)
      BY <1>2, <3>2 DEF Absent
    <3>5. PICK y \in 1 .. Len(t) + 1 :
            /\ Linked(r, InsertAt(t, y, i)) /\ r.current = i /\ SameOutside(w, r, t, i)
            /\ IF w.first = NULL THEN y = 1 ELSE y <= Len(t) /\ t[y] = w.first
      BY <1>1, <1>2, <1>3, <1>5, <3>1, <3>3, <3>4, AddInFrontLinked
    <3>6. y = 1
      <4>1. w.first # NULL => y \in DOMAIN t /\ 1 \in DOMAIN t /\ t[y] = t[1]
        BY <1>2, <3>2, <3>4, <3>5
      <4> QED BY <1>1, <3>5, <4>1 DEF Linked
    <3> QED BY <2>2, <3>5, <3>6
  <2> QED BY <2>1, <2>2
<1>9. PICK y \in 1 .. Len(t) + 1 :
        Linked(r, InsertAt(t, y, i)) /\ r.current = i /\ SameOutside(w, r, t, i) /\ T(y)
  BY <1>8
<1>10. y \in 1 .. Len(s)
  <2> HIDE DEF t
  <2> QED BY <1>2
<1>11. SameOutside(l, r, s, NULL)
  <2>1. ASSUME NEW k \in Items, Absent(k, s)
        PROVE  r.succ[k] = l.succ[k] /\ r.pred[k] = l.pred[k]
    <3>1. k # i /\ Absent(k, t) /\ k # NULL
      BY <1>3, <1>6, <2>1, NullAssumption DEF Absent
    <3> HIDE DEF t, i, w, r
    <3> QED BY <1>1, <1>9, <2>1, <3>1 DEF SameOutside
  <2> HIDE DEF r
  <2> QED BY <2>1 DEF SameOutside
<1> QED BY <1>9, <1>10, <1>11

\* Walking forward from the first item meets the sequence.
LEMMA ForwardWalk ==
  ASSUME NEW l, NEW s \in Seq(Items), Linked(l, s)
  PROVE  /\ \A x \in 1 .. Len(s) : Steps(l.succ, l.first, x - 1) = s[x]
         /\ [x \in 1 .. l.num_items |-> Steps(l.succ, l.first, x - 1)] = s
<1> DEFINE n == Len(s)
           W(k) == Steps(l.succ, l.first, k)
           T == {k \in Nat : k < n => W(k) = s[k + 1]}
<1>1. /\ n \in Nat /\ DOMAIN s = 1 .. n /\ l.num_items = n
      /\ \A v \in 1 .. n : s[v] # NULL /\ l.succ[s[v]] = IF v = n THEN NULL ELSE s[v + 1]
      /\ n > 0 => l.first = s[1]
  <2>1. /\ n \in Nat /\ DOMAIN s = 1 .. n
        /\ \A v \in 1 .. n : s[v] # NULL /\ l.succ[s[v]] = IF v = n THEN NULL ELSE s[v + 1]
    BY LinkedPositions
  <2>2. l.num_items = n /\ l.first = IF s = <<>> THEN NULL ELSE s[1]
    BY DEF Linked
  <2>3. n > 0 => s # <<>>
    OBVIOUS
  <2> QED BY <2>1, <2>2, <2>3
<1>2. W(0) = l.first /\ \A k \in Nat : W(k + 1) = Follow(l.succ, W(k))
  BY StepsUnfold
<1> HIDE DEF W, n
<1>3. 0 \in T
  BY <1>1, <1>2
<1>4. ASSUME NEW k \in Nat, k \in T PROVE k + 1 \in T
  <2>1. SUFFICES ASSUME k + 1 < n PROVE W(k + 1) = s[(k + 1) + 1]
    OBVIOUS
  <2>2. W(k) = s[k + 1] /\ k + 1 \in 1 .. n /\ k + 1 # n
    BY <1>1, <1>4, <2>1
  <2>3. s[k + 1] # NULL /\ l.succ[s[k + 1]] = s[(k + 1) + 1]
    BY <1>1, <2>2
  <2>4. W(k + 1) = Follow(l.succ, s[k + 1])
    BY <1>2, <2>2
  <2> QED BY <2>3, <2>4 DEF Follow
<1> HIDE DEF T
<1>5. \A k \in Nat : k \in T
  BY <1>3, <1>4, SetInduction
<1>6. ASSUME NEW x \in 1 .. n PROVE W(x - 1) = s[x]
  <2>1. x - 1 \in Nat /\ x - 1 < n /\ (x - 1) + 1 = x
    BY <1>1
  <2> QED BY <1>5, <2>1 DEF T
<1>7. s = [x \in 1 .. n |-> s[x]]
  BY <1>1
<1>8. [x \in 1 .. n |-> W(x - 1)] = [x \in 1 .. n |-> s[x]]
  BY <1>6
<1> QED BY <1>1, <1>6, <1>7, <1>8 DEF W, n

\* Walking backward from the last item meets it in reverse.
LEMMA BackwardWalk ==
  ASSUME NEW l, NEW s \in Seq(Items), Linked(l, s)
  PROVE  \A x \in 1 .. Len(s) : Steps(l.pred, l.last, Len(s) - x) = s[x]
<1> DEFINE n == Len(s)
           W(k) == Steps(l.pred, l.last, k)
           T == {k \in Nat : k < n => W(k) = s[n - k]}
<1>1. /\ n \in Nat /\ \A v \in 1 .. n : s[v] # NULL /\ l.pred[s[v]] = IF v = 1 THEN NULL ELSE s[v - 1]
      /\ n > 0 => l.last = s[n]
  <2>1. /\ n \in Nat /\ DOMAIN s = 1 .. n
        /\ \A v \in 1 .. n : s[v] # NULL /\ l.pred[s[v]] = IF v = 1 THEN NULL ELSE s[v - 1]
    BY LinkedPositions
  <2>2. l.last = IF s = <<>> THEN NULL ELSE s[n]
    BY DEF Linked
  <2>3. n > 0 => s # <<>>
    BY <2>1
  <2> QED BY <2>1, <2>2, <2>3
<1>2. W(0) = l.last /\ \A k \in Nat : W(k + 1) = Follow(l.pred, W(k))
  BY StepsUnfold
<1> HIDE DEF W, n
<1>3. 0 \in T
  <2>1. n - 0 = n
    BY <1>1
  <2> QED BY <1>1, <1>2, <2>1
<1>4. ASSUME NEW k \in Nat, k \in T PROVE k + 1 \in T
  <2>1. SUFFICES ASSUME k + 1 < n PROVE W(k + 1) = s[n - (k + 1)]
    OBVIOUS
  <2>2. W(k) = s[n - k] /\ n - k \in 1 .. n /\ n - k # 1 /\ (n - k) - 1 = n - (k + 1)
    BY <1>1, <1>4, <2>1
  <2>3. s[n - k] # NULL /\ l.pred[s[n - k]] = s[n - (k + 1)]
    BY <1>1, <2>2
  <2>4. W(k + 1) = Follow(l.pred, s[n - k])
    BY <1>2, <2>2
  <2> QED BY <2>3, <2>4 DEF Follow
<1> HIDE DEF T
<1>5. \A k \in Nat : k \in T
  BY <1>3, <1>4, SetInduction
<1>6. ASSUME NEW x \in 1 .. n PROVE W(n - x) = s[x]
  <2>1. n - x \in Nat /\ n - x < n /\ n - (n - x) = x
    BY <1>1
  <2> QED BY <1>5, <2>1 DEF T
<1> QED BY <1>6 DEF W, n
-----------------------------------------------------------------------------
(***************************************************************************)
(* The invariant.                                                          *)
(***************************************************************************)

\* Sequence s is what the list holds; the items outside it are where the
\* callers left them.
Holds(s) ==
  /\ s \in Seq(Items) /\ Linked(list, s)
  /\ where \in [Items -> {"free", "out", "in"}]
  /\ \A i \in Items : where[i] = "in" <=> ~Absent(i, s)
  /\ list.current \in Pointer /\ (list.current # NULL => ~Absent(list.current, s))
  /\ \A i \in Items : where[i] = "out" => Unlinked(list, i)

ListInv == Holds(Contents)

\* The sequence that a list holds is the one met by following it.
LEMMA HoldsContents ==
  ASSUME NEW s, Holds(s)
  PROVE  Contents = s /\ ListInv
<1>1. s \in Seq(Items) /\ Linked(list, s)
  BY DEF Holds
<1>2. Contents = s
  BY <1>1, ForwardWalk DEF Contents
<1> QED BY <1>2 DEF ListInv

LEMMA HoldsContentsPrime ==
  ASSUME NEW s, s \in Seq(Items), Linked(list', s),
         where' \in [Items -> {"free", "out", "in"}],
         \A i \in Items : where'[i] = "in" <=> ~Absent(i, s),
         list'.current \in Pointer, list'.current # NULL => ~Absent(list'.current, s),
         \A i \in Items : where'[i] = "out" => Unlinked(list', i)
  PROVE  Contents' = s /\ ListInv'
<1>1. Contents' = s
  BY ForwardWalk DEF Contents
<1> QED BY <1>1 DEF ListInv, Holds

\* An item is in the new sequence when it was in the old one or was inserted.
LEMMA InsertedAbsent ==
  ASSUME NEW s \in Seq(Items), NEW x \in 1 .. Len(s) + 1, NEW new \in Items, NEW i
  PROVE  Absent(i, InsertAt(s, x, new)) <=> i # new /\ Absent(i, s)
<1> DEFINE t == InsertAt(s, x, new)
<1>1. /\ t \in Seq(Items) /\ Len(t) = Len(s) + 1
      /\ \A y \in 1 .. Len(s) + 1 : t[y] = IF y < x THEN s[y] ELSE IF y = x THEN new ELSE s[y - 1]
  BY InsertAtElements
<1> HIDE DEF t
<1>2. DOMAIN t = 1 .. Len(s) + 1 /\ DOMAIN s = 1 .. Len(s) /\ Len(s) \in Nat
  BY <1>1
<1>3. ASSUME NEW y \in 1 .. Len(s) + 1, i # new, Absent(i, s) PROVE t[y] # i
  <2>1. CASE y < x
    BY <1>1, <1>2, <1>3, <2>1 DEF Absent
  <2>2. CASE y = x
    BY <1>1, <1>3, <2>2
  <2>3. CASE y > x
    <3>1. y - 1 \in 1 .. Len(s)
      BY <1>2, <2>3
    <3> QED BY <1>1, <1>2, <1>3, <2>3, <3>1 DEF Absent
  <2> QED BY <2>1, <2>2, <2>3
<1>4. t[x] = new
  BY <1>1
<1>5. ASSUME NEW y \in 1 .. Len(s) PROVE \E z \in 1 .. Len(s) + 1 : t[z] = s[y]
  <2>1. CASE y < x
    BY <1>1, <1>2, <2>1
  <2>2. CASE y >= x
    <3>1. y + 1 \in 1 .. Len(s) + 1 /\ t[y + 1] = s[y]
      BY <1>1, <1>2, <2>2
    <3> QED BY <3>1
  <2> QED BY <2>1, <2>2
<1>6. i # new /\ Absent(i, s) => Absent(i, t)
  BY <1>2, <1>3 DEF Absent
<1>7. Absent(i, t) => i # new /\ Absent(i, s)
  BY <1>2, <1>4, <1>5 DEF Absent
<1> QED BY <1>6, <1>7 DEF t

\* An item is in the new sequence when it was in the old one and is another
\* one than the one that was taken out.
LEMMA RemovedAbsent ==
  ASSUME NEW s \in Seq(Items), NEW x \in 1 .. Len(s), NEW i,
         \A v, w \in 1 .. Len(s) : s[v] = s[w] => v = w
  PROVE  Absent(i, RemoveAt(s, x)) <=> i = s[x] \/ Absent(i, s)
<1> DEFINE t == RemoveAt(s, x)
<1>1. /\ t \in Seq(Items) /\ Len(t) = Len(s) - 1
      /\ \A y \in 1 .. Len(s) - 1 : t[y] = IF y < x THEN s[y] ELSE s[y + 1]
  BY RemoveAtElements
<1> HIDE DEF t
<1>2. DOMAIN t = 1 .. Len(s) - 1 /\ DOMAIN s = 1 .. Len(s) /\ Len(s) \in Nat
  BY <1>1
<1>3. ASSUME NEW y \in 1 .. Len(s) - 1 PROVE \E z \in 1 .. Len(s) : z # x /\ t[y] = s[z]
  <2>1. CASE y < x
    <3>1. y \in 1 .. Len(s) /\ t[y] = s[y]
      BY <1>1, <1>2, <2>1
    <3> QED BY <2>1, <3>1
  <2>2. CASE y >= x
    <3>1. y + 1 \in 1 .. Len(s) /\ y + 1 # x /\ t[y] = s[y + 1]
      BY <1>1, <1>2, <2>2
    <3> QED BY <3>1
  <2> QED BY <2>1, <2>2
<1>4. ASSUME NEW z \in 1 .. Len(s), z # x PROVE \E y \in 1 .. Len(s) - 1 : t[y] = s[z]
  <2>1. CASE z < x
    <3>1. z \in 1 .. Len(s) - 1 /\ t[z] = s[z]
      BY <1>1, <1>2, <2>1
    <3> QED BY <3>1
  <2>2. CASE z > x
    <3>1. z - 1 \in 1 .. Len(s) - 1 /\ t[z - 1] = s[z]
      BY <1>1, <1>2, <2>2
    <3> QED BY <3>1
  <2> QED BY <1>4, <2>1, <2>2
<1>5. i = s[x] \/ Absent(i, s) => Absent(i, t)
  BY <1>2, <1>3 DEF Absent
<1>6. Absent(i, t) => i = s[x] \/ Absent(i, s)
  BY <1>2, <1>4 DEF Absent
<1> QED BY <1>5, <1>6 DEF t

\* job_create, gap_create, limit_create and their opposites leave the list alone.
LEMMA CreateStep ==
  ASSUME ListInv, NEW i \in Items, CreateItem(i)
  PROVE  ListInv' /\ Contents' = Contents /\ list'.current = list.current
<1> DEFINE s == Contents
<1>1. Holds(s)
  BY DEF ListInv
<1> HIDE DEF s
<1>2. /\ s \in Seq(Items) /\ Linked(list, s) /\ list \in ListType
      /\ where \in [Items -> {"free", "out", "in"}]
  BY <1>1 DEF Holds, Linked
<1>3. Absent(i, s)
  BY <1>1 DEF Holds, CreateItem
<1>4. /\ list' \in ListType /\ list'.succ = [list.succ EXCEPT ![i] = NULL]
      /\ list'.pred = [list.pred EXCEPT ![i] = NULL] /\ list'.current = list.current
      /\ list'.num_items = list.num_items /\ list'.first = list.first /\ list'.last = list.last
  <2> DEFINE m == [list EXCEPT !.succ[i] = NULL]
  <2>1. list' = [m EXCEPT !.pred[i] = NULL]
    BY <1>2 DEF CreateItem, ListType
  <2>2. /\ m \in ListType /\ m.succ = [list.succ EXCEPT ![i] = NULL] /\ m.pred = list.pred
        /\ m.current = list.current /\ m.num_items = list.num_items /\ m.first = list.first
        /\ m.last = list.last
    BY <1>2 DEF ListType, Pointer
  <2> HIDE DEF m
  <2> QED BY <2>1, <2>2 DEF ListType, Pointer
<1>5. Linked(list', s)
  <2>1. \A x \in DOMAIN s : list'.pred[s[x]] = list.pred[s[x]] /\ list'.succ[s[x]] = list.succ[s[x]]
    BY <1>2, <1>3, <1>4 DEF Absent, ListType
  <2> QED BY <1>2, <1>4, <2>1, ZenonT(60) DEF Linked
<1>6. where' = [where EXCEPT ![i] = "out"] /\ where[i] = "free"
  BY DEF CreateItem
<1>7. \A k \in Items : where'[k] = "in" <=> ~Absent(k, s)
  BY <1>1, <1>2, <1>6 DEF Holds
<1>8. \A k \in Items : where'[k] = "out" => Unlinked(list', k)
  <2>1. ASSUME NEW k \in Items, where'[k] = "out" PROVE Unlinked(list', k)
    <3>1. CASE k = i
      BY <1>2, <1>4, <3>1 DEF Unlinked, ListType
    <3>2. CASE k # i
      <4>1. where[k] = "out"
        BY <1>2, <1>6, <2>1, <3>2
      <4> QED BY <1>1, <1>2, <1>4, <3>2, <4>1 DEF Unlinked, Holds, ListType
    <3> QED BY <3>1, <3>2
  <2> QED BY <2>1
<1>9. /\ where' \in [Items -> {"free", "out", "in"}]
      /\ list'.current \in Pointer /\ (list'.current # NULL => ~Absent(list'.current, s))
  BY <1>1, <1>2, <1>4, <1>6 DEF Holds
<1> QED BY <1>2, <1>4, <1>5, <1>7, <1>8, <1>9, HoldsContentsPrime DEF s

LEMMA FreeStep ==
  ASSUME ListInv, NEW i \in Items, FreeItem(i)
  PROVE  ListInv' /\ Contents' = Contents /\ list' = list
<1> DEFINE s == Contents
<1>1. Holds(s)
  BY DEF ListInv
<1> HIDE DEF s
<1>2. list' = list /\ where' = [where EXCEPT ![i] = "free"] /\ where[i] = "out"
  BY DEF FreeItem
<1>3. /\ where' \in [Items -> {"free", "out", "in"}]
      /\ \A k \in Items : where'[k] = "in" <=> ~Absent(k, s)
      /\ \A k \in Items : where'[k] = "out" => where[k] = "out"
  BY <1>1, <1>2 DEF Holds
<1> QED BY <1>1, <1>2, <1>3, HoldsContentsPrime DEF s, Holds

\* An item is added: at a position that the neighbour determines.
LEMMA AddStep ==
  ASSUME ListInv, NEW i \in Items, NEW x \in 1 .. Len(Contents) + 1, NEW l,
         AddItem(i, l), Linked(l, InsertAt(Contents, x, i)), l.current = i,
         SameOutside(list, l, Contents, i)
  PROVE  ListInv' /\ Contents' = InsertAt(Contents, x, i)
<1> DEFINE s == Contents
           t == InsertAt(s, x, i)
<1>1. Holds(s) /\ s \in Seq(Items)
  BY DEF ListInv, Holds
<1>2. \A k : Absent(k, t) <=> k # i /\ Absent(k, s)
  BY <1>1, InsertedAbsent
<1>3. list' = l /\ where' = [where EXCEPT ![i] = "in"] /\ where[i] = "out"
  BY DEF AddItem
<1>4. Linked(l, t) /\ SameOutside(list, l, s, i)
  OBVIOUS
<1>5. t \in Seq(Items)
  BY DEF Linked
<1> HIDE DEF s, t
<1>6. /\ where' \in [Items -> {"free", "out", "in"}]
      /\ \A k \in Items : where'[k] = "in" <=> ~Absent(k, t)
  BY <1>1, <1>2, <1>3 DEF Holds
<1>7. \A k \in Items : where'[k] = "out" => Unlinked(list', k)
  <2>1. ASSUME NEW k \in Items, where'[k] = "out" PROVE Unlinked(list', k)
    <3>1. k # i /\ where[k] = "out"
      BY <1>1, <1>3, <2>1 DEF Holds
    <3>2. Absent(k, s) /\ Unlinked(list, k)
      BY <1>1, <3>1 DEF Holds
    <3> QED BY <1>3, <1>4, <3>1, <3>2 DEF SameOutside, Unlinked
  <2> QED BY <2>1
<1>8. list'.current \in Pointer /\ ~Absent(list'.current, t)
  BY <1>2, <1>3 DEF Pointer
<1> QED BY <1>3, <1>4, <1>5, <1>6, <1>7, <1>8, HoldsContentsPrime DEF t, s

\* What the callers pass: the item is in no list and has no links, the
\* neighbour is in the list.
LEMMA Arguments ==
  ASSUME ListInv
  PROVE  /\ Contents \in Seq(Items) /\ Linked(list, Contents)
         /\ \A i \in Items : where[i] = "out" => Absent(i, Contents) /\ Unlinked(list, i)
         /\ \A p \in In \cup {NULL} : p \in Pointer /\ (p = NULL \/ ~Absent(p, Contents))
  BY DEF ListInv, Holds, In, Pointer

\* Where list_add_infrontof puts an item.
InFrontAt(s, p, x) == IF p = NULL THEN x = 1 ELSE x <= Len(s) /\ s[x] = p

LEMMA AddInFrontStep ==
  ASSUME ListInv, NEW i \in Items, NEW p \in In \cup {NULL}, AddInFrontOf(i, p)
  PROVE  /\ ListInv' /\ where[i] = "out" /\ list'.current = i
         /\ \E x \in 1 .. Len(Contents) + 1 :
              Contents' = InsertAt(Contents, x, i) /\ InFrontAt(Contents, p, x)
<1> DEFINE s == Contents
           l == list_add_infrontof(list, p, i)
<1>1. AddItem(i, l)
  BY DEF AddInFrontOf
<1>2. where[i] = "out" /\ list' = l
  BY <1>1 DEF AddItem
<1>3. /\ s \in Seq(Items) /\ Linked(list, s) /\ Absent(i, s) /\ Unlinked(list, i)
      /\ p \in Pointer /\ (p = NULL \/ ~Absent(p, s))
  BY <1>2, Arguments
<1>4. \E x \in 1 .. Len(s) + 1 :
        /\ Linked(l, InsertAt(s, x, i)) /\ l.current = i /\ SameOutside(list, l, s, i)
        /\ InFrontAt(s, p, x)
  <2> HIDE DEF s
  <2> QED BY <1>3, AddInFrontLinked DEF InFrontAt
<1>5. PICK x \in 1 .. Len(s) + 1 :
        /\ Linked(l, InsertAt(s, x, i)) /\ l.current = i /\ SameOutside(list, l, s, i)
        /\ InFrontAt(s, p, x)
  BY <1>4
<1>6. ListInv' /\ Contents' = InsertAt(Contents, x, i)
  <2> HIDE DEF l
  <2> QED BY <1>1, <1>5, AddStep
<1> QED BY <1>2, <1>5, <1>6

\* Where list_add_inbackof puts an item.
InBackAt(s, p, x) == IF p = NULL THEN x = Len(s) + 1 ELSE x > 1 /\ s[x - 1] = p

LEMMA AddInBackStep ==
  ASSUME ListInv, NEW i \in Items, NEW p \in In \cup {NULL}, AddInBackOf(i, p)
  PROVE  /\ ListInv' /\ where[i] = "out" /\ list'.current = i
         /\ \E x \in 1 .. Len(Contents) + 1 :
              Contents' = InsertAt(Contents, x, i) /\ InBackAt(Contents, p, x)
<1> DEFINE s == Contents
           l == list_add_inbackof(list, p, i)
<1>1. AddItem(i, l)
  BY DEF AddInBackOf
<1>2. where[i] = "out" /\ list' = l
  BY <1>1 DEF AddItem
<1>3. /\ s \in Seq(Items) /\ Linked(list, s) /\ Absent(i, s) /\ Unlinked(list, i)
      /\ p \in Pointer /\ (p = NULL \/ ~Absent(p, s))
  BY <1>2, Arguments
<1>4. \E x \in 1 .. Len(s) + 1 :
        /\ Linked(l, InsertAt(s, x, i)) /\ l.current = i /\ SameOutside(list, l, s, i)
        /\ InBackAt(s, p, x)
  <2> HIDE DEF s
  <2> QED BY <1>3, AddInBackLinked DEF InBackAt
<1>5. PICK x \in 1 .. Len(s) + 1 :
        /\ Linked(l, InsertAt(s, x, i)) /\ l.current = i /\ SameOutside(list, l, s, i)
        /\ InBackAt(s, p, x)
  BY <1>4
<1>6. ListInv' /\ Contents' = InsertAt(Contents, x, i)
  <2> HIDE DEF l
  <2> QED BY <1>1, <1>5, AddStep
<1> QED BY <1>2, <1>5, <1>6

LEMMA RemoveStep ==
  ASSUME ListInv, NEW i \in Items, NEW set_free \in BOOLEAN, RemoveItem(i, set_free)
  PROVE  /\ ListInv' /\ list'.current = NULL
         /\ where' = [where EXCEPT ![i] = IF set_free THEN "free" ELSE "out"]
         /\ \E x \in 1 .. Len(Contents) : Contents[x] = i /\ Contents' = RemoveAt(Contents, x)
<1> DEFINE s == Contents
<1>1. Holds(s) /\ s \in Seq(Items) /\ Linked(list, s) /\ where \in [Items -> {"free", "out", "in"}]
  BY DEF ListInv, Holds
<1> HIDE DEF s
<1>2. /\ where[i] = "in" /\ where' = [where EXCEPT ![i] = IF set_free THEN "free" ELSE "out"]
      /\ list' = list_remove_item(list, i, set_free)
  BY DEF RemoveItem
<1>3. /\ DOMAIN s = 1 .. Len(s)
      /\ \A v, w \in 1 .. Len(s) : s[v] = s[w] => v = w
  BY <1>1, LinkedPositions
<1>4. PICK x \in 1 .. Len(s) : s[x] = i
  <2>1. ~Absent(i, s)
    BY <1>1, <1>2 DEF Holds
  <2> QED BY <1>3, <2>1 DEF Absent
<1> DEFINE t == RemoveAt(s, x)
<1>5. /\ Linked(list', t) /\ list'.current = NULL /\ SameOutside(list, list', s, NULL)
      /\ ~set_free => Unlinked(list', i)
  BY <1>1, <1>2, <1>4, RemoveLinked DEF Unlinked
<1>6. \A k : Absent(k, t) <=> k = i \/ Absent(k, s)
  BY <1>1, <1>3, <1>4, RemovedAbsent
<1> HIDE DEF t
<1>7. t \in Seq(Items)
  BY <1>5 DEF Linked
<1>8. /\ where' \in [Items -> {"free", "out", "in"}]
      /\ \A k \in Items : where'[k] = "in" <=> ~Absent(k, t)
  BY <1>1, <1>2, <1>6 DEF Holds
<1>9. \A k \in Items : where'[k] = "out" => Unlinked(list', k)
  <2>1. ASSUME NEW k \in Items, where'[k] = "out" PROVE Unlinked(list', k)
    <3>1. CASE k = i
      BY <1>1, <1>2, <1>5, <2>1, <3>1
    <3>2. CASE k # i
      <4>1. where[k] = "out"
        BY <1>1, <1>2, <2>1, <3>2
      <4>2. Absent(k, s) /\ Unlinked(list, k) /\ k # NULL
        BY <1>1, <4>1, NullAssumption DEF Holds
      <4> QED BY <1>5, <4>2 DEF SameOutside, Unlinked
    <3> QED BY <3>1, <3>2
  <2> QED BY <2>1
<1>10. list'.current \in Pointer
  BY <1>5 DEF Pointer
<1>11. ListInv' /\ Contents' = t
  BY <1>5, <1>7, <1>8, <1>9, <1>10, HoldsContentsPrime
<1> QED BY <1>2, <1>4, <1>5, <1>11 DEF s, t

LEMMA MoveStep ==
  ASSUME ListInv, NEW i \in Items, NEW p \in In \cup {NULL}, MoveItem(i, p)
  PROVE  /\ ListInv' /\ list'.current = i /\ where' = where
         /\ \E x, y \in 1 .. Len(Contents) :
              LET others == RemoveAt(Contents, x)
              IN /\ Contents[x] = i /\ Contents' = InsertAt(others, y, i)
                 /\ IF p = NULL THEN y = 1 ELSE y > 1 /\ others[y - 1] = p
<1> DEFINE s == Contents
<1>1. Holds(s) /\ s \in Seq(Items) /\ Linked(list, s) /\ where \in [Items -> {"free", "out", "in"}]
  BY DEF ListInv, Holds
<1>2. p \in Pointer /\ (p = NULL \/ ~Absent(p, s))
  BY Arguments
<1> HIDE DEF s
<1>3. where[i] = "in" /\ where' = where /\ p # i /\ list' = list_move_item(list, i, p)
  BY DEF MoveItem
<1>4. /\ DOMAIN s = 1 .. Len(s)
      /\ \A v, w \in 1 .. Len(s) : s[v] = s[w] => v = w
  BY <1>1, LinkedPositions
<1>5. PICK x \in 1 .. Len(s) : s[x] = i
  <2>1. ~Absent(i, s)
    BY <1>1, <1>3 DEF Holds
  <2> QED BY <1>4, <2>1 DEF Absent
<1> DEFINE others == RemoveAt(s, x)
           t(y) == InsertAt(others, y, i)
           At(y) == IF p = NULL THEN y = 1 ELSE y > 1 /\ others[y - 1] = p
<1>6. PICK y \in 1 .. Len(s) :
        Linked(list', t(y)) /\ list'.current = i /\ SameOutside(list, list', s, NULL) /\ At(y)
  BY <1>1, <1>2, <1>3, <1>5, MoveLinked
<1>7. others \in Seq(Items) /\ Len(others) = Len(s) - 1
  BY <1>1, RemoveAtElements
<1>8. \A k : Absent(k, others) <=> k = i \/ Absent(k, s)
  BY <1>1, <1>4, <1>5, RemovedAbsent
<1> HIDE DEF others
<1>9. \A k : Absent(k, t(y)) <=> k # i /\ Absent(k, others)
  <2>1. y \in 1 .. Len(others) + 1
    BY <1>7
  <2> QED BY <1>7, <2>1, InsertedAbsent
<1>10. ~Absent(i, s)
  BY <1>4, <1>5 DEF Absent
<1>11. \A k : Absent(k, t(y)) <=> Absent(k, s)
  BY <1>8, <1>9, <1>10
<1> HIDE DEF t
<1>12. t(y) \in Seq(Items)
  BY <1>6 DEF Linked
<1>13. /\ where' \in [Items -> {"free", "out", "in"}]
       /\ \A k \in Items : where'[k] = "in" <=> ~Absent(k, t(y))
  BY <1>1, <1>3, <1>11 DEF Holds
<1>14. \A k \in Items : where'[k] = "out" => Unlinked(list', k)
  <2>1. ASSUME NEW k \in Items, where[k] = "out" PROVE Unlinked(list', k)
    <3>1. Absent(k, s) /\ Unlinked(list, k) /\ k # NULL
      BY <1>1, <2>1, NullAssumption DEF Holds
    <3> QED BY <1>6, <3>1 DEF SameOutside, Unlinked
  <2> QED BY <1>3, <2>1
<1>15. list'.current \in Pointer /\ ~Absent(list'.current, t(y))
  BY <1>6, <1>10, <1>11 DEF Pointer
<1>16. ListInv' /\ Contents' = t(y)
  BY <1>6, <1>12, <1>13, <1>14, <1>15, HoldsContentsPrime
<1> QED BY <1>3, <1>5, <1>6, <1>16 DEF s, t, others

\* A step that only moves the cursor, to an item of the list or to NULL.
LEMMA CursorStep ==
  ASSUME ListInv, NEW q, q = NULL \/ \E x \in 1 .. Len(Contents) : q = Contents[x],
         list' = [list EXCEPT !.current = q], UNCHANGED where
  PROVE  ListInv' /\ Contents' = Contents /\ list'.current = q
<1> DEFINE s == Contents
<1>1. Holds(s) /\ s \in Seq(Items) /\ Linked(list, s) /\ list \in ListType
  BY DEF ListInv, Holds, Linked
<1>2. q = NULL \/ \E x \in 1 .. Len(s) : q = s[x]
  OBVIOUS
<1> HIDE DEF s
<1>3. q \in Pointer /\ (q # NULL => ~Absent(q, s))
  <2>1. DOMAIN s = 1 .. Len(s) /\ \A x \in 1 .. Len(s) : s[x] \in Items
    BY <1>1
  <2> QED BY <1>2, <2>1 DEF Pointer, Absent
<1>4. /\ list' \in ListType /\ list'.succ = list.succ /\ list'.pred = list.pred
      /\ list'.first = list.first /\ list'.last = list.last /\ list'.num_items = list.num_items
      /\ list'.current = q
  BY <1>1, <1>3 DEF ListType
<1>5. Linked(list', s)
  BY <1>1, <1>4, ZenonT(60) DEF Linked
<1>6. \A k \in Items : where'[k] = "out" => Unlinked(list', k)
  BY <1>1, <1>4 DEF Holds, Unlinked
<1>7. /\ where' \in [Items -> {"free", "out", "in"}]
      /\ \A k \in Items : where'[k] = "in" <=> ~Absent(k, s)
  BY <1>1 DEF Holds
<1> QED BY <1>1, <1>3, <1>4, <1>5, <1>6, <1>7, HoldsContentsPrime DEF s

\* list_get_next finds the item behind the current one.
LEMMA GetNextStep ==
  ASSUME ListInv, GetNext
  PROVE  /\ ListInv' /\ Contents' = Contents /\ where' = where
         /\ \E x \in 0 .. Len(Contents) :
              /\ IF list.current = NULL THEN x = 0 ELSE x > 0 /\ Contents[x] = list.current
              /\ list'.current = IF x = Len(Contents) THEN NULL ELSE Contents[x + 1]
<1> DEFINE s == Contents
           q == IF list.current = NULL THEN list.first ELSE get_successor(list, list.current)
<1>1. Holds(s) /\ s \in Seq(Items) /\ Linked(list, s) /\ list \in ListType
  BY DEF ListInv, Holds, Linked
<1>2. list' = [list EXCEPT !.current = q] /\ where' = where
  BY DEF GetNext, list_get_next
<1>3. \E x \in 0 .. Len(s) :
        /\ IF list.current = NULL THEN x = 0 ELSE x > 0 /\ s[x] = list.current
        /\ q = IF x = Len(s) THEN NULL ELSE s[x + 1]
  <2> HIDE DEF s
  <2>1. CASE list.current = NULL
    <3>1. list.first = IF s = <<>> THEN NULL ELSE s[1]
      BY <1>1 DEF Linked
    <3>2. 0 \in 0 .. Len(s) /\ (s = <<>> <=> 0 = Len(s)) /\ 0 + 1 = 1
      BY <1>1
    <3> QED BY <2>1, <3>1, <3>2
  <2>2. CASE list.current # NULL
    <3>1. DOMAIN s = 1 .. Len(s) /\ ~Absent(list.current, s)
      BY <1>1, <2>2 DEF Holds
    <3>2. PICK x \in 1 .. Len(s) : s[x] = list.current
      BY <3>1 DEF Absent
    <3>3. list.succ[s[x]] = IF x = Len(s) THEN NULL ELSE s[x + 1]
      BY <1>1, LinkedPositions
    <3>4. x \in 0 .. Len(s) /\ x > 0
      BY <1>1
    <3> QED BY <2>2, <3>2, <3>3, <3>4 DEF get_successor
  <2> QED BY <2>1, <2>2
<1> HIDE DEF q
<1>4. q = NULL \/ \E x \in 1 .. Len(s) : q = s[x]
  <2> HIDE DEF s
  <2>1. PICK x \in 0 .. Len(s) : q = IF x = Len(s) THEN NULL ELSE s[x + 1]
    BY <1>3
  <2>2. x # Len(s) => x + 1 \in 1 .. Len(s)
    BY <1>1
  <2> QED BY <2>1, <2>2
<1>5. ListInv' /\ Contents' = Contents /\ list'.current = q
  BY <1>2, <1>4, CursorStep
<1> QED BY <1>2, <1>3, <1>5

\* list_get_item finds the item at the position, from whichever end it walks.
LEMMA GetItemStep ==
  ASSUME ListInv, NEW position \in Nat, GetItem(position)
  PROVE  /\ ListInv' /\ Contents' = Contents /\ where' = where
         /\ list'.current = IF position < Len(Contents) THEN Contents[position + 1] ELSE list.current
         /\ list.num_items = Len(Contents)
<1> DEFINE s == Contents
           q == IF list.num_items \div 2 < position
                THEN Steps(list.pred, list.last, list.num_items - position - 1)
                ELSE Steps(list.succ, list.first, position)
<1>1. /\ Holds(s) /\ s \in Seq(Items) /\ Linked(list, s) /\ list \in ListType
      /\ list.num_items = Len(s)
  BY DEF ListInv, Holds, Linked
<1>2. list' = list_get_item(list, position) /\ where' = where
  BY DEF GetItem
<1>3. CASE list.num_items <= position
  <2>1. list' = list
    BY <1>2, <1>3 DEF list_get_item
  <2>2. Contents' = Contents
    BY <2>1 DEF Contents
  <2>3. ListInv'
    BY <1>1, <1>2, <2>1, <2>2 DEF ListInv, Holds
  <2>4. ~(position < Len(s))
    BY <1>1, <1>3
  <2> QED BY <1>1, <1>2, <2>1, <2>2, <2>3, <2>4
<1>4. CASE ~(list.num_items <= position)
  <2>1. list' = [list EXCEPT !.current = q]
    BY <1>2, <1>4 DEF list_get_item
  <2> DEFINE x == position + 1
  <2>2. /\ x \in 1 .. Len(s) /\ list.num_items - position - 1 = Len(s) - x /\ x - 1 = position
        /\ position < Len(s)
    BY <1>1, <1>4
  <2>3. q = s[x]
    <3> HIDE DEF s, x
    <3> QED BY <1>1, <2>2, ForwardWalk, BackwardWalk
  <2> HIDE DEF q
  <2>4. ListInv' /\ Contents' = Contents /\ list'.current = q
    BY <1>2, <2>1, <2>2, <2>3, CursorStep
  <2> QED BY <1>1, <1>2, <2>2, <2>3, <2>4
<1> QED BY <1>3, <1>4

LEMMA RewindStep ==
  ASSUME ListInv, Rewind
  PROVE  ListInv' /\ Contents' = Contents /\ where' = where /\ list'.current = NULL
<1>1. list' = [list EXCEPT !.current = NULL] /\ where' = where
  BY DEF Rewind
<1> QED BY <1>1, CursorStep

\* The positions that callers may ask for.
LEMMA PositionType ==
  ASSUME ListInv, NEW position \in 0 .. list.num_items
  PROVE  position \in Nat
<1>1. list.num_items \in Nat
  BY DEF ListInv, Holds, Linked, ListType
<1> QED BY <1>1

LEMMA StutterStep ==
  ASSUME ListInv, UNCHANGED vars
  PROVE  ListInv' /\ Contents' = Contents
<1>1. list' = list /\ where' = where
  BY DEF vars
<1>2. Contents' = Contents
  BY <1>1 DEF Contents
<1> QED BY <1>1, <1>2 DEF ListInv, Holds

LEMMA ListInductive == Spec => []ListInv
<1>1. Init => ListInv
  <2>1. SUFFICES ASSUME Init PROVE Holds(<<>>)
    BY HoldsContents
  <2>2. /\ list \in ListType /\ list.num_items = 0 /\ list.first = NULL /\ list.last = NULL
        /\ list.current = NULL
    BY <2>1 DEF Init, list_create, ListType, Pointer
  <2>3. <<>> \in Seq(Items) /\ Len(<<>>) = 0 /\ DOMAIN <<>> = {}
    OBVIOUS
  <2>4. Linked(list, <<>>)
    BY <2>2, <2>3 DEF Linked
  <2>5. where = [i \in Items |-> "free"]
    BY <2>1 DEF Init
  <2>6. \A i : Absent(i, <<>>)
    BY <2>3 DEF Absent
  <2> QED BY <2>2, <2>3, <2>4, <2>5, <2>6 DEF Holds, Pointer
<1>2. ListInv /\ [Next]_vars => ListInv'
  <2> SUFFICES ASSUME ListInv, [Next]_vars PROVE ListInv'
    OBVIOUS
  <2>1. ASSUME NEW i \in Items, CreateItem(i) PROVE ListInv'
    BY <2>1, CreateStep
  <2>2. ASSUME NEW i \in Items, FreeItem(i) PROVE ListInv'
    BY <2>2, FreeStep
  <2>3. ASSUME NEW i \in Items, NEW p \in In \cup {NULL}, AddInFrontOf(i, p) PROVE ListInv'
    BY <2>3, AddInFrontStep
  <2>4. ASSUME NEW i \in Items, NEW p \in In \cup {NULL}, AddInBackOf(i, p) PROVE ListInv'
    BY <2>4, AddInBackStep
  <2>5. ASSUME NEW i \in Items, NEW p \in In \cup {NULL}, MoveItem(i, p) PROVE ListInv'
    BY <2>5, MoveStep
  <2>6. ASSUME NEW i \in Items, NEW set_free \in BOOLEAN, RemoveItem(i, set_free) PROVE ListInv'
    BY <2>6, RemoveStep
  <2>7. CASE Rewind
    BY <2>7, RewindStep
  <2>8. CASE GetNext
    BY <2>8, GetNextStep
  <2>9. ASSUME NEW position \in 0 .. list.num_items, GetItem(position) PROVE ListInv'
    BY <2>9, PositionType, GetItemStep
  <2>10. CASE UNCHANGED vars
    BY <2>10, StutterStep
  <2> QED
    BY <2>1, <2>2, <2>3, <2>4, <2>5, <2>6, <2>7, <2>8, <2>9, <2>10 DEF Next
<1> QED BY <1>1, <1>2, PTL DEF Spec

\* After any series of calls, on any set of items, the forward links, the
\* backward links, the ends and the count describe one sequence, the cursor is
\* at one of its items, and what is outside has no links.
THEOREM WellLinkedAlways == Spec => []WellLinked
<1>1. ListInv => WellLinked
  <2> SUFFICES ASSUME ListInv PROVE WellLinked
    OBVIOUS
  <2> DEFINE s == Contents
  <2>1. Holds(s)
    BY DEF ListInv
  <2> HIDE DEF s
  <2>2. Represents(s)
    <3>1. \A i \in Items : where[i] = "in" <=> \E x \in DOMAIN s : s[x] = i
      BY <2>1 DEF Holds, Absent
    <3> QED BY <2>1, <3>1, Zenon DEF Holds, Linked, Represents
  <2>3. list.current \in In \cup {NULL}
    BY <2>1 DEF Holds, In, Pointer
  <2>4. \A i \in Items : where[i] = "out" => list.succ[i] = NULL /\ list.pred[i] = NULL
    BY <2>1 DEF Holds, Unlinked
  <2> QED BY <2>2, <2>3, <2>4 DEF WellLinked, s
<1> QED BY <1>1, ListInductive, PTL

\* Every item is added or moved to the place the caller names, with the others
\* in their old order, and the cursor goes to the item that was asked for.
THEOREM DoneAsAskedAlways == Spec => DoneAsAsked
<1> DEFINE Done ==
      /\ \A i \in Items, p \in In \cup {NULL} :
           /\ AddInFrontOf(i, p) =>
                \E x \in 1 .. Len(Contents) + 1 :
                  /\ Contents' = InsertAt(Contents, x, i)
                  /\ IF p = NULL THEN x = 1 ELSE x <= Len(Contents) /\ Contents[x] = p
           /\ AddInBackOf(i, p) =>
                \E x \in 1 .. Len(Contents) + 1 :
                  /\ Contents' = InsertAt(Contents, x, i)
                  /\ IF p = NULL THEN x = Len(Contents) + 1 ELSE x > 1 /\ Contents[x - 1] = p
           /\ MoveItem(i, p) =>
                \E x, y \in 1 .. Len(Contents) :
                  LET others == RemoveAt(Contents, x)
                  IN /\ Contents[x] = i /\ Contents' = InsertAt(others, y, i)
                     /\ IF p = NULL THEN y = 1 ELSE y > 1 /\ others[y - 1] = p
      /\ GetNext =>
           \E x \in 0 .. Len(Contents) :
             /\ IF list.current = NULL THEN x = 0 ELSE x > 0 /\ Contents[x] = list.current
             /\ list'.current = IF x = Len(Contents) THEN NULL ELSE Contents[x + 1]
      /\ \A position \in 0 .. list.num_items - 1 :
           GetItem(position) => list'.current = Contents[position + 1]
<1>1. ListInv => Done
  <2> SUFFICES ASSUME ListInv PROVE Done
    OBVIOUS
  <2>1. ASSUME NEW i \in Items, NEW p \in In \cup {NULL}, AddInFrontOf(i, p)
        PROVE  \E x \in 1 .. Len(Contents) + 1 :
                 /\ Contents' = InsertAt(Contents, x, i)
                 /\ IF p = NULL THEN x = 1 ELSE x <= Len(Contents) /\ Contents[x] = p
    BY <2>1, AddInFrontStep DEF InFrontAt
  <2>2. ASSUME NEW i \in Items, NEW p \in In \cup {NULL}, AddInBackOf(i, p)
        PROVE  \E x \in 1 .. Len(Contents) + 1 :
                 /\ Contents' = InsertAt(Contents, x, i)
                 /\ IF p = NULL THEN x = Len(Contents) + 1 ELSE x > 1 /\ Contents[x - 1] = p
    BY <2>2, AddInBackStep DEF InBackAt
  <2>3. ASSUME NEW position \in 0 .. list.num_items - 1, GetItem(position)
        PROVE  list'.current = Contents[position + 1]
    <3>1. list.num_items \in Nat
      BY DEF ListInv, Holds, Linked, ListType
    <3>2. position \in Nat /\ position < list.num_items
      BY <3>1
    <3> QED BY <2>3, <3>2, GetItemStep
  <2> QED BY <2>1, <2>2, <2>3, MoveStep, GetNextStep
<1>2. ListInv /\ [Next]_vars => [Done]_vars
  BY <1>1
<1> HIDE DEF Done
<1>3. Spec => [][Done]_vars
  BY <1>2, ListInductive, PTL DEF Spec
<1> QED BY <1>3 DEF DoneAsAsked, Done
-----------------------------------------------------------------------------
(***************************************************************************)
(* The refinement.                                                         *)
(***************************************************************************)

\* The pointer operations implement the list that the callers rely on: every
\* step of the pointers is a step of the sequence and its cursor.
THEOREM ListImplemented == Spec => ImplementsList
<1> DEFINE spare == {i \in Items : where[i] = "out"}
           specVars == <<Contents, list.current, spare>>
<1>1. Init /\ ListInv => Abstract!SpecInit
  <2> SUFFICES ASSUME Init, ListInv PROVE Abstract!SpecInit
    OBVIOUS
  <2>1. list.num_items = 0 /\ list.current = NULL /\ spare = {}
    BY DEF Init, list_create
  <2>2. Contents \in Seq(Items) /\ Len(Contents) = 0
    BY <2>1 DEF ListInv, Holds, Linked
  <2>3. Contents = <<>>
    <3> HIDE DEF spare, specVars
    <3> QED BY <2>2
  <2> QED BY <2>1, <2>3 DEF Abstract!SpecInit
<1>2. ListInv /\ [Next]_vars => [Abstract!SpecNext]_specVars
  <2> SUFFICES ASSUME ListInv, [Next]_vars PROVE Abstract!SpecNext \/ UNCHANGED specVars
    OBVIOUS
  <2>i. \A s, x, e : Abstract!InsertAt(s, x, e) = InsertAt(s, x, e)
    BY Zenon DEF InsertAt, Abstract!InsertAt
  <2>r. \A s, x : Abstract!RemoveAt(s, x) = RemoveAt(s, x)
    BY Zenon DEF RemoveAt, Abstract!RemoveAt
  <2>1. Contents \in Seq(Items) /\ DOMAIN Contents = 1 .. Len(Contents) /\ Len(Contents) \in Nat
    BY DEF ListInv, Holds
  <2>2. where \in [Items -> {"free", "out", "in"}]
    BY DEF ListInv, Holds
  <2>3. ASSUME NEW i \in Items, CreateItem(i) PROVE Abstract!Create(i)
    <3>1. Contents' = Contents /\ list'.current = list.current
      BY <2>3, CreateStep
    <3>2. where[i] = "free" /\ where' = [where EXCEPT ![i] = "out"]
      BY <2>3 DEF CreateItem
    <3>3. spare' = spare \cup {i}
      BY <2>2, <3>2
    <3>4. \A x \in DOMAIN Contents : Contents[x] # i
      BY <3>2 DEF ListInv, Holds, Absent
    <3> QED BY <3>1, <3>3, <3>4 DEF Abstract!Create
  <2>4. ASSUME NEW i \in Items, FreeItem(i) PROVE Abstract!Discard(i)
    <3>1. Contents' = Contents /\ list' = list
      BY <2>4, FreeStep
    <3>2. where[i] = "out" /\ where' = [where EXCEPT ![i] = "free"]
      BY <2>4 DEF FreeItem
    <3>3. spare' = spare \ {i}
      BY <2>2, <3>2
    <3> QED BY <3>1, <3>3 DEF Abstract!Discard
  <2>5. ASSUME NEW i \in Items, where[i] = "out", where' = [where EXCEPT ![i] = "in"],
               list'.current = i, NEW x \in 1 .. Len(Contents) + 1,
               Contents' = InsertAt(Contents, x, i)
        PROVE  Abstract!Add(x, i)
    <3>1. i \in spare /\ spare' = spare \ {i}
      BY <2>2, <2>5
    <3> QED BY <2>i, <2>5, <3>1, Zenon DEF Abstract!Add
  <2>6. ASSUME NEW i \in Items, NEW p \in In \cup {NULL}, AddInFrontOf(i, p)
        PROVE  \E x \in 1 .. Len(Contents) + 1 : Abstract!Add(x, i)
    <3>1. where' = [where EXCEPT ![i] = "in"]
      BY <2>6 DEF AddInFrontOf, AddItem
    <3> QED BY <2>5, <2>6, <3>1, AddInFrontStep
  <2>7. ASSUME NEW i \in Items, NEW p \in In \cup {NULL}, AddInBackOf(i, p)
        PROVE  \E x \in 1 .. Len(Contents) + 1 : Abstract!Add(x, i)
    <3>1. where' = [where EXCEPT ![i] = "in"]
      BY <2>7 DEF AddInBackOf, AddItem
    <3> QED BY <2>5, <2>7, <3>1, AddInBackStep
  <2>8. ASSUME NEW i \in Items, NEW p \in In \cup {NULL}, MoveItem(i, p)
        PROVE  \E x, y \in DOMAIN Contents : Abstract!Move(x, y)
    <3>1. where' = where /\ list'.current = i
      BY <2>8, MoveStep
    <3>2. PICK x \in 1 .. Len(Contents), y \in 1 .. Len(Contents) :
            Contents[x] = i /\ Contents' = InsertAt(RemoveAt(Contents, x), y, i)
      BY <2>8, MoveStep
    <3>3. Abstract!Move(x, y)
      BY <2>i, <2>r, <3>1, <3>2, Zenon DEF Abstract!Move
    <3> QED BY <2>1, <3>3
  <2>9. ASSUME NEW i \in Items, NEW set_free \in BOOLEAN, RemoveItem(i, set_free)
        PROVE  \E x \in DOMAIN Contents, kept \in BOOLEAN : Abstract!Take(x, kept)
    <3>1. PICK x \in 1 .. Len(Contents) : Contents[x] = i /\ Contents' = RemoveAt(Contents, x)
      BY <2>9, RemoveStep
    <3>2. list'.current = NULL /\ where' = [where EXCEPT ![i] = IF set_free THEN "free" ELSE "out"]
      BY <2>9, RemoveStep
    <3>3. where[i] = "in"
      BY <2>9 DEF RemoveItem
    <3>4. spare' = IF ~set_free THEN spare \cup {i} ELSE spare
      BY <2>2, <3>2, <3>3
    <3>5. Abstract!Take(x, ~set_free)
      BY <2>r, <3>1, <3>2, <3>4, Zenon DEF Abstract!Take
    <3> QED BY <2>1, <3>5
  <2>10. ASSUME Rewind PROVE \E x \in 0 .. Len(Contents) : Abstract!Seek(x)
    <3>1. 0 \in 0 .. Len(Contents) /\ 0 \notin DOMAIN Contents
      BY <2>1
    <3>2. Abstract!Seek(0)
      BY <2>10, <3>1, RewindStep DEF Abstract!Seek, Abstract!ItemAt
    <3> QED BY <3>1, <3>2
  <2>11. ASSUME GetNext PROVE Abstract!Advance
    <3>1. PICK x \in 0 .. Len(Contents) :
            /\ IF list.current = NULL THEN x = 0 ELSE x > 0 /\ Contents[x] = list.current
            /\ list'.current = IF x = Len(Contents) THEN NULL ELSE Contents[x + 1]
      BY <2>11, GetNextStep
    <3>2. Contents' = Contents /\ where' = where
      BY <2>11, GetNextStep
    <3>n. ASSUME NEW n \in Nat, NEW y \in 0 .. n
          PROVE  (y + 1 \in 1 .. n <=> y # n) /\ (y > 0 => y \in 1 .. n)
      OBVIOUS
    <3>3. /\ x + 1 \in DOMAIN Contents <=> x # Len(Contents)
          /\ x > 0 => x \in DOMAIN Contents
      BY <2>1, <3>n, Zenon
    <3>4. Abstract!Seek(x + 1)
      BY <3>1, <3>2, <3>3 DEF Abstract!Seek, Abstract!ItemAt
    <3>5. CASE list.current = NULL
      BY <3>1, <3>4, <3>5 DEF Abstract!Advance
    <3>6. CASE list.current # NULL
      <4>1. x \in DOMAIN Contents /\ Contents[x] = list.current
        BY <3>1, <3>3, <3>6, Zenon
      <4> QED BY <3>4, <3>6, <4>1 DEF Abstract!Advance
    <3> QED BY <3>5, <3>6
  <2>12. ASSUME NEW position \in 0 .. list.num_items, GetItem(position)
         PROVE  (\E x \in 0 .. Len(Contents) : Abstract!Seek(x)) \/ UNCHANGED specVars
    <3>1. /\ position \in Nat /\ Contents' = Contents /\ where' = where
          /\ list'.current = IF position < Len(Contents) THEN Contents[position + 1] ELSE list.current
      BY <2>12, PositionType, GetItemStep
    <3>2. CASE position < Len(Contents)
      <4>1. position + 1 \in DOMAIN Contents /\ position + 1 \in 0 .. Len(Contents)
        BY <2>1, <3>1, <3>2
      <4>2. Abstract!Seek(position + 1)
        BY <3>1, <3>2, <4>1 DEF Abstract!Seek, Abstract!ItemAt
      <4> QED BY <4>1, <4>2
    <3>3. CASE ~(position < Len(Contents))
      BY <3>1, <3>3
    <3> QED BY <3>2, <3>3
  <2>13. CASE UNCHANGED vars
    <3>1. Contents' = Contents /\ list' = list /\ where' = where
      BY <2>13, StutterStep DEF vars
    <3> QED BY <3>1
  <2> HIDE DEF specVars
  <2> QED
    BY <2>3, <2>4, <2>6, <2>7, <2>8, <2>9, <2>10, <2>11, <2>12, <2>13 DEF Next, Abstract!SpecNext
<1>3. ListInv /\ [Next]_vars => [Abstract!SpecNext]_(Abstract!specVars)
  BY <1>2 DEF Abstract!specVars
<1> QED
  BY <1>1, <1>3, ListInductive, PTL DEF Spec, ImplementsList, Abstract!ListSpec

=============================================================================
