------------------------------ MODULE PlanList ------------------------------
(***************************************************************************)
(* plan_list_operations.cpp: the doubly linked list that holds the         *)
(* plan_jobs, the gaps and the limits of a cluster, at the level of its    *)
(* pointers.  Every operation is a function from lists to lists; the       *)
(* actions call them with the arguments that callers may pass.             *)
(*                                                                         *)
(* list_append, list_swap_item, list_repleace_item, list_remove,           *)
(* list_get_last, list_get_previous and list_adjust_job_position have no   *)
(* caller and are left out.  Allocations succeed.                          *)
(***************************************************************************)
EXTENDS Naturals, SequencesExt

CONSTANTS
  Items,     \* the plan_jobs, gaps or limits that may exist
  NULL

ASSUME NullAssumption == NULL \notin Items

Pointer == Items \cup {NULL}

VARIABLES
  list,      \* the plan_list and the successor and predeccessor of every item
  where      \* "free": not allocated, "out": in no list, "in": in the list

vars == <<list, where>>

list_create ==
  [succ |-> [i \in Items |-> NULL], pred |-> [i \in Items |-> NULL],
   first |-> NULL, last |-> NULL, current |-> NULL, num_items |-> 0]

Init == list = list_create /\ where = [i \in Items |-> "free"]
-----------------------------------------------------------------------------
get_successor(l, i)   == IF i = NULL THEN NULL ELSE l.succ[i]
get_predeccessor(l, i) == IF i = NULL THEN NULL ELSE l.pred[i]

set_successor(l, i, p)   == IF i = NULL THEN l ELSE [l EXCEPT !.succ[i] = p]
set_predeccessor(l, i, p) == IF i = NULL THEN l ELSE [l EXCEPT !.pred[i] = p]

\* One more item, which is the current one.
Counted(l, new) == [l EXCEPT !.num_items = @ + 1, !.current = new]

\* Mutant of LinkInFront: the old item keeps its predeccessor.
LinkInFrontOneWay(l, next, new) ==
  LET before == get_predeccessor(l, next)
      l1 == IF before # NULL THEN set_successor(l, before, new) ELSE [l EXCEPT !.first = new]
      l2 == set_predeccessor(set_successor(l1, new, next), new, before)
  IN Counted(l2, new)

\* list_add_infrontof with an item to stand before.
LinkInFront(l, next, new) ==
  LET before == get_predeccessor(l, next)
      l1 == IF before # NULL THEN set_successor(l, before, new) ELSE [l EXCEPT !.first = new]
      l2 == set_predeccessor(set_successor(l1, new, next), new, before)
  IN Counted(set_predeccessor(l2, next, new), new)

\* list_add_inbackof with an item to stand behind.
LinkInBack(l, previous, new) ==
  LET behind == get_successor(l, previous)
      l1 == IF behind # NULL THEN set_predeccessor(l, behind, new) ELSE [l EXCEPT !.last = new]
      l2 == set_predeccessor(set_successor(l1, new, behind), new, previous)
  IN Counted(set_successor(l2, previous, new), new)

\* Mutant of Single: the item does not become the current one.
SingleNotCurrent(l, new) == [l EXCEPT !.first = new, !.last = new, !.num_items = @ + 1]

\* The first item of an empty list: its links are left as they are.
Single(l, new) == Counted([l EXCEPT !.first = new, !.last = new], new)

list_add_begin(l, new) == IF l.num_items = 0 THEN Single(l, new) ELSE LinkInFront(l, l.first, new)
list_add_end(l, new)   == IF l.num_items = 0 THEN Single(l, new) ELSE LinkInBack(l, l.last, new)

\* Mutant of list_add_infrontof: the wrong side.
list_add_behind(l, next, new) ==
  IF next = NULL THEN list_add_begin(l, new) ELSE LinkInBack(l, next, new)

list_add_infrontof(l, next, new) ==
  IF next = NULL THEN list_add_begin(l, new) ELSE LinkInFront(l, next, new)

list_add_inbackof(l, previous, new) ==
  IF previous = NULL THEN list_add_end(l, new) ELSE LinkInBack(l, previous, new)

\* A freed item keeps its links, one that is only taken out has none.
list_remove_item(l, i, set_free) ==
  LET before == get_predeccessor(l, i)
      behind == get_successor(l, i)
      l1 == IF before # NULL THEN set_successor(l, before, behind)
            ELSE [set_predeccessor(l, behind, NULL) EXCEPT !.first = behind]
      l2 == IF behind # NULL THEN set_predeccessor(l1, behind, before)
            ELSE [set_successor(l1, before, NULL) EXCEPT !.last = before]
      l3 == [l2 EXCEPT !.num_items = @ - 1, !.current = NULL]
  IN IF set_free THEN l3 ELSE set_predeccessor(set_successor(l3, i, NULL), i, NULL)

list_move_item(l, i, predeccessor) ==
  LET without == list_remove_item(l, i, FALSE)
  IN IF predeccessor # NULL THEN list_add_inbackof(without, predeccessor, i)
     ELSE list_add_infrontof(without, without.first, i)

list_get_next(l) ==
  [l EXCEPT !.current = IF @ = NULL THEN l.first ELSE get_successor(l, @)]

\* n steps from item i, along the successors or the predeccessors.
Steps(links, i, n) ==
  LET at[k \in 0 .. n] ==
        IF k = 0 THEN i ELSE IF at[k - 1] = NULL THEN NULL ELSE links[at[k - 1]]
  IN at[n]

\* Positions start at 0; the walk begins at the nearer end.
list_get_item(l, position) ==
  IF l.num_items <= position THEN l
  ELSE [l EXCEPT !.current =
          IF l.num_items \div 2 < position
          THEN Steps(l.pred, l.last, l.num_items - position - 1)
          ELSE Steps(l.succ, l.first, position)]
-----------------------------------------------------------------------------
(***************************************************************************)
(* The callers.  What is added exists and is in no list; what is moved,    *)
(* removed or named as a neighbour is in the list.                         *)
(***************************************************************************)

In == {i \in Items : where[i] = "in"}

\* job_create, gap_create, limit_create: the links are NULL.
CreateItem(i) ==
  /\ where[i] = "free"
  /\ where' = [where EXCEPT ![i] = "out"]
  /\ list' = [list EXCEPT !.succ[i] = NULL, !.pred[i] = NULL]

AddItem(i, l) ==
  /\ where[i] = "out"
  /\ where' = [where EXCEPT ![i] = "in"]
  /\ list' = l

AddInFrontOf(i, p) == AddItem(i, list_add_infrontof(list, p, i))

AddInBackOf(i, p) == AddItem(i, list_add_inbackof(list, p, i))

\* set_free is 0 in plan_optimization, which adds the job again.
RemoveItem(i, set_free) ==
  /\ where[i] = "in"
  /\ where' = [where EXCEPT ![i] = IF set_free THEN "free" ELSE "out"]
  /\ list' = list_remove_item(list, i, set_free)

\* free_job, free_gap, free_limit of an item that is in no list.
FreeItem(i) ==
  /\ where[i] = "out"
  /\ where' = [where EXCEPT ![i] = "free"]
  /\ UNCHANGED list

MoveItem(i, p) ==
  /\ where[i] = "in" /\ p # i
  /\ list' = list_move_item(list, i, p)
  /\ UNCHANGED where

\* The loops over a list: current = NULL, then list_get_next.
Rewind == list' = [list EXCEPT !.current = NULL] /\ UNCHANGED where

GetNext == list' = list_get_next(list) /\ UNCHANGED where

\* list_get_random_item chooses the position.
GetItem(position) == list' = list_get_item(list, position) /\ UNCHANGED where

Next ==
  \/ \E i \in Items : CreateItem(i) \/ FreeItem(i)
  \/ \E i \in Items, p \in In \cup {NULL} : AddInFrontOf(i, p) \/ AddInBackOf(i, p) \/ MoveItem(i, p)
  \/ \E i \in Items, set_free \in BOOLEAN : RemoveItem(i, set_free)
  \/ Rewind \/ GetNext
  \/ \E position \in 0 .. list.num_items : GetItem(position)

Spec == Init /\ [][Next]_vars
-----------------------------------------------------------------------------
(***************************************************************************)
(* Properties.                                                             *)
(***************************************************************************)

\* Types of the list and of the links of its items.
TypeOK ==
  /\ list \in [succ : [Items -> Pointer], pred : [Items -> Pointer], first : Pointer,
               last : Pointer, current : Pointer, num_items : Nat]
  /\ where \in [Items -> {"free", "out", "in"}]

\* Sequence s has the items of the list, linked in that order both ways.
Represents(s) ==
  /\ \A i \in Items : where[i] = "in" <=> \E x \in DOMAIN s : s[x] = i
  /\ \A x, y \in DOMAIN s : s[x] = s[y] => x = y
  /\ list.num_items = Len(s)
  /\ list.first = IF s = <<>> THEN NULL ELSE s[1]
  /\ list.last = IF s = <<>> THEN NULL ELSE s[Len(s)]
  /\ \A x \in DOMAIN s :
       /\ list.pred[s[x]] = IF x = 1 THEN NULL ELSE s[x - 1]
       /\ list.succ[s[x]] = IF x = Len(s) THEN NULL ELSE s[x + 1]

\* The items met when the list is followed from its first item.
Contents == [x \in 1 .. list.num_items |-> Steps(list.succ, list.first, x - 1)]

\* Forward links, backward links, first, last and the count describe one and
\* the same sequence after any series of operations, the cursor never leads
\* to an item outside the list, and an item outside it has no links that a
\* later list_add_begin or list_add_end to an empty list would bring in.
WellLinked ==
  /\ Represents(Contents)
  /\ list.current \in In \cup {NULL}
  /\ \A i \in Items : where[i] = "out" => list.succ[i] = NULL /\ list.pred[i] = NULL

\* An item that is added or moved next to another one stands there, with the
\* other items in their old order; without a neighbour it goes to the front,
\* with list_add_inbackof to the end.  list_get_next finds the item behind the
\* current one and list_get_item the one at the position that was asked for,
\* from whichever end it walks.
DoneAsAsked ==
  [][/\ \A i \in Items, p \in In \cup {NULL} :
          /\ AddInFrontOf(i, p) =>
               \E x \in 1 .. Len(Contents) + 1 :
                 /\ Contents' = InsertAt(Contents, x, i)
                 /\ IF p = NULL THEN x = 1 ELSE x <= Len(Contents) /\ Contents[x] = p
          /\ AddInBackOf(i, p) =>
               \E x \in 1 .. Len(Contents) + 1 :
                 /\ Contents' = InsertAt(Contents, x, i)
                 /\ IF p = NULL THEN x = Len(Contents) + 1 ELSE x > 1 /\ Contents[x - 1] = p
          /\ MoveItem(i, p) =>
               \E x, y \in 1 .. Len(Contents) :
                 LET others == RemoveAt(Contents, x)
                 IN /\ Contents[x] = i /\ Contents' = InsertAt(others, y, i)
                    /\ IF p = NULL THEN y = 1 ELSE y > 1 /\ others[y - 1] = p
     /\ GetNext =>
          \E x \in 0 .. Len(Contents) :
            /\ IF list.current = NULL THEN x = 0 ELSE x > 0 /\ Contents[x] = list.current
            /\ list'.current = IF x = Len(Contents) THEN NULL ELSE Contents[x + 1]
     /\ \A position \in 0 .. list.num_items - 1 :
          GetItem(position) => list'.current = Contents[position + 1]]_vars

\* The pointer operations implement the sequence that the callers rely on.
Abstract == INSTANCE PlanListSpec
  WITH items <- Contents, cursor <- list.current, spare <- {i \in Items : where[i] = "out"}

ImplementsList == Abstract!ListSpec
=============================================================================
