---------------------------- MODULE PlanListSpec ----------------------------
(***************************************************************************)
(* What the callers of plan_list_operations.cpp rely on: a plan_list is a  *)
(* sequence of different items with one cursor, list->current.  Adding an  *)
(* item moves the cursor to it, removing one resets the cursor.            *)
(***************************************************************************)
EXTENDS Naturals, SequencesExt

CONSTANTS Items, NULL

VARIABLES
  items,     \* the items of the list in order
  cursor,    \* the current item, NULL before the first
  spare      \* items that exist and are in no list

specVars == <<items, cursor, spare>>

SpecInit == items = <<>> /\ cursor = NULL /\ spare = {}

\* The item at position x, NULL outside the list.
ItemAt(x) == IF x \in DOMAIN items THEN items[x] ELSE NULL

\* The items are the callers' to allocate and to free.
Create(i) ==
  /\ \A x \in DOMAIN items : items[x] # i
  /\ spare' = spare \cup {i}
  /\ UNCHANGED <<items, cursor>>

Discard(i) == spare' = spare \ {i} /\ UNCHANGED <<items, cursor>>

\* A spare item becomes the one at position x.
Add(x, i) ==
  /\ i \in spare
  /\ items' = InsertAt(items, x, i) /\ cursor' = i /\ spare' = spare \ {i}

\* A removed item is kept by the caller or freed.
Take(x, kept) ==
  /\ items' = RemoveAt(items, x) /\ cursor' = NULL
  /\ spare' = IF kept THEN spare \cup {items[x]} ELSE spare

\* The item at position x becomes the one at position y.
Move(x, y) ==
  /\ items' = InsertAt(RemoveAt(items, x), y, items[x]) /\ cursor' = items[x]
  /\ UNCHANGED spare

\* The cursor goes to a position of the list or is reset.
Seek(x) == cursor' = ItemAt(x) /\ UNCHANGED <<items, spare>>

\* The cursor goes one item on; behind the last item it is reset.
Advance ==
  IF cursor = NULL THEN Seek(1)
  ELSE \E x \in DOMAIN items : items[x] = cursor /\ Seek(x + 1)

SpecNext ==
  \/ \E i \in Items : Create(i) \/ Discard(i)
  \/ \E x \in 1 .. Len(items) + 1, i \in Items : Add(x, i)
  \/ \E x \in DOMAIN items, kept \in BOOLEAN : Take(x, kept)
  \/ \E x, y \in DOMAIN items : Move(x, y)
  \/ \E x \in 0 .. Len(items) : Seek(x)
  \/ Advance

ListSpec == SpecInit /\ [][SpecNext]_specVars
=============================================================================
