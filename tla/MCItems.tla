------------------------------ MODULE MCItems -------------------------------
(* Two items, stacks of at most three, and a word a request can wrap. *)
EXTENDS ItemInventory

CONSTANTS potion, scroll

NamedSlots == {1, 2, 4}
SlotsWithZero == {0, 1, 2}
Asked == {0, 2, 4, Word - 1}
Dropped == {-1, 0, 1, 2, 5}

\* No action reads last: states that differ in it alone have the same future.
RowsView == <<items, nextId>>
=============================================================================
