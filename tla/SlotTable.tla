----------------------------- MODULE SlotTable ------------------------------
(***************************************************************************)
(* The rows of one inventory and the statements executed on their slots,   *)
(* the same for the tables "equipables" and "items".  A table is a         *)
(* function from the ids of its live rows to records with a slot and an    *)
(* item; a positive slot is in the bag, a negative one is worn.            *)
(***************************************************************************)
EXTENDS Integers, FiniteSets, Sequences

Temp == -32768         \* inventory.temporarySlot

SlotsOf(t) == {t[r].slot : r \in DOMAIN t}

Occupied(t, s) == \E r \in DOMAIN t : t[r].slot = s

\* SELECT ... WHERE slot = s ... ORDER BY id LIMIT 1
RowAt(t, s) == CHOOSE r \in DOMAIN t :
                 t[r].slot = s /\ \A q \in DOMAIN t : t[q].slot = s => r <= q

ItemAt(t, s) == t[RowAt(t, s)].item

\* moveFromSlotToSlot: the row found at s is given slot d; nothing at s is an
\* error, which every caller here either ignores or checks beforehand.
MoveSlot(t, s, d) ==
  IF Occupied(t, s) THEN [t EXCEPT ![RowAt(t, s)].slot = d] ELSE t

\* The three moves that exchange source and destination through Temp.
SwapUnrestored(t, s, d) == MoveSlot(MoveSlot(t, d, Temp), s, d)

Swap(t, s, d) == MoveSlot(MoveSlot(MoveSlot(t, d, Temp), s, d), Temp, s)

\* What MinFreeSlot returns on the rows of t (module Slottable): a slot no row
\* has, such that every smaller positive slot has exactly one row.  With a
\* duplicate below the first gap the loop spins and there is no such slot.
FreeSlotsUnchecked(t) == 1 .. Cardinality(DOMAIN t) + 1

FreeSlots(t) ==
  {n \in 1 .. Cardinality(DOMAIN t) + 1 :
     /\ ~Occupied(t, n)
     /\ \A m \in 1 .. n - 1 :
          \E r \in DOMAIN t : /\ t[r].slot = m
                              /\ \A q \in DOMAIN t : t[q].slot = m => q = r}

Without(t, row) == [r \in DOMAIN t \ {row} |-> t[r]]
=============================================================================
