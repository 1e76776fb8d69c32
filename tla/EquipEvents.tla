----------------------------- MODULE EquipEvents ----------------------------
(***************************************************************************)
(* What the events of the equip inventory tell a consumer.                 *)
(***************************************************************************)
EXTENDS EquipInventory, EventReplay

Worn(row) == row.item

\* The events of a command account for everything it changed, so that a
\* consumer that has them all in order has the inventory.  The one exception
\* is a move from an empty slot: it brings the row at the destination to the
\* source and publishes nothing (processor.go:588-598).
EventsTellTheChange ==
  [][\/ Picture(equipables', Worn) = Replay(Picture(equipables, Worn), last'.events, Worn)
     \/ /\ last'.op = "move" /\ last'.events = <<>>
        /\ ~Occupied(equipables, last'.source)]_outcome
=============================================================================
