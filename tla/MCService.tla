----------------------------- MODULE MCService ------------------------------
(* Two goroutines and no deletion of the character. *)
EXTENDS InventoryService

CONSTANTS overall, bottom, h1, h2

MCSlotOf == [item \in Items |-> IF item = bottom THEN Bottom ELSE Top]
MCCommandSlots == {1, Top, Bottom}
BagSlots == {1, 2}

\* What the future of a state depends on: not the last command that ended, nor
\* the locals of a goroutine that has only to publish, nor the picture of a
\* consumer that was not told of some change.
Done(h) == pc[h] \in {"publish", "unlock"}
FutureView ==
  <<table, inventory, seq, born, memory, pc, sel, events, writes, missed,
    [h \in Handlers |-> IF Done(h) THEN <<>> ELSE <<cmd[h], slot[h]>>],
    IF missed THEN <<>> ELSE screen>>
=============================================================================
