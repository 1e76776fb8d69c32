------------------------------ MODULE MCDelete ------------------------------
(* A deletion beside two goroutines. *)
EXTENDS InventoryDelete

CONSTANTS top, h1, h2

ASSUME OneDeletion

MCSlotOf == [item \in Items |-> Top]
MCCommandSlots == {1, Top}

\* What the future of a state depends on.  Of a goroutine's locals: its command
\* until the exchange, the item and the free slot until they are written.
Locals(h) == CASE pc[h] \in {"locate", "find", "exchange"} -> cmd[h]
               [] pc[h] = "free" -> <<cmd[h].op, cmd[h].item, cmd[h].quantity>>
               [] pc[h] \in {"insert", "rival"} -> <<cmd[h].item, cmd[h].quantity, slot[h]>>
               [] pc[h] = "unequip" -> slot[h]
               [] OTHER -> pc[h]
FutureView ==
  <<table, inventory, seq, born, memory, pc, sel, writes, dvars,
    [h \in Handlers |-> Locals(h)]>>
=============================================================================
