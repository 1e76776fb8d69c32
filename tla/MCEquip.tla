------------------------------ MODULE MCEquip -------------------------------
(***************************************************************************)
(* A top, a bottom and an overall, the items that compete for slots, and   *)
(* in one run a cash item and an item without a listed slot.               *)
(***************************************************************************)
EXTENDS EquipEvents

CONSTANTS top, bottom, overall, hat, toy

MCSlotOf == [item \in Items |-> CASE item = bottom -> Bottom
                                  [] item = hat -> -1
                                  [] OTHER -> Top]

MCCommandSlots == {0, 1, 2, 3, Top, Bottom, -101}
BagSlots == {1, 2, 3}
AllSlots == {0, 1, 2, 3, Top, Bottom, -101}

\* No action reads last: states that differ in it alone have the same future.
RowsView == <<equipables, nextId>>
=============================================================================
