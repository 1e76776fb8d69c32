--------------------------- MODULE EquipmentView ---------------------------
(***************************************************************************)
(* How the rows of equipables become the character a client is shown: the  *)
(* bag, and the positions of the body with what is worn in each and the    *)
(* cash item worn over it (character.InventoryModelDecorator, FoldEquipable *)
(* and the REST models).  A row stands for itself: its item and statistics *)
(* are copied along and nothing here depends on them.                      *)
(***************************************************************************)
EXTENDS SlotTable, Functions

\* equipment/slot: the type of slot a request names, and its position.
PositionFromType ==
  [hat |-> -1, forehead |-> -2, eye |-> -3, earring |-> -4, top |-> -5,
   overall |-> -5, pants |-> -6, shoes |-> -7, gloves |-> -8, cape |-> -9,
   shield |-> -10, weapon |-> -11, ring1 |-> -12, ring2 |-> -13, ring3 |-> -15,
   ring4 |-> -16, pendant |-> -17, medal |-> -49, belt |-> -50, shoulder |-> 99]

\* equipment.NewModel: each position but the overall's, which is the top's.
Positions == Range(PositionFromType)

NoRow == 0   \* nil

\* Which rows of an inventory each query keeps; slot 0 is in neither.
InInventory(t) == {r \in DOMAIN t : t[r].slot > 0}

Equipment(t) == {r \in DOMAIN t : t[r].slot < 0}

\* Where FoldEquipable puts a row: a cash item is worn a hundred below.
PlaceTogether(slot) == <<"equipable", IF slot > -100 THEN slot ELSE slot + 100>>

Place(slot) == IF slot > -100 THEN <<"equipable", slot>>
               ELSE <<"cashEquipable", slot + 100>>

\* In a slot that is no position there is no setter to call: the fold panics.
Foldable(slot) == Place(slot)[2] \in Positions

\* The models of the equipment that the fold of these rows can end with: one
\* row in each place that has any, for the last one set stays.
FoldEquipable(t, rows) ==
  LET places == {Place(t[r].slot) : r \in rows} IN
  {e \in [places -> rows] : \A place \in places : Place(t[e[place]].slot) = place}

NoEquipment == <<>>

\* The answer: the bag, and each position with its two rows.
TransformSlot(e, position) ==
  LET at(kind) == IF <<kind, position>> \in DOMAIN e THEN e[<<kind, position>>] ELSE NoRow
  IN [equipable |-> at("equipable"), cashEquipable |-> at("cashEquipable")]

Transform(bag, e) ==
  [inventory |-> bag, equipment |-> [p \in Positions |-> TransformSlot(e, p)]]

\* What equipment.Delete goes through: the slots' Equipable.
EquipablesOf(e) == {e[place] : place \in {q \in DOMAIN e : q[1] = "equipable"}}
=============================================================================
