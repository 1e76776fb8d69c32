----------------------------- MODULE EquipTable -----------------------------
(***************************************************************************)
(* The catalogue of equipables, and the rows of the table "equipables":    *)
(* records [item, slot].  Slot 0 is in neither view of an inventory        *)
(* (equipable.FilterOutInventory, FilterOutEquipment).                     *)
(***************************************************************************)
EXTENDS SlotTable

CONSTANTS Items,       \* the equipable item ids in play
          Overalls,    \* those whose id is 105xxxx
          Cash,        \* those the statistics service marks as cash
          Unlisted,    \* those with an empty list of equipment slots
          SlotOf       \* the first equipment slot listed for each item

Top == -5              \* slot.PositionTop and slot.PositionOverall
Bottom == -6           \* slot.PositionBottom

\* Where equipment.GetEquipmentDestination sends an item.  An item without a
\* listed slot gets ErrorProvider(nil): the zero value and no error.
Destination(item) == IF item \in Unlisted THEN 0
                     ELSE IF item \in Cash THEN SlotOf[item] - 100
                     ELSE SlotOf[item]

\* The item catalogue lists real positions (never 0, never the parking slot),
\* and no overall is listed for the bottom position.
ASSUME CatalogAssumption ==
  /\ Overalls \subseteq Items /\ Cash \subseteq Items /\ Unlisted \subseteq Items
  /\ SlotOf \in [Items -> Int \ {0}]
  /\ \A item \in Items : Destination(item) # Temp
  /\ \A item \in Items \ Unlisted : Destination(item) # 0
  /\ \A item \in Overalls : Destination(item) # Bottom

WithRowsOffByOne(t, id, item, slots, n) ==
  [r \in DOMAIN t \cup id + 1 .. id + n |->
     IF r \in DOMAIN t THEN t[r] ELSE [item |-> item, slot |-> slots[r - id]]]

\* n rows of the same item inserted from id on, in the given slots.
WithRows(t, id, item, slots, n) ==
  [r \in DOMAIN t \cup id .. id + n - 1 |->
     IF r \in DOMAIN t THEN t[r] ELSE [item |-> item, slot |-> slots[r - id + 1]]]
=============================================================================
