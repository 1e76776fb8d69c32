--------------------------- MODULE EquipInventory ---------------------------
(***************************************************************************)
(* The equip inventory of one character as the service means it: every     *)
(* command takes the inventory's lock, runs in one database transaction    *)
(* and publishes its events, as one step.  InventoryService models the     *)
(* same commands interleaved.                                              *)
(***************************************************************************)
EXTENDS EquipTable

CONSTANTS CommandSlots,  \* the slots equip, unequip and drop commands name
          MoveSlots,     \* the slots move commands name
          MaxQuantity,   \* bound: equipables asked for by one create request
          MaxId          \* bound: equipable rows ever inserted

\* No command names the slot the service parks rows in.
ASSUME CommandAssumption ==
  /\ CommandSlots \subseteq Int \ {Temp} /\ MoveSlots \subseteq Int \ {Temp}
  /\ MaxQuantity \in Nat /\ MaxId \in Nat

VARIABLES equipables,    \* the rows, by id
          nextId,        \* the id sequence of the table
          last           \* the last command, how it ended, what it published

outcome == <<equipables, last>>
vars == <<outcome, nextId>>

Added(item, slot) == [type |-> "ADD", item |-> item, slot |-> slot]
Removed(item, slot) == [type |-> "REMOVE", item |-> item, slot |-> slot]
MovedTo(item, old, slot) ==
  [type |-> "MOVE", item |-> item, oldSlot |-> old, slot |-> slot]

\* What a reader of the log and of the event topic learns of a command.
Reports(op, source, result, events) ==
  last' = [op |-> op, source |-> source, result |-> result, events |-> events]

\* An error inside the transaction: rolled back, logged, nothing published.
RollsBack(op, source, result) ==
  Reports(op, source, result, <<>>) /\ UNCHANGED <<equipables, nextId>>

Init == /\ equipables = <<>>
        /\ nextId = 1
        /\ last = [op |-> "none", source |-> 0, result |-> "ok", events |-> <<>>]

\* CreateItem through CreateAsset: one row per unit, each in the next free
\* slot, unless the statistics service refuses one of them or the transaction
\* fails.  The ids that were given out by then are not given back.
InsertsEquipables(item, n) ==
  \E slots \in [1 .. n -> 1 .. Cardinality(DOMAIN equipables) + n] :
    /\ \A k \in 1 .. n :
         slots[k] \in FreeSlots(WithRows(equipables, nextId, item, slots, k - 1))
    /\ equipables' = WithRows(equipables, nextId, item, slots, n)
    /\ Reports("create", 0, "ok", [k \in 1 .. n |-> Added(item, slots[k])])

CreateItem(item, quantity) ==
  LET n == IF quantity = 0 THEN 1 ELSE quantity IN
  /\ nextId + n - 1 <= MaxId
  /\ \/ InsertsEquipables(item, n) /\ nextId' = nextId + n
     \/ /\ \E taken \in 0 .. n : nextId' = nextId + taken
        /\ UNCHANGED equipables
        /\ Reports("create", 0, "refused", <<>>) \/ UNCHANGED last

\* The worn slot an item competes with: an overall with the bottom, a bottom
\* with an overall in the top slot; NoRival for every other item.
NoRival == 0
RivalOfOverallOnly(item) == IF item \in Overalls THEN Bottom ELSE NoRival

Rival(item) == IF item \in Overalls THEN Bottom
               ELSE IF Destination(item) = Bottom THEN Top ELSE NoRival

\* Only an overall gives way to a bottom; a bottom always gives way.
AlwaysGivesWay(t, rival) == TRUE

GivesWay(t, rival) == rival = Bottom \/ ItemAt(t, rival) \in Overalls

\* The events of an exchange: one MOVE, and only if the source row is still
\* there once the destination is parked.  The other two moves are silent.
ExchangeEventsWithParking(t, s, d) ==
  (IF Occupied(t, d) THEN <<MovedTo(ItemAt(t, d), d, Temp)>> ELSE <<>>)
  \o IF Occupied(MoveSlot(t, d, Temp), s) THEN <<MovedTo(ItemAt(t, s), s, d)>> ELSE <<>>

ExchangeEvents(t, s, d) ==
  IF Occupied(MoveSlot(t, d, Temp), s) THEN <<MovedTo(ItemAt(t, s), s, d)>> ELSE <<>>

\* EquipItemForCharacter after the item and its destination are known.  The
\* free slot is computed on the exchanged rows whether it is needed or not; a
\* rival slot with no row in it is an error and undoes the whole command.
Equips(source, item) ==
  LET dest == Destination(item)
      worn == Swap(equipables, source, dest)
      moves == ExchangeEvents(equipables, source, dest)
      rival == Rival(item)
  IN \E free \in FreeSlots(worn) :
       \/ /\ rival # NoRival /\ ~Occupied(worn, rival)
          /\ RollsBack("equip", source, "no rival")
       \/ /\ rival = NoRival \/ (Occupied(worn, rival) /\ ~GivesWay(worn, rival))
          /\ equipables' = worn
          /\ Reports("equip", source, "ok", moves)
          /\ UNCHANGED nextId
       \/ /\ rival # NoRival /\ Occupied(worn, rival) /\ GivesWay(worn, rival)
          /\ equipables' = MoveSlot(worn, rival, free)
          /\ Reports("equip", source, "ok",
                     Append(moves, MovedTo(ItemAt(worn, rival), rival, free)))
          /\ UNCHANGED nextId

EquipItemForCharacter(source) ==
  \/ /\ ~Occupied(equipables, source)
     /\ RollsBack("equip", source, "absent")
  \/ /\ Occupied(equipables, source)        \* information or statistics fails
     /\ RollsBack("equip", source, "unknown destination")
  \/ /\ Occupied(equipables, source)
     /\ Equips(source, ItemAt(equipables, source))

\* The free slot is computed whether there is a row to put in it or not.
UnequipItemForCharacter(source) ==
  \E free \in FreeSlots(equipables) :
    \/ /\ ~Occupied(equipables, source)
       /\ RollsBack("unequip", source, "absent")
    \/ /\ Occupied(equipables, source)
       /\ equipables' = MoveSlot(equipables, source, free)
       /\ Reports("unequip", source, "ok",
                  <<MovedTo(ItemAt(equipables, source), source, free)>>)
       /\ UNCHANGED nextId

\* No step of the exchange is checked: a move never fails.
moveEquip(source, destination) ==
  /\ equipables' = Swap(equipables, source, destination)
  /\ Reports("move", source, "ok", ExchangeEvents(equipables, source, destination))
  /\ UNCHANGED nextId

dropEquip(source) ==
  \/ /\ ~Occupied(equipables, source)
     /\ RollsBack("drop", source, "absent")
  \/ /\ Occupied(equipables, source)
     /\ equipables' = Without(equipables, RowAt(equipables, source))
     /\ Reports("drop", source, "ok", <<Removed(ItemAt(equipables, source), source)>>)
     /\ UNCHANGED nextId

Next == \/ \E item \in Items, quantity \in 0 .. MaxQuantity : CreateItem(item, quantity)
        \/ \E source \in CommandSlots : \/ EquipItemForCharacter(source)
                                        \/ UnequipItemForCharacter(source)
                                        \/ dropEquip(source)
        \/ \E source, destination \in MoveSlots : moveEquip(source, destination)

Spec == Init /\ [][Next]_vars

-----------------------------------------------------------------------------
\* The rows are finitely many, known by ids the sequence has given out, and
\* each is an item of the catalogue in some slot.
TypeOK == /\ nextId \in Nat \ {0}
          /\ DOMAIN equipables \subseteq 1 .. nextId - 1
          /\ equipables \in [DOMAIN equipables -> [item : Items, slot : Int]]
          /\ last.op \in {"none", "create", "equip", "unequip", "move", "drop"}
          /\ last.source \in Int

\* No two rows of an inventory share a slot, though no index of the database
\* says so (the unique tags of inventory/entity.go are not gorm tags).
SlotsUnique == \A r, q \in DOMAIN equipables :
                 equipables[r].slot = equipables[q].slot => r = q

\* No command leaves a row in the slot the exchange parks rows in, where no
\* later command would find it.
NoneParked == ~Occupied(equipables, Temp)

\* The rows outside the bag that are not in the one slot their item is listed
\* for; for an unlisted item there is none.
Astray(t) == {r \in DOMAIN t :
                /\ t[r].slot <= 0
                /\ t[r].item \in Unlisted \/ t[r].slot # Destination(t[r].item)}

\* A row goes astray only by a move command, which may name any slot
\* (consumer.go:79, processor.go:593), by an equip of an unlisted item, which
\* puts it in slot 0 instead of failing (equipment/processor.go:64), or in the
\* place of a row that was astray already and is now equipped.
StraysOnlyByMove ==
  [][\A r \in Astray(equipables') \ Astray(equipables) :
       \/ last'.op = "move"
       \/ /\ last'.op = "equip" /\ equipables[r].slot = last'.source
          /\ equipables[r].item \in Unlisted /\ equipables'[r].slot = 0
       \/ /\ last'.op = "equip" /\ equipables'[r].slot = last'.source
          /\ \E q \in Astray(equipables) : equipables[q].slot = last'.source]_outcome

\* An overall and a bottom, each in its slot.
OverallMeetsBottom(t) ==
  \E r, q \in DOMAIN t : /\ t[r].slot = Top /\ t[r].item \in Overalls
                         /\ t[q].slot = Bottom /\ Destination(t[q].item) = Bottom

\* Whatever was moved before, a completed equip of an overall or a bottom parts
\* the two (processor.go:326-344); and they come together only by a move
\* command, or by equipping a row that was astray in one of their slots and
\* gives its place to what it displaces.
MeetsOnlyByMove ==
  [][OverallMeetsBottom(equipables') =>
       \/ last'.op = "move"
       \/ /\ last'.op = "equip" /\ last'.source \in {Top, Bottom}
          /\ \E r \in Astray(equipables) : /\ equipables[r].slot = last'.source
                                           /\ Rival(equipables[r].item) = NoRival
       \/ /\ OverallMeetsBottom(equipables)
          /\ last'.op = "equip" /\ last'.result = "ok" =>
               \E r \in DOMAIN equipables : /\ equipables[r].slot = last'.source
                                            /\ Rival(equipables[r].item) = NoRival]_outcome

\* A completed equip ends with the named item in its own slot, although an
\* exchange and the unequip of a rival came after it was found.  Another row
\* is moved only to give up that slot, or to the bag as the rival: whatever is
\* in the bottom slot after an overall was put on, an overall that is in the
\* top slot after a bottom was.
EquipPutsOn ==
  [][last'.op = "equip" /\ last'.result = "ok" =>
       LET item == ItemAt(equipables, last'.source) IN
       \A r \in DOMAIN equipables :
         LET was == equipables[r].slot
             is == equipables'[r].slot
         IN \/ was = last'.source /\ is = Destination(item)
            \/ was # last'.source /\ is = was
            \/ was = Destination(item) /\ is = last'.source
            \/ /\ is > 0
               /\ \/ was = Rival(item)
                  \/ was = Destination(item) /\ last'.source = Rival(item)
               /\ item \in Overalls \/ equipables[r].item \in Overalls]_outcome

\* "Item is an overall, we also need to unequip the bottom" (processor.go:327),
\* and an overall is taken off for a bottom (336): the two are not worn
\* together.
OverallExcludesBottom == ~OverallMeetsBottom(equipables)

\* A bottom needs "to unequip an overall if its in the top slot"
\* (processor.go:336): with no row in the top slot there is nothing to take
\* off, and the command is not undone for it.
BottomNeedsNoTop ==
  [][last'.op = "equip" /\ last'.result = "no rival" =>
       \/ ItemAt(equipables, last'.source) \in Overalls
       \/ Occupied(equipables, Top)]_outcome
=============================================================================
