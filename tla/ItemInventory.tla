--------------------------- MODULE ItemInventory ----------------------------
(***************************************************************************)
(* One stackable inventory (use, setup, etc or cash) of a character: rows  *)
(* [item, slot, quantity] of the table "items", every command in one step. *)
(***************************************************************************)
EXTENDS EventReplay

CONSTANTS Items,         \* item ids of this inventory's type
          CommandSlots,  \* the slots commands name
          Quantities,    \* quantities asked for by create requests
          Drops,         \* quantities named by drop commands, an int16
          SlotMax,       \* the most a stack holds: 200 in the code
          Word,          \* 2^32: quantities are uint32
          MaxId          \* bound: rows ever inserted

ASSUME ItemAssumption ==
  /\ SlotMax \in Nat \ {0} /\ Word \in Nat /\ SlotMax < Word /\ MaxId \in Nat
  /\ Quantities \subseteq 0 .. Word - 1 /\ Drops \subseteq SlotMax - Word .. Word - 1
  /\ CommandSlots \subseteq Int \ {Temp}

VARIABLES items,         \* the rows, by id
          nextId,        \* the id sequence of the table
          last           \* the last command, how it ended, what it published

vars == <<items, nextId, last>>

Added(item, quantity, slot) ==
  [type |-> "ADD", item |-> item, quantity |-> quantity, slot |-> slot]
Updated(item, quantity, slot) ==
  [type |-> "UPDATE", item |-> item, quantity |-> quantity, slot |-> slot]
Removed(item, slot) == [type |-> "REMOVE", item |-> item, slot |-> slot]
MovedTo(item, old, slot) ==
  [type |-> "MOVE", item |-> item, oldSlot |-> old, slot |-> slot]

\* The command as it was asked for, and what is published of it.
Reports(command, result, events) ==
  last' = [command EXCEPT !.result = result, !.events = events]

Command(op, source, destination, item, quantity) ==
  [op |-> op, source |-> source, destination |-> destination, item |-> item,
   quantity |-> quantity, result |-> "ok", events |-> <<>>]

\* A statement or the commit fails: nothing is written and nothing published.
RollsBack(command) == Reports(command, "failed", <<>>) /\ UNCHANGED <<items, nextId>>

NoItem == "no item"

Init == /\ items = <<>>
        /\ nextId = 1
        /\ last = Command("none", 0, 0, NoItem, 0)

-----------------------------------------------------------------------------
\* item.getBySlot queries by struct, and gorm leaves a zero field out of the
\* WHERE clause: slot 0 matches every row, and First takes the lowest id.
Matches(t, s) == {r \in DOMAIN t : s = 0 \/ t[r].slot = s}

Found(t, s) == Min(Matches(t, s))

MoveRow(t, s, d) ==
  IF Matches(t, s) = {} THEN t ELSE [t EXCEPT ![Found(t, s)].slot = d]

\* Destination to Temp, source to destination, Temp to source.
ExchangeUnrestored(t, s, d) == MoveRow(MoveRow(t, d, Temp), s, d)

Exchange(t, s, d) == MoveRow(ExchangeUnrestored(t, s, d), Temp, s)

\* Quantities of two rows of the same item are not combined.
moveItem(source, destination) ==
  LET command == Command("move", source, destination, NoItem, 0)
      parked == MoveRow(items, destination, Temp)
      moved == parked[Found(parked, source)].item
  IN \/ RollsBack(command)
     \/ /\ items' = Exchange(items, source, destination)
        /\ Reports(command, "ok",
                   IF Matches(parked, source) = {} THEN <<>>
                   ELSE <<MovedTo(moved, source, destination)>>)
        /\ UNCHANGED nextId

-----------------------------------------------------------------------------
StacksOfAnyItem(t, item) == DOMAIN t

Stacks(t, item) == {r \in DOMAIN t : t[r].item = item}

\* CreateAsset: the uint32 sum is taken before it is capped.
UncappedQuantity(old, running) == (old + running) % Word

NewQuantity(old, running) == Min({(old + running) % Word, SlotMax})

Fills(old, running) == running > 0 /\ old < SlotMax

\* What is left of the request after each stack of order, filled in turn.
LeftUntouched(t, order, quantity) == [k \in 0 .. Len(order) |-> quantity]

Left(t, order, quantity) ==
  LET left[k \in 0 .. Len(order)] ==
        IF k = 0 THEN quantity
        ELSE LET old == t[order[k]].quantity IN
             IF Fills(old, left[k - 1])
             THEN (left[k - 1] - (NewQuantity(old, left[k - 1]) - old)) % Word
             ELSE left[k - 1]
  IN left

TellsChange(row, new) == Updated(row.item, new - row.quantity, row.slot)

TellsQuantity(row, new) == Updated(row.item, new, row.slot)

\* What is published of the stacks: an event for each that is filled, in turn.
Updates(t, order, left) ==
  LET told[k \in 0 .. Len(order)] ==
        IF k = 0 THEN <<>>
        ELSE LET row == t[order[k]] IN
             IF Fills(row.quantity, left[k - 1])
             THEN Append(told[k - 1], TellsQuantity(row, NewQuantity(row.quantity, left[k - 1])))
             ELSE told[k - 1]
  IN told[Len(order)]

\* The new rows for what is left, in the first free slots.  With two rows in
\* one slot below them MinFreeSlot would spin (module Slottable).
Portions(left) == [k \in 1 .. (left + SlotMax - 1) \div SlotMax |->
                     Min({left - (k - 1) * SlotMax, SlotMax})]

Gaps(t, n) ==
  LET free == {s \in 1 .. Cardinality(DOMAIN t) + n : ~Occupied(t, s)} IN
  SetToSortSeq({s \in free : Cardinality({u \in free : u <= s}) <= n}, <)

WithStacks(t, item, portions, slots, n) ==
  [r \in DOMAIN t \cup nextId .. nextId + n - 1 |->
     IF r \in DOMAIN t THEN t[r]
     ELSE [item |-> item, slot |-> slots[r - nextId + 1],
           quantity |-> portions[r - nextId + 1]]]

\* The stacks of the item come in no particular order (no ORDER BY, mapped in
\* parallel); each is filled up, and the rest goes to rows of its own.
CreatesItem(item, quantity) ==
  \E order \in SetToSeqs(Stacks(items, item)) :
    LET left == Left(items, order, quantity)
        filled(k) == Fills(items[order[k]].quantity, left[k - 1])
        new(k) == NewQuantity(items[order[k]].quantity, left[k - 1])
        full == [r \in DOMAIN items |->
                   IF \E k \in DOMAIN order : order[k] = r /\ filled(k)
                   THEN [items[r] EXCEPT !.quantity =
                           new(CHOOSE k \in DOMAIN order : order[k] = r)]
                   ELSE items[r]]
        portions == Portions(left[Len(order)])
        n == Len(portions)
        slots == Gaps(items, n)
    IN /\ nextId + n - 1 <= MaxId
       /\ \A k \in 1 .. n :
            slots[k] \in FreeSlots(WithStacks(full, item, portions, slots, k - 1))
       /\ items' = WithStacks(full, item, portions, slots, n)
       /\ nextId' = nextId + n
       /\ Reports(Command("create", 0, 0, item, quantity), "ok",
                  Updates(items, order, left)
                    \o [k \in 1 .. n |-> Added(item, portions[k], slots[k])])

\* A create that fails may have taken ids: the sequence does not roll back.
FailsToCreate(item, quantity) ==
  /\ \E taken \in 0 .. Len(Portions(quantity)) :
       nextId + taken - 1 <= MaxId /\ nextId' = nextId + taken
  /\ UNCHANGED items
  /\ Reports(Command("create", 0, 0, item, quantity), "failed", <<>>)

CreateItem(item, quantity) ==
  LET asked == IF quantity = 0 THEN 1 ELSE quantity IN
  CreatesItem(item, asked) \/ FailsToCreate(item, asked)

-----------------------------------------------------------------------------
\* uint32(quantity): a negative drop quantity becomes a huge one.
Uint32(quantity) == quantity % Word

DropsAll(initial, asked) == initial <= asked

TakesRest(initial, asked) == asked

Rest(initial, asked) == initial - asked

dropItem(source, quantity) ==
  LET command == Command("drop", source, 0, NoItem, quantity)
      row == Found(items, source)
      initial == items[row].quantity
      asked == Uint32(quantity)
      rest == Rest(initial, asked)
  IN \/ RollsBack(command)
     \/ /\ Matches(items, source) # {}
        /\ \/ /\ DropsAll(initial, asked)
              /\ items' = Without(items, row)
              /\ Reports(command, "ok", <<Removed(items[row].item, items[row].slot)>>)
           \/ /\ ~DropsAll(initial, asked)
              /\ items' = [items EXCEPT ![row].quantity = rest]
              /\ Reports(command, "ok", <<TellsQuantity(items[row], rest)>>)
        /\ UNCHANGED nextId

Next == \/ \E item \in Items, quantity \in Quantities : CreateItem(item, quantity)
        \/ \E source, destination \in CommandSlots : moveItem(source, destination)
        \/ \E source \in CommandSlots, quantity \in Drops : dropItem(source, quantity)

Spec == Init /\ [][Next]_vars

-----------------------------------------------------------------------------
\* Each row is a stack of an item of this type, and none is over the maximum.
TypeOK == /\ nextId \in Nat \ {0}
          /\ DOMAIN items \subseteq 1 .. nextId - 1
          /\ items \in [DOMAIN items ->
                          [item : Items, slot : Int, quantity : 0 .. SlotMax]]

\* No two rows share a slot: MinFreeSlot returns, and every row can be named.
SlotsUnique == \A r, q \in DOMAIN items : items[r].slot = items[q].slot => r = q

\* What the character has of an item, over all its stacks.
Held(t, item) == MapThenSumSet(LAMBDA r : t[r].quantity, Stacks(t, item))

\* A create request adds what it asks for, to the word: a request that wraps
\* the sum with a stack takes that stack down instead (processor.go:235).
Wraps(quantity) == quantity + SlotMax > Word

CreateGivesWhatWasAsked ==
  [][last'.op = "create" /\ last'.result = "ok" =>
       LET gained == Held(items', last'.item) - Held(items, last'.item) IN
       /\ (gained - last'.quantity) % Word = 0
       /\ ~Wraps(last'.quantity) => gained = last'.quantity]_vars

\* A drop takes what it names from the stack in the slot it names, or all of
\* it; a negative quantity takes all of it.
DropTakesWhatWasAsked ==
  [][last'.op = "drop" /\ last'.result = "ok" =>
       \A item \in Items :
         Held(items', item) = Held(items, item) -
           LET row == Found(items, last'.source) IN
           IF items[row].item # item THEN 0
           ELSE IF last'.quantity < 0 THEN items[row].quantity
           ELSE Min({last'.quantity, items[row].quantity})]_vars

\* A command changes the rows in the slots it names and the stacks of the item
\* it names ("the item that is currently occupying the destination",
\* processor.go:533; "drop item at [%d]", processor.go:642), and no others.
OnlyNamedRows ==
  [][\A r \in DOMAIN items :
       \/ items[r].slot \in {last'.source, last'.destination}
       \/ items[r].item = last'.item
       \/ r \in DOMAIN items' /\ items'[r] = items[r]]_vars

\* What a consumer sees of a row.
Stack(row) == <<row.item, row.quantity>>

\* The events account for every change, but for a move from an empty slot.
EventsTellTheChange ==
  [][\/ Picture(items', Stack) = Replay(Picture(items, Stack), last'.events, Stack)
     \/ /\ last'.op = "move" /\ last'.events = <<>>
        /\ ~Occupied(items, last'.source)]_vars
=============================================================================
