--------------------------- MODULE RequestsProofs ---------------------------
(***************************************************************************)
(* Whose rows a request reads, what it shows and what it deletes of them,  *)
(* and how far the statistics service and the rows agree, for any number   *)
(* of handlers, characters and rows.                                       *)
(***************************************************************************)
EXTENDS CharacterRequests, FiniteSetTheorems, TLAPS

Row == [inventory : Characters, slot : Int]

Snapshot(h) == bag[h] \cup Range(equipment[h])

Shape ==
  /\ nextRow \in Nat \ {0}
  /\ characters \subseteq Characters /\ inventories = characters
  /\ equipables \in [DOMAIN equipables -> Row]
  /\ DOMAIN creating = Characters
  /\ \A c \in Characters : creating[c] \in [DOMAIN creating[c] -> Row]
  /\ pc \in [Handlers -> Step] /\ found \in [Handlers -> Nat]
  /\ inventory \in [Handlers -> Nat] /\ current \in [Handlers -> Nat]
  /\ DOMAIN bag = Handlers /\ DOMAIN equipment = Handlers /\ DOMAIN gone = Handlers
  /\ removed \in [Handlers -> BOOLEAN]

\* No reference id is anywhere before the service has given it out.
Given ==
  LET ids == 1 .. nextRow - 1 IN
  /\ statistics \subseteq ids /\ DOMAIN equipables \subseteq ids
  /\ \A c \in Characters : DOMAIN creating[c] \subseteq ids
  /\ \A h \in Handlers :
       Snapshot(h) \subseteq ids /\ gone[h] \subseteq ids /\ current[h] \in ids \cup {NoRow}

\* The rows of an open create are nowhere else, and have their statistics.
Apart ==
  \A c \in Characters :
    /\ DOMAIN creating[c] \cap DOMAIN equipables = {}
    /\ DOMAIN creating[c] \subseteq statistics
    /\ \A d \in Characters \ {c} : DOMAIN creating[c] \cap DOMAIN creating[d] = {}
    /\ \A h \in Handlers : DOMAIN creating[c] \cap Snapshot(h) = {}

\* The rows a deletion has begun with are those of no statistics.
Told ==
  \A h \in Handlers :
    /\ gone[h] \cap statistics = {} /\ current[h] \notin statistics
    /\ pc[h] \in {"equipment", "items"} \/ current[h] = NoRow
    /\ pc[h] \in {"equipment", "items", "commit"} \/ gone[h] = {}

\* What a request knows of its character is true until that is deleted.
Knows ==
  \A h \in Handlers :
    /\ inventory[h] \in {0, found[h]}
    /\ pc[h] = "idle" => inventory[h] = 0 /\ bag[h] = {} /\ equipment[h] = NoEquipment
    /\ pc[h] # "idle" => found[h] # 0 /\ (found[h] \in characters \/ removed[h])
    /\ pc[h] = "bag" => inventory[h] = found[h]
    /\ pc[h] = "worn" => inventory[h] = found[h] \/ removed[h]

RInv == Shape /\ Given /\ Apart /\ Told /\ Knows /\ ReadsOthersOnlyIf /\ DifferOnlyIf

-----------------------------------------------------------------------------
LEMMA EmptyRange == Range(<<>>) = {}
  BY DEF Range

LEMMA InitR == Init => RInv
  <1> SUFFICES ASSUME Init PROVE RInv
    OBVIOUS
  <1> USE RequestsAssumption, EmptyRange
  <1>1. Shape
    BY DEF Init, Shape, Row, Step, NoRow
  <1>2. \A h \in Handlers : Snapshot(h) = {}
    BY DEF Init, Snapshot, NoEquipment
  <1>3. Given
    BY <1>2 DEF Init, Given
  <1>4. Apart
    BY <1>2 DEF Init, Apart
  <1>5. Told
    BY DEF Init, Told, NoRow
  <1>6. Knows
    BY DEF Init, Knows
  <1>7. ReadsOthersOnlyIf
    BY <1>2 DEF Init, ReadsOthersOnlyIf, Snapshot
  <1>8. DifferOnlyIf
    BY DEF Init, DifferOnlyIf
  <1> QED BY <1>1, <1>3, <1>4, <1>5, <1>6, <1>7, <1>8 DEF RInv

-----------------------------------------------------------------------------
\* A step that writes nothing, and adds to what is read only rows that are there.
LEMMA Reading ==
  ASSUME RInv, UNCHANGED <<equipables, statistics, nextRow, creating, undone, left>>,
         gone' = gone, current' = current,
         \A h \in Handlers : Snapshot(h)' \subseteq Snapshot(h) \cup DOMAIN equipables
  PROVE  Given' /\ Apart' /\ DifferOnlyIf'
  <1> USE DEF RInv
  <1>1. Given'
    BY DEF Given
  <1>2. Apart'
    BY DEF Apart
  <1>3. DifferOnlyIf'
    BY DEF DifferOnlyIf
  <1> QED BY <1>1, <1>2, <1>3

LEMMA FindKeeps ==
  ASSUME RInv, NEW h \in Handlers, Find(h)
  PROVE  RInv'
  <1> USE DEF RInv
  <1>1. pc[h] = "idle" /\ pc' = [pc EXCEPT ![h] = "inventories"]
    BY DEF Find, Goes
  <1>2. PICK c \in characters : found' = [found EXCEPT ![h] = c]
    BY DEF Find
  <1>3. c \in Nat /\ c # 0
    BY <1>2, RequestsAssumption DEF Shape
  <1>4. UNCHANGED <<tables, service, creating, inventory, bag, equipment, current, gone,
                    removed, undone, left>>
    BY DEF Find, meanwhile, histories
  <1>5. \A g \in Handlers : Snapshot(g)' = Snapshot(g)
    BY <1>4 DEF Snapshot
  <1>6. Shape'
    BY <1>1, <1>2, <1>3, <1>4 DEF Shape, tables, service, Step
  <1>7. Given' /\ Apart' /\ DifferOnlyIf'
    BY <1>4, <1>5, Reading DEF tables, service
  <1>8. Told'
    BY <1>1, <1>4 DEF Told, Shape, service
  <1>9. Knows'
    <2>1. \A g \in Handlers \ {h} : found'[g] = found[g] /\ pc'[g] = pc[g]
      BY <1>1, <1>2 DEF Shape
    <2>2. found'[h] = c /\ pc'[h] = "inventories"
      BY <1>1, <1>2 DEF Shape
    <2>3. inventory[h] = 0
      BY <1>1 DEF Knows
    <2> QED BY <1>2, <1>3, <1>4, <2>1, <2>2, <2>3 DEF Knows, tables
  <1>10. ReadsOthersOnlyIf'
    <2>1. Snapshot(h) = {}
      BY <1>1, EmptyRange DEF Knows, Snapshot, NoEquipment
    <2>2. \A g \in Handlers \ {h} : found'[g] = found[g]
      BY <1>2 DEF Shape
    <2> QED BY <1>4, <1>5, <2>1, <2>2 DEF ReadsOthersOnlyIf, Snapshot, tables
  <1> QED BY <1>6, <1>7, <1>8, <1>9, <1>10

\* No inventories are found only if the character has been deleted.
LEMMA ReadInventoriesKeeps ==
  ASSUME RInv, NEW h \in Handlers, ReadInventories(h)
  PROVE  RInv'
  <1> USE DEF RInv
  <1>1. /\ pc[h] = "inventories"
        /\ pc' = [pc EXCEPT ![h] = IF found[h] \in inventories THEN "bag" ELSE "worn"]
        /\ inventory' = [inventory EXCEPT ![h] = InventoryId(found[h])]
    BY DEF ReadInventories, Goes
  <1>2. UNCHANGED <<tables, service, creating, found, bag, equipment, current, gone,
                    removed, undone, left>>
    BY DEF ReadInventories, meanwhile, histories
  <1>3. \A g \in Handlers : Snapshot(g)' = Snapshot(g)
    BY <1>2 DEF Snapshot
  <1>4. Shape'
    BY <1>1, <1>2 DEF Shape, tables, service, Step, InventoryId
  <1>5. Given' /\ Apart' /\ DifferOnlyIf'
    BY <1>2, <1>3, Reading DEF tables, service
  <1>6. Told'
    BY <1>1, <1>2 DEF Told, Shape, service
  <1>7. Knows'
    <2>1. \A g \in Handlers \ {h} : inventory'[g] = inventory[g] /\ pc'[g] = pc[g]
      BY <1>1 DEF Shape
    <2>2. inventory'[h] = InventoryId(found[h]) /\ inventories = characters
      BY <1>1 DEF Shape
    <2>3. found[h] # 0 /\ (found[h] \in characters \/ removed[h])
      BY <1>1 DEF Knows
    <2>4. CASE found[h] \in inventories
      BY <1>1, <1>2, <2>1, <2>2, <2>3, <2>4 DEF Knows, InventoryId, Shape, tables
    <2>5. CASE found[h] \notin inventories
      BY <1>1, <1>2, <2>1, <2>2, <2>3, <2>5 DEF Knows, InventoryId, Shape, tables
    <2> QED BY <2>4, <2>5
  <1>8. ReadsOthersOnlyIf'
    BY <1>2 DEF ReadsOthersOnlyIf, tables
  <1> QED BY <1>4, <1>5, <1>6, <1>7, <1>8

LEMMA ReadBagKeeps ==
  ASSUME RInv, NEW h \in Handlers, ReadBag(h)
  PROVE  RInv'
  <1> USE DEF RInv
  <1>1. pc[h] = "bag" /\ pc' = [pc EXCEPT ![h] = "worn"]
    BY DEF ReadBag, Goes
  <1>2. PICK rows : /\ bag' = [bag EXCEPT ![h] = rows]
                    /\ rows \subseteq {r \in DOMAIN equipables :
                                         equipables[r].inventory = found[h]}
    BY DEF ReadBag, RowsOf, InInventory, Restrict
  <1>3. UNCHANGED <<tables, service, creating, found, inventory, equipment, current, gone,
                    removed, undone, left>>
    BY DEF ReadBag, meanwhile, histories
  <1>4. /\ \A g \in Handlers \ {h} : Snapshot(g)' = Snapshot(g)
        /\ Snapshot(h)' \subseteq Snapshot(h) \cup rows
    BY <1>2, <1>3 DEF Snapshot, Shape
  <1>5. Shape'
    BY <1>1, <1>2, <1>3 DEF Shape, tables, service, Step
  <1>6. Given' /\ Apart' /\ DifferOnlyIf'
    BY <1>2, <1>3, <1>4, Reading DEF tables, service
  <1>7. Told'
    BY <1>1, <1>3 DEF Told, Shape, service
  <1>8. Knows'
    BY <1>1, <1>2, <1>3 DEF Knows, Shape, tables
  <1>9. ReadsOthersOnlyIf'
    BY <1>2, <1>3, <1>4 DEF ReadsOthersOnlyIf, Snapshot, tables
  <1> QED BY <1>5, <1>6, <1>7, <1>8, <1>9

\* With the id 0 the rows may be anybody's, but the character is gone by then.
LEMMA ReadWornKeeps ==
  ASSUME RInv, NEW h \in Handlers, ReadWorn(h)
  PROVE  RInv'
  <1> USE DEF RInv
  <1>1. pc[h] = "worn" /\ pc' = [pc EXCEPT ![h] = AfterReading(h)]
    BY DEF ReadWorn, Goes
  <1>2. PICK e \in FoldEquipable(equipables, WornRows(h)) :
          equipment' = [equipment EXCEPT ![h] = e]
    BY DEF ReadWorn
  <1>3. Range(e) \subseteq WornRows(h)
    BY DEF FoldEquipable, Range
  <1>4. /\ WornRows(h) \subseteq DOMAIN equipables
        /\ \A r \in WornRows(h) : equipables[r].inventory = found[h] \/ removed[h]
    <2>1. (inventory[h] = found[h] /\ found[h] # 0) \/ removed[h]
      BY <1>1 DEF Knows
    <2> QED BY <2>1 DEF WornRows, Equipment, Selects
  <1>5. UNCHANGED <<tables, service, creating, found, inventory, bag, current, gone,
                    removed, undone, left>>
    BY DEF ReadWorn, meanwhile, histories
  <1>6. /\ \A g \in Handlers \ {h} : Snapshot(g)' = Snapshot(g)
        /\ Snapshot(h)' \subseteq Snapshot(h) \cup WornRows(h)
    BY <1>2, <1>3, <1>5 DEF Snapshot, Shape
  <1>7. AfterReading(h) \in {"answered", "equipment"}
    BY DEF AfterReading
  <1>8. Shape'
    BY <1>1, <1>2, <1>5, <1>7 DEF Shape, tables, service, Step
  <1>9. Given' /\ Apart' /\ DifferOnlyIf'
    BY <1>4, <1>5, <1>6, Reading DEF tables, service
  <1>10. Told'
    BY <1>1, <1>5, <1>7 DEF Told, Shape, service
  <1>11. Knows'
    BY <1>1, <1>2, <1>5, <1>7 DEF Knows, Shape, tables
  <1>12. ReadsOthersOnlyIf'
    <2>1. \A r \in Snapshot(h)' \cap DOMAIN equipables :
            equipables[r].inventory = found[h] \/ removed[h]
      BY <1>4, <1>6 DEF ReadsOthersOnlyIf, Snapshot
    <2> QED BY <1>5, <1>6, <2>1 DEF ReadsOthersOnlyIf, Snapshot, tables
  <1> QED BY <1>8, <1>9, <1>10, <1>11, <1>12

LEMMA FailReadKeeps ==
  ASSUME RInv, NEW h \in Handlers, FailRead(h)
  PROVE  RInv'
  <1> USE DEF RInv
  <1>1. pc[h] # "idle" /\ pc' = [pc EXCEPT ![h] = AfterReading(h)]
    BY DEF FailRead, Goes
  <1>2. bag' = [bag EXCEPT ![h] = IF pc[h] = "worn" THEN @ ELSE {}]
    BY DEF FailRead
  <1>3. UNCHANGED <<tables, service, creating, found, inventory, equipment, current, gone,
                    removed, undone, left>>
    BY DEF FailRead, meanwhile, histories
  <1>4. \A g \in Handlers : Snapshot(g)' \subseteq Snapshot(g)
    BY <1>2, <1>3 DEF Snapshot, Shape
  <1>5. AfterReading(h) \in {"answered", "equipment"} /\ gone[h] = {} /\ current[h] = NoRow
    BY DEF AfterReading, FailRead, Told
  <1>6. Shape'
    BY <1>1, <1>2, <1>3, <1>5 DEF Shape, tables, service, Step
  <1>7. Given' /\ Apart' /\ DifferOnlyIf'
    BY <1>3, <1>4, Reading DEF tables, service
  <1>8. Told'
    BY <1>1, <1>3, <1>5 DEF Told, Shape, service
  <1>9. Knows'
    BY <1>1, <1>2, <1>3, <1>5 DEF Knows, Shape, tables
  <1>10. ReadsOthersOnlyIf'
    BY <1>3, <1>4 DEF ReadsOthersOnlyIf, Snapshot, tables
  <1> QED BY <1>6, <1>7, <1>8, <1>9, <1>10

-----------------------------------------------------------------------------
\* Between the first row and the commit of a deletion.
LEMMA DeletingKeeps ==
  ASSUME RInv, NEW h \in Handlers, DeleteStatistics(h)
  PROVE  RInv'
  <1> USE DEF RInv
  <1>1. PICK r \in ToDelete(h) : /\ current' = [current EXCEPT ![h] = r]
                                 /\ statistics' = statistics \ {r}
    BY DEF DeleteStatistics
  <1>2. r \in Snapshot(h) /\ pc[h] \in {"equipment", "items"}
    BY DEF ToDelete, EquipablesOf, Snapshot, Range
  <1>3. r \in 1 .. nextRow - 1 /\ r \in Nat
    BY <1>2 DEF Given, Shape
  <1>4. \A c \in Characters : r \notin DOMAIN creating[c]
    BY <1>2 DEF Apart
  <1>5. UNCHANGED <<tables, nextRow, creating, pc, found, inventory, bag, equipment, gone,
                    removed, undone, left>> /\ current[h] = NoRow
    BY DEF DeleteStatistics, meanwhile, histories
  <1>6. \A g \in Handlers : Snapshot(g)' = Snapshot(g)
    BY <1>5 DEF Snapshot
  <1>7. Shape'
    BY <1>1, <1>3, <1>5 DEF Shape, tables
  <1>8. Given'
    <2>1. \A g \in Handlers : current'[g] \in {current[g], r}
      BY <1>1 DEF Shape
    <2> QED BY <1>1, <1>3, <1>5, <1>6, <2>1 DEF Given, tables
  <1>9. Apart'
    BY <1>1, <1>4, <1>5, <1>6 DEF Apart, tables
  <1>10. Told'
    BY <1>1, <1>2, <1>5 DEF Told, Shape
  <1>11. Knows'
    BY <1>5 DEF Knows, tables
  <1>12. ReadsOthersOnlyIf'
    BY <1>5 DEF ReadsOthersOnlyIf, tables
  <1>13. DifferOnlyIf'
    <2>1. \A g \in Handlers \ {h} : current'[g] = current[g]
      BY <1>1 DEF Shape
    <2>2. current'[h] = r /\ NoRow \notin DOMAIN equipables
      BY <1>1 DEF Shape, Given, NoRow
    <2>3. ASSUME NEW q \in DOMAIN equipables' \ statistics', q # r
          PROVE q \in undone' \/ \E g \in Handlers : q \in gone'[g] \cup {current'[g]}
      BY <1>1, <1>5, <2>1, <2>2, <2>3 DEF DifferOnlyIf, tables
    <2> QED BY <1>1, <1>5, <2>2, <2>3 DEF DifferOnlyIf, tables
  <1> QED BY <1>7, <1>8, <1>9, <1>10, <1>11, <1>12, <1>13

LEMMA DeleteRowKeeps ==
  ASSUME RInv, NEW h \in Handlers, DeleteRow(h)
  PROVE  RInv'
  <1> USE DEF RInv
  <1> DEFINE r == current[h]
  <1>1. /\ r # NoRow /\ pc[h] \in {"equipment", "items"}
        /\ current' = [current EXCEPT ![h] = NoRow]
        /\ gone' = [gone EXCEPT ![h] = @ \cup Matches(r)]
    BY DEF DeleteRow, Told
  <1>2. Matches(r) \subseteq {r} /\ (r \in DOMAIN equipables => Matches(r) = {r})
    BY DEF Matches
  <1>3. Matches(r) \subseteq 1 .. nextRow - 1
    BY DEF Matches, Given
  <1>4. UNCHANGED <<tables, service, creating, pc, found, inventory, removed, undone, left>>
    BY DEF DeleteRow, meanwhile, histories
  <1>5. /\ DOMAIN bag' = Handlers /\ DOMAIN equipment' = Handlers
        /\ \A g \in Handlers \ {h} : bag'[g] = bag[g] /\ equipment'[g] = equipment[g]
        /\ bag'[h] \subseteq bag[h] /\ Range(equipment'[h]) \subseteq Range(equipment[h])
    BY DEF DeleteRow, Shape, Restrict, Range
  <1>6. \A g \in Handlers : Snapshot(g)' \subseteq Snapshot(g)
    BY <1>5 DEF Snapshot
  <1>7. Shape'
    BY <1>1, <1>4, <1>5 DEF Shape, tables, service, NoRow
  <1>8. Given'
    <2>1. \A g \in Handlers : /\ gone'[g] \subseteq gone[g] \cup Matches(r)
                             /\ current'[g] \in {current[g], NoRow}
      BY <1>1 DEF Shape
    <2>2. UNCHANGED <<equipables, statistics, nextRow, creating>>
      BY <1>4 DEF tables, service
    <2> QED BY <1>3, <1>6, <2>1, <2>2 DEF Given
  <1>9. Apart'
    BY <1>4, <1>6 DEF Apart, tables, service
  <1>10. Told'
    <2>1. NoRow \notin statistics
      BY DEF Given, Shape, NoRow
    <2> QED BY <1>1, <1>2, <1>4, <2>1 DEF Told, Shape, service
  <1>11. Knows'
    BY <1>1, <1>4, <1>5 DEF Knows, tables
  <1>12. ReadsOthersOnlyIf'
    BY <1>4, <1>6 DEF ReadsOthersOnlyIf, Snapshot, tables
  <1>13. DifferOnlyIf'
    <2>1. \A g \in Handlers \ {h} : current'[g] = current[g] /\ gone'[g] = gone[g]
      BY <1>1 DEF Shape
    <2>2. gone'[h] = gone[h] \cup Matches(r)
      BY <1>1 DEF Shape
    <2>3. ASSUME NEW q \in DOMAIN equipables \ statistics, q \notin undone
          PROVE \E g \in Handlers : q \in gone'[g] \cup {current'[g]}
      <3>1. PICK g \in Handlers : q \in gone[g] \cup {current[g]}
        BY <2>3 DEF DifferOnlyIf
      <3>2. CASE g = h
        BY <1>2, <2>2, <3>1, <3>2
      <3>3. CASE g # h
        BY <2>1, <3>1, <3>3
      <3> QED BY <3>2, <3>3
    <2> QED BY <1>4, <2>3 DEF DifferOnlyIf, tables, service
  <1> QED BY <1>7, <1>8, <1>9, <1>10, <1>11, <1>12, <1>13

\* Taking the mutex, and deleting the inventory's row.
LEMMA AdvancingKeeps ==
  ASSUME RInv, NEW h \in Handlers, LockBag(h) \/ DeleteInventory(h)
  PROVE  RInv'
  <1> USE DEF RInv
  <1>1. /\ pc[h] \in {"equipment", "items"} /\ current[h] = NoRow
        /\ \E step \in {"items", "commit"} : pc' = [pc EXCEPT ![h] = step]
    BY DEF LockBag, DeleteInventory, Goes
  <1>2. UNCHANGED <<tables, service, creating, found, inventory, bag, equipment, current,
                    gone, removed, undone, left>>
    BY DEF LockBag, DeleteInventory, locals, meanwhile, histories
  <1>3. \A g \in Handlers : Snapshot(g)' = Snapshot(g)
    BY <1>2 DEF Snapshot
  <1>4. Shape'
    BY <1>1, <1>2 DEF Shape, tables, service, Step
  <1>5. Given' /\ Apart' /\ DifferOnlyIf'
    BY <1>2, <1>3, Reading DEF tables, service
  <1>6. Told'
    BY <1>1, <1>2 DEF Told, Shape, service
  <1>7. Knows'
    BY <1>1, <1>2 DEF Knows, Shape, tables
  <1>8. ReadsOthersOnlyIf'
    BY <1>2 DEF ReadsOthersOnlyIf, tables
  <1> QED BY <1>4, <1>5, <1>6, <1>7, <1>8

-----------------------------------------------------------------------------
\* Some rows are gone, the others as they were.
Fewer == /\ DOMAIN equipables' \subseteq DOMAIN equipables
         /\ equipables' \in [DOMAIN equipables' -> Row]
         /\ \A r \in DOMAIN equipables' : equipables'[r] = equipables[r]

\* Who is told of the deletion of these characters.
TellsAll(cs) ==
  /\ removed' \in [Handlers -> BOOLEAN]
  /\ \A h \in Handlers : pc'[h] # "idle" => (removed'[h] <=> removed[h] \/ found[h] \in cs)

LEMMA MissesTells ==
  ASSUME RInv, NEW t, NEW cs, Misses(t, cs)
  PROVE  TellsAll(cs)
  BY DEF RInv, Shape, Misses, TellsAll

\* A request ends, and with it, perhaps, the characters cs and some rows.
LEMMA EndingKeeps ==
  ASSUME RInv, NEW h \in Handlers, NEW cs, Ends(h), TellsAll(cs), Fewer,
         characters' = characters \ cs, inventories' = characters',
         UNCHANGED <<service, creating>>
  PROVE  Shape' /\ Given' /\ Apart' /\ Told' /\ Knows' /\ ReadsOthersOnlyIf'
  <1> USE DEF RInv
  <1>1. /\ pc' = [pc EXCEPT ![h] = "idle"] /\ found' = [found EXCEPT ![h] = 0]
        /\ inventory' = [inventory EXCEPT ![h] = 0] /\ bag' = [bag EXCEPT ![h] = {}]
        /\ equipment' = [equipment EXCEPT ![h] = NoEquipment]
        /\ current' = [current EXCEPT ![h] = NoRow] /\ gone' = [gone EXCEPT ![h] = {}]
    BY DEF Ends, Goes
  <1>2. /\ \A g \in Handlers \ {h} : Snapshot(g)' = Snapshot(g)
        /\ Snapshot(h)' = {}
    BY <1>1, EmptyRange DEF Snapshot, Shape, NoEquipment
  <1>3. Shape'
    BY <1>1 DEF Shape, Fewer, TellsAll, service, Step, NoRow
  <1>4. Given'
    BY <1>1, <1>2 DEF Given, Fewer, Shape, service
  <1>5. Apart'
    BY <1>2 DEF Apart, Fewer, service
  <1>6. Told'
    BY <1>1 DEF Told, Shape, Given, service, NoRow
  <1>7. Knows'
    <2>1. ASSUME NEW g \in Handlers, g # h
          PROVE /\ pc'[g] = pc[g] /\ found'[g] = found[g] /\ inventory'[g] = inventory[g]
                /\ bag'[g] = bag[g] /\ equipment'[g] = equipment[g]
      BY <1>1, <2>1 DEF Shape
    <2>2. /\ pc'[h] = "idle" /\ found'[h] = 0 /\ inventory'[h] = 0
          /\ bag'[h] = {} /\ equipment'[h] = NoEquipment
      BY <1>1 DEF Shape
    <2> QED BY <2>1, <2>2 DEF Knows, TellsAll
  <1>8. ReadsOthersOnlyIf'
    <2>1. ASSUME NEW g \in Handlers, NEW r \in Snapshot(g)' \cap DOMAIN equipables'
          PROVE equipables'[r].inventory = found'[g] \/ removed'[g]
      <3>1. g # h /\ found'[g] = found[g] /\ pc'[g] = pc[g] /\ r \in Snapshot(g)
        BY <1>1, <1>2, <2>1 DEF Shape
      <3>2. pc[g] # "idle"
        BY <3>1, EmptyRange DEF Knows, Snapshot, NoEquipment
      <3>3. equipables[r].inventory = found[g] \/ removed[g]
        BY <3>1, <2>1 DEF ReadsOthersOnlyIf, Snapshot, Fewer
      <3> QED BY <2>1, <3>1, <3>2, <3>3 DEF Fewer, TellsAll
    <2> QED BY <2>1 DEF ReadsOthersOnlyIf, Snapshot
  <1> QED BY <1>3, <1>4, <1>5, <1>6, <1>7, <1>8

LEMMA RespondKeeps ==
  ASSUME RInv, NEW h \in Handlers, Respond(h)
  PROVE  RInv'
  <1> USE DEF RInv
  <1>1. UNCHANGED <<tables, service, creating, undone, left>> /\ Ends(h) /\ TellsAll({})
    BY MissesTells DEF Respond, histories
  <1>2. Fewer
    BY <1>1 DEF Fewer, tables, Shape
  <1>3. Shape' /\ Given' /\ Apart' /\ Told' /\ Knows' /\ ReadsOthersOnlyIf'
    BY <1>1, <1>2, EndingKeeps DEF tables, Shape
  <1>4. gone[h] = {} /\ current[h] = NoRow
    BY DEF Respond, Told
  <1>5. \A g \in Handlers : gone'[g] = gone[g] /\ current'[g] = current[g]
    BY <1>1, <1>4 DEF Ends, Shape
  <1>6. DifferOnlyIf'
    BY <1>1, <1>5 DEF DifferOnlyIf, tables, service
  <1> QED BY <1>3, <1>6

LEMMA FailKeeps ==
  ASSUME RInv, NEW h \in Handlers, Fail(h)
  PROVE  RInv'
  <1> USE DEF RInv
  <1>1. /\ UNCHANGED <<tables, service, creating, left>> /\ Ends(h) /\ TellsAll({})
        /\ undone' = undone \cup gone[h] \cup ({current[h]} \ {NoRow})
    BY MissesTells DEF Fail
  <1>2. Fewer
    BY <1>1 DEF Fewer, tables, Shape
  <1>3. Shape' /\ Given' /\ Apart' /\ Told' /\ Knows' /\ ReadsOthersOnlyIf'
    BY <1>1, <1>2, EndingKeeps DEF tables, Shape
  <1>4. DifferOnlyIf'
    <2>1. \A g \in Handlers \ {h} : gone'[g] = gone[g] /\ current'[g] = current[g]
      BY <1>1 DEF Ends, Shape
    <2>2. NoRow \notin DOMAIN equipables
      BY DEF Given, Shape, NoRow
    <2>3. ASSUME NEW q \in DOMAIN equipables \ statistics, q \notin undone'
          PROVE \E g \in Handlers : q \in gone'[g] \cup {current'[g]}
      <3>1. PICK g \in Handlers : q \in gone[g] \cup {current[g]}
        BY <1>1, <2>3 DEF DifferOnlyIf
      <3>2. g # h
        BY <1>1, <2>2, <2>3, <3>1
      <3> QED BY <2>1, <3>1, <3>2
    <2> QED BY <1>1, <2>3 DEF DifferOnlyIf, tables, service
  <1> QED BY <1>3, <1>4

LEMMA CommitKeeps ==
  ASSUME RInv, NEW h \in Handlers, Commit(h)
  PROVE  RInv'
  <1> USE DEF RInv
  <1> DEFINE cs == {c \in characters : Selects(asked[h], c)}
  <1>1. /\ pc[h] = "commit" /\ Ends(h) /\ TellsAll(cs)
        /\ UNCHANGED <<service, creating, undone, left>>
        /\ characters' = characters \ cs
        /\ inventories' = {c \in inventories : ~Selects(asked[h], c)}
        /\ equipables' = Restrict(equipables, DOMAIN equipables \ gone[h])
    BY MissesTells DEF Commit, histories
  <1>2. inventories' = characters'
    BY <1>1 DEF Shape
  <1>3. DOMAIN equipables' = DOMAIN equipables \ gone[h] /\ Fewer
    BY <1>1 DEF Fewer, Restrict, Shape
  <1>4. Shape' /\ Given' /\ Apart' /\ Told' /\ Knows' /\ ReadsOthersOnlyIf'
    BY <1>1, <1>2, <1>3, EndingKeeps
  <1>5. DifferOnlyIf'
    <2>1. \A g \in Handlers \ {h} : gone'[g] = gone[g] /\ current'[g] = current[g]
      BY <1>1 DEF Ends, Shape
    <2>2. NoRow \notin DOMAIN equipables /\ current[h] = NoRow /\ gone[h] \cap statistics = {}
      BY <1>1 DEF Given, Shape, NoRow, Told
    <2>3. ASSUME NEW q \in DOMAIN equipables' \ statistics, q \notin undone
          PROVE \E g \in Handlers : q \in gone'[g] \cup {current'[g]}
      <3>1. PICK g \in Handlers : q \in gone[g] \cup {current[g]}
        BY <1>3, <2>3 DEF DifferOnlyIf
      <3>2. g # h
        BY <1>3, <2>2, <2>3, <3>1
      <3> QED BY <2>1, <3>1, <3>2
    <2>4. \A q \in statistics \ DOMAIN equipables' :
            q \in left \/ \E c \in Characters : q \in DOMAIN creating[c]
      BY <1>3, <2>2 DEF DifferOnlyIf
    <2> QED BY <1>1, <2>3, <2>4 DEF DifferOnlyIf, service
  <1> QED BY <1>4, <1>5

-----------------------------------------------------------------------------
\* A command takes no row from a request's snapshot and gives it none.
LEMMA CommandKeeps ==
  ASSUME RInv, TellsAll({}),
         UNCHANGED <<characters, inventories, pc, locals>>,
         \A r \in DOMAIN equipables' : r \in DOMAIN equipables
           => equipables'[r].inventory = equipables[r].inventory,
         \A h \in Handlers : Snapshot(h) \cap DOMAIN equipables' \subseteq DOMAIN equipables
  PROVE  /\ Knows' /\ ReadsOthersOnlyIf'
         /\ \A h \in Handlers : Snapshot(h)' = Snapshot(h)
  <1> USE DEF RInv
  <1>1. UNCHANGED <<characters, pc, found, inventory, bag, equipment>>
    BY DEF locals
  <1>2. \A h \in Handlers : Snapshot(h)' = Snapshot(h)
    BY <1>1 DEF Snapshot
  <1>3. Knows'
    BY <1>1 DEF Knows, TellsAll
  <1>4. ReadsOthersOnlyIf'
    <2>1. ASSUME NEW h \in Handlers, NEW r \in Snapshot(h) \cap DOMAIN equipables'
          PROVE equipables'[r].inventory = found[h] \/ removed'[h]
      <3>1. pc[h] # "idle"
        BY <2>1, EmptyRange DEF Knows, Snapshot, NoEquipment
      <3>2. r \in DOMAIN equipables /\ equipables'[r].inventory = equipables[r].inventory
        BY <2>1
      <3>3. equipables[r].inventory = found[h] \/ removed[h]
        BY <2>1, <3>2 DEF ReadsOthersOnlyIf, Snapshot
      <3> QED BY <1>1, <3>1, <3>2, <3>3 DEF TellsAll
    <2> QED BY <1>1, <1>2, <2>1 DEF ReadsOthersOnlyIf, Snapshot
  <1> QED BY <1>2, <1>3, <1>4

LEMMA CreateItemKeeps ==
  ASSUME RInv, NEW c \in Characters, CreateItem(c)
  PROVE  RInv'
  <1> USE DEF RInv
  <1>1. PICK slot \in Int : creating' = [creating EXCEPT ![c] =
            [r \in DOMAIN creating[c] \cup {nextRow} |->
               IF r = nextRow THEN [inventory |-> c, slot |-> slot] ELSE creating[c][r]]]
    BY DEF CreateItem, FreeSlots
  <1>2. /\ statistics' = statistics \cup {nextRow} /\ nextRow' = nextRow + 1
        /\ UNCHANGED <<tables, pc, locals, removed, undone, left>>
    BY DEF CreateItem, meanwhile, histories
  <1>3. /\ DOMAIN creating' = Characters
        /\ DOMAIN creating'[c] = DOMAIN creating[c] \cup {nextRow}
        /\ \A d \in Characters \ {c} : creating'[d] = creating[d]
    BY <1>1 DEF Shape
  <1>4. UNCHANGED <<found, inventory, bag, equipment, current, gone>>
        /\ \A h \in Handlers : Snapshot(h)' = Snapshot(h)
    BY <1>2 DEF locals, Snapshot
  <1>5. creating'[c] \in [DOMAIN creating'[c] -> Row]
    BY <1>1 DEF Shape, Row
  <1>6. Shape'
    BY <1>2, <1>3, <1>4, <1>5 DEF Shape, tables
  <1>7. Given'
    BY <1>2, <1>3, <1>4 DEF Given, Shape, tables
  <1>8. nextRow \notin statistics /\ nextRow \notin DOMAIN equipables
        /\ (\A d \in Characters : nextRow \notin DOMAIN creating[d])
        /\ \A h \in Handlers : nextRow \notin Snapshot(h) /\ nextRow \notin gone[h]
    BY DEF Given, Shape
  <1>9. Apart'
    BY <1>2, <1>3, <1>4, <1>8 DEF Apart, tables
  <1>10. Told'
    <2>1. ASSUME NEW h \in Handlers PROVE current[h] # nextRow
      <3>1. CASE current[h] = NoRow
        BY <3>1 DEF Shape, NoRow
      <3>2. CASE current[h] # NoRow
        BY <3>2 DEF Given, Shape
      <3> QED BY <3>1, <3>2
    <2> QED BY <1>2, <1>4, <1>8, <2>1 DEF Told
  <1>11. Knows' /\ ReadsOthersOnlyIf'
    BY <1>2, <1>4 DEF Knows, ReadsOthersOnlyIf, tables
  <1>12. DifferOnlyIf'
    BY <1>2, <1>3, <1>4 DEF DifferOnlyIf, tables
  <1> QED BY <1>6, <1>7, <1>9, <1>10, <1>11, <1>12

LEMMA CommitCreateKeeps ==
  ASSUME RInv, NEW c \in Characters, CommitCreate(c)
  PROVE  RInv'
  <1> USE DEF RInv
  <1>1. /\ equipables' = [r \in DOMAIN equipables \cup DOMAIN creating[c] |->
                            IF r \in DOMAIN creating[c] THEN creating[c][r]
                            ELSE equipables[r]]
        /\ creating' = [creating EXCEPT ![c] = <<>>]
        /\ UNCHANGED <<characters, inventories, service, pc, locals, undone, left>>
        /\ TellsAll({})
    BY MissesTells DEF CommitCreate, histories
  <1>2. /\ DOMAIN creating' = Characters /\ DOMAIN creating'[c] = {}
        /\ \A d \in Characters \ {c} : creating'[d] = creating[d]
    BY <1>1 DEF Shape
  <1>3. /\ DOMAIN equipables' = DOMAIN equipables \cup DOMAIN creating[c]
        /\ equipables' \in [DOMAIN equipables' -> Row]
        /\ \A r \in DOMAIN equipables : equipables'[r] = equipables[r]
    BY <1>1 DEF Shape, Apart
  <1>4. Knows' /\ ReadsOthersOnlyIf' /\ \A h \in Handlers : Snapshot(h)' = Snapshot(h)
    BY <1>1, <1>3, CommandKeeps DEF Apart
  <1>5. UNCHANGED <<found, inventory, bag, equipment, current, gone>>
    BY <1>1 DEF locals
  <1>6. creating'[c] \in [DOMAIN creating'[c] -> Row]
    BY <1>1 DEF Shape
  <1>7. Shape'
    BY <1>1, <1>2, <1>3, <1>5, <1>6 DEF Shape, service, TellsAll
  <1>8. Given'
    BY <1>1, <1>2, <1>3, <1>4, <1>5 DEF Given, service
  <1>9. Apart'
    BY <1>1, <1>2, <1>3, <1>4 DEF Apart, service
  <1>10. Told'
    BY <1>1, <1>5 DEF Told, service
  <1>11. DifferOnlyIf'
    BY <1>1, <1>2, <1>3, <1>5 DEF DifferOnlyIf, Apart, service
  <1> QED BY <1>4, <1>7, <1>8, <1>9, <1>10, <1>11

LEMMA FailCreateKeeps ==
  ASSUME RInv, NEW c \in Characters, FailCreate(c)
  PROVE  RInv'
  <1> USE DEF RInv
  <1>1. /\ creating' = [creating EXCEPT ![c] = <<>>]
        /\ left' = left \cup DOMAIN creating[c]
        /\ UNCHANGED <<tables, service, pc, locals, removed, undone>>
    BY DEF FailCreate, meanwhile
  <1>2. /\ DOMAIN creating' = Characters /\ DOMAIN creating'[c] = {}
        /\ \A d \in Characters \ {c} : creating'[d] = creating[d]
        /\ creating'[c] \in [DOMAIN creating'[c] -> Row]
    BY <1>1 DEF Shape
  <1>3. UNCHANGED <<found, inventory, bag, equipment, current, gone>>
        /\ \A h \in Handlers : Snapshot(h)' = Snapshot(h)
    BY <1>1 DEF locals, Snapshot
  <1>4. Shape'
    BY <1>1, <1>2, <1>3 DEF Shape, tables, service
  <1>5. Given'
    BY <1>1, <1>2, <1>3 DEF Given, tables, service
  <1>6. Apart'
    BY <1>1, <1>2, <1>3 DEF Apart, tables, service
  <1>7. Told' /\ Knows' /\ ReadsOthersOnlyIf'
    BY <1>1, <1>3 DEF Told, Knows, ReadsOthersOnlyIf, tables, service
  <1>8. DifferOnlyIf'
    BY <1>1, <1>2, <1>3 DEF DifferOnlyIf, tables, service
  <1> QED BY <1>4, <1>5, <1>6, <1>7, <1>8

\* A move changes slots and nothing else.
LEMMA MoveSlotKeeps ==
  ASSUME NEW t, t \in [DOMAIN t -> Row], NEW s \in Int, NEW d \in Int
  PROVE  /\ DOMAIN MoveSlot(t, s, d) = DOMAIN t
         /\ MoveSlot(t, s, d) \in [DOMAIN t -> Row]
         /\ \A r \in DOMAIN t : MoveSlot(t, s, d)[r].inventory = t[r].inventory
  BY DEF MoveSlot, Row

LEMMA SwapKeeps ==
  ASSUME NEW t, t \in [DOMAIN t -> Row], NEW s \in Int, NEW d \in Int
  PROVE  /\ DOMAIN Swap(t, s, d) = DOMAIN t
         /\ Swap(t, s, d) \in [DOMAIN t -> Row]
         /\ \A r \in DOMAIN t : Swap(t, s, d)[r].inventory = t[r].inventory
  <1> DEFINE t1 == MoveSlot(t, d, Temp)
             t2 == MoveSlot(t1, s, d)
  <1>1. Temp \in Int
    BY DEF Temp
  <1>2. /\ DOMAIN t1 = DOMAIN t /\ t1 \in [DOMAIN t -> Row]
        /\ \A r \in DOMAIN t : t1[r].inventory = t[r].inventory
    BY <1>1, MoveSlotKeeps
  <1>3. /\ DOMAIN t2 = DOMAIN t /\ t2 \in [DOMAIN t -> Row]
        /\ \A r \in DOMAIN t : t2[r].inventory = t[r].inventory
    <2> HIDE DEF t1
    <2> QED BY <1>2, MoveSlotKeeps
  <1>4. /\ DOMAIN MoveSlot(t2, Temp, s) = DOMAIN t /\ MoveSlot(t2, Temp, s) \in [DOMAIN t -> Row]
        /\ \A r \in DOMAIN t : MoveSlot(t2, Temp, s)[r].inventory = t[r].inventory
    <2> HIDE DEF t1, t2
    <2> QED BY <1>1, <1>3, MoveSlotKeeps
  <1> QED BY <1>4 DEF Swap

LEMMA ExchangeKeeps ==
  ASSUME RInv, NEW c \in Characters, Exchange(c)
  PROVE  RInv'
  <1> USE DEF RInv
  <1> DEFINE t == RowsOf(c)
  <1>1. PICK s \in Slots, d \in Slots, rows \in SUBSET DOMAIN t :
          /\ equipables' = [r \in DOMAIN equipables |->
                              IF r \in rows THEN Swap(t, s, d)[r] ELSE equipables[r]]
          /\ TellsAll({})
    BY MissesTells DEF Exchange
  <1>2. UNCHANGED <<characters, inventories, service, creating, pc, locals, undone, left>>
    BY DEF Exchange, histories
  <1>3. /\ t \in [DOMAIN t -> Row] /\ DOMAIN t \subseteq DOMAIN equipables
        /\ \A r \in DOMAIN t : t[r] = equipables[r]
    BY DEF RowsOf, Restrict, Shape
  <1>4. s \in Int /\ d \in Int
    BY RequestsAssumption
  <1>5. /\ Swap(t, s, d) \in [DOMAIN t -> Row]
        /\ \A r \in DOMAIN t : Swap(t, s, d)[r].inventory = t[r].inventory
    <2> HIDE DEF t
    <2> QED BY <1>3, <1>4, SwapKeeps
  <1>6. DOMAIN equipables' = DOMAIN equipables /\ equipables' \in [DOMAIN equipables -> Row]
    <2> HIDE DEF t
    <2> QED BY <1>1, <1>3, <1>5 DEF Shape
  <1>7. \A r \in DOMAIN equipables : equipables'[r].inventory = equipables[r].inventory
    <2> HIDE DEF t
    <2> QED BY <1>1, <1>3, <1>5
  <1>8. Knows' /\ ReadsOthersOnlyIf' /\ \A h \in Handlers : Snapshot(h)' = Snapshot(h)
    BY <1>1, <1>2, <1>6, <1>7, CommandKeeps
  <1>9. UNCHANGED <<found, inventory, bag, equipment, current, gone>>
    BY <1>2 DEF locals
  <1>10. Shape'
    BY <1>1, <1>2, <1>6, <1>9 DEF Shape, service, TellsAll
  <1>11. Given' /\ Apart' /\ Told' /\ DifferOnlyIf'
    BY <1>2, <1>6, <1>8, <1>9 DEF Given, Apart, Told, DifferOnlyIf, service
  <1> QED BY <1>8, <1>10, <1>11

LEMMA DropItemKeeps ==
  ASSUME RInv, NEW c \in Characters, DropItem(c)
  PROVE  RInv'
  <1> USE DEF RInv
  <1>1. PICK r \in DOMAIN RowsOf(c) :
          /\ equipables' = Without(equipables, r) /\ left' = left \cup {r}
          /\ TellsAll({})
    BY MissesTells DEF DropItem
  <1>2. UNCHANGED <<characters, inventories, service, creating, pc, locals, undone>>
    BY DEF DropItem
  <1>3. DOMAIN equipables' = DOMAIN equipables \ {r} /\ Fewer
    BY <1>1 DEF Without, Fewer, Shape
  <1>4. Knows' /\ ReadsOthersOnlyIf' /\ \A h \in Handlers : Snapshot(h)' = Snapshot(h)
    BY <1>1, <1>2, <1>3, CommandKeeps DEF Fewer
  <1>5. UNCHANGED <<found, inventory, bag, equipment, current, gone>>
    BY <1>2 DEF locals
  <1>6. Shape'
    BY <1>1, <1>2, <1>3, <1>5 DEF Shape, service, TellsAll, Fewer
  <1>7. Given' /\ Apart' /\ Told'
    BY <1>2, <1>3, <1>4, <1>5 DEF Given, Apart, Told, service
  <1>8. DifferOnlyIf'
    BY <1>1, <1>2, <1>3, <1>5 DEF DifferOnlyIf, service
  <1> QED BY <1>4, <1>6, <1>7, <1>8

-----------------------------------------------------------------------------
LEMMA NextR == RInv /\ [Next]_vars => RInv'
  <1> SUFFICES ASSUME RInv, [Next]_vars PROVE RInv'
    OBVIOUS
  <1>1. CASE UNCHANGED vars
    <2>1. UNCHANGED <<characters, inventories, equipables, statistics, nextRow, creating, pc,
                      found, inventory, bag, equipment, current, gone, removed, undone, left>>
      BY <1>1 DEF vars, tables, service, locals, meanwhile, histories
    <2>2. \A h \in Handlers : Snapshot(h)' = Snapshot(h)
      BY <2>1 DEF Snapshot
    <2>3. Shape' /\ Told' /\ Knows' /\ ReadsOthersOnlyIf'
      BY <2>1 DEF RInv, Shape, Told, Knows, ReadsOthersOnlyIf
    <2>4. Given' /\ Apart' /\ DifferOnlyIf'
      BY <2>1, <2>2, Reading
    <2> QED BY <2>3, <2>4 DEF RInv
  <1>2. ASSUME NEW h \in Handlers, Handle(h) PROVE RInv'
    BY <1>2, FindKeeps, ReadInventoriesKeeps, ReadBagKeeps, ReadWornKeeps, FailReadKeeps,
       RespondKeeps, DeletingKeeps, DeleteRowKeeps, AdvancingKeeps, CommitKeeps, FailKeeps
    DEF Handle
  <1>3. ASSUME NEW c \in Characters, Command(c) PROVE RInv'
    BY <1>3, CreateItemKeeps, CommitCreateKeeps, FailCreateKeeps, ExchangeKeeps, DropItemKeeps
    DEF Command
  <1> QED BY <1>1, <1>2, <1>3 DEF Next

\* The invariant of requests and commands, statement by statement.
THEOREM RequestsInvariant == Spec => []RInv
  BY InitR, NextR, PTL DEF Spec

\* GET shows, and DELETE deletes, rows of another character only if its own was
\* deleted between two of its reads (InventoryModelDecorator).
THEOREM OthersOnlyAfterDeletion == Spec => []ReadsOthersOnlyIf
  BY RequestsInvariant, PTL DEF RInv

\* A row has no statistics only while it is being deleted or since a deletion was
\* rolled back, and statistics have no row only for an item that was dropped or
\* whose creation is under way or failed (CreateItem, DeleteByReferenceId).
THEOREM ServicesDifferOnlySo == Spec => []DifferOnlyIf
  BY RequestsInvariant, PTL DEF RInv

-----------------------------------------------------------------------------
\* Where rows are, and what the requests under way have typed and counted.
RowsOK ==
  /\ \A r \in DOMAIN equipables : equipables[r].slot \in Slots \cup Rows
  /\ \A c \in Characters : \A r \in DOMAIN creating[c] :
       creating[c][r].inventory = c /\ creating[c][r].slot \in Slots \cup Rows

\* Distinct slots in every inventory, the rows of an open create included.
Distinct ==
  /\ \A r, q \in DOMAIN equipables :
       /\ equipables[r].inventory = equipables[q].inventory
       /\ equipables[r].slot = equipables[q].slot
       => r = q
  /\ \A c \in Characters : \A r \in DOMAIN creating[c] :
       /\ \A q \in DOMAIN creating[c] : creating[c][r].slot = creating[c][q].slot => r = q
       /\ \A q \in DOMAIN equipables :
            equipables[q].inventory = c => equipables[q].slot # creating[c][r].slot

Placed == nextRow <= MaxRow + 1 /\ RowsOK /\ Distinct

LEMMA RowsAreNat == Rows \subseteq Nat /\ Temp \notin Slots \cup Rows /\ Slots \subseteq Int
  BY RequestsAssumption DEF Rows, Temp

LEMMA InitPlaced == Init => Placed
  BY RequestsAssumption DEF Init, Placed, RowsOK, Distinct

\* No step of a request moves a row or adds one.
LEMMA HandleTakes ==
  ASSUME RInv, NEW h \in Handlers, Handle(h)
  PROVE  Fewer /\ creating' = creating /\ nextRow' = nextRow
  <1>1. equipables' = equipables => Fewer
    BY DEF Fewer, RInv, Shape
  <1>2. Commit(h) => Fewer
    BY DEF Commit, Fewer, Restrict, RInv, Shape
  <1> QED
    BY <1>1, <1>2 DEF Handle, Find, ReadInventories, ReadBag, ReadWorn, FailRead, Respond,
                      DeleteStatistics, DeleteRow, LockBag, DeleteInventory, Commit, Fail,
                      tables, service

LEMMA TakingPlaces ==
  ASSUME Placed, Fewer, creating' = creating, nextRow' = nextRow
  PROVE  Placed'
  BY DEF Placed, RowsOK, Distinct, Fewer

\* The slot that an item is created in is that of no row of its inventory.
LEMMA CreateItemPlaces ==
  ASSUME RInv, Placed, NEW c \in Characters, CreateItem(c)
  PROVE  Placed'
  <1> DEFINE own == {r \in DOMAIN equipables : equipables[r].inventory = c}
             t == [r \in DOMAIN RowsOf(c) \cup DOMAIN creating[c] |->
                     IF r \in DOMAIN creating[c] THEN creating[c][r] ELSE equipables[r]]
  <1>1. PICK slot \in FreeSlots(t) : creating' = [creating EXCEPT ![c] =
            [r \in DOMAIN creating[c] \cup {nextRow} |->
               IF r = nextRow THEN [inventory |-> c, slot |-> slot] ELSE creating[c][r]]]
    BY DEF CreateItem
  <1>2. nextRow' = nextRow + 1 /\ nextRow <= MaxRow /\ UNCHANGED equipables
    BY DEF CreateItem, tables
  <1>3. DOMAIN t = own \cup DOMAIN creating[c] /\ own \cap DOMAIN creating[c] = {}
    BY DEF RowsOf, Restrict, RInv, Apart
  <1>4. /\ \A r \in own : equipables[r].slot # slot
        /\ \A r \in DOMAIN creating[c] : creating[c][r].slot # slot
    <2>1. ~Occupied(t, slot)
      BY <1>1 DEF FreeSlots
    <2> QED BY <1>3, <2>1 DEF Occupied
  <1>5. slot \in Rows
    <2>1. DOMAIN t \subseteq 1 .. nextRow - 1
      BY <1>3 DEF RInv, Given
    <2>2. nextRow \in Nat /\ nextRow - 1 \in Nat
      BY DEF RInv, Shape
    <2>3. Cardinality(DOMAIN t) \in Nat /\ Cardinality(DOMAIN t) <= nextRow - 1
      <3> HIDE DEF t
      <3>1. IsFiniteSet(1 .. nextRow - 1) /\ Cardinality(1 .. nextRow - 1) = nextRow - 1
        BY <2>2, FS_Interval
      <3> QED BY <2>1, <3>1, FS_Subset, FS_CardinalityType
    <2>4. PICK n : n = Cardinality(DOMAIN t)
      OBVIOUS
    <2>5. slot \in 1 .. n + 1
      BY <1>1, <2>4 DEF FreeSlots
    <2> HIDE DEF t
    <2>6. n \in Nat /\ n <= nextRow - 1
      BY <2>3, <2>4
    <2> QED BY <1>2, <2>2, <2>5, <2>6, RequestsAssumption DEF Rows
  <1>6. /\ DOMAIN creating' = Characters
        /\ \A e \in Characters \ {c} : creating'[e] = creating[e]
        /\ DOMAIN creating'[c] = DOMAIN creating[c] \cup {nextRow}
        /\ creating'[c][nextRow] = [inventory |-> c, slot |-> slot]
        /\ \A r \in DOMAIN creating[c] \ {nextRow} : creating'[c][r] = creating[c][r]
    BY <1>1 DEF RInv, Shape
  <1>7. nextRow \notin DOMAIN creating[c]
    BY DEF RInv, Shape, Given
  <1>8. RowsOK'
    BY <1>2, <1>5, <1>6, <1>7 DEF Placed, RowsOK
  <1>9. Distinct'
    BY <1>2, <1>4, <1>6, <1>7 DEF Placed, Distinct
  <1> QED BY <1>2, <1>8, <1>9, RequestsAssumption DEF Placed, RInv, Shape

LEMMA CommitCreatePlaces ==
  ASSUME RInv, Placed, NEW c \in Characters, CommitCreate(c)
  PROVE  Placed'
  <1>1. /\ equipables' = [r \in DOMAIN equipables \cup DOMAIN creating[c] |->
                            IF r \in DOMAIN creating[c] THEN creating[c][r]
                            ELSE equipables[r]]
        /\ creating' = [creating EXCEPT ![c] = <<>>] /\ nextRow' = nextRow
    BY DEF CommitCreate, service
  <1>2. /\ DOMAIN equipables' = DOMAIN equipables \cup DOMAIN creating[c]
        /\ \A r \in DOMAIN creating[c] : equipables'[r] = creating[c][r]
        /\ \A r \in DOMAIN equipables : equipables'[r] = equipables[r]
    BY <1>1 DEF RInv, Apart
  <1>3. /\ DOMAIN creating' = Characters /\ DOMAIN creating'[c] = {}
        /\ \A d \in Characters \ {c} : creating'[d] = creating[d]
    BY <1>1 DEF RInv, Shape
  <1>4. RowsOK'
    BY <1>2, <1>3 DEF Placed, RowsOK
  <1>5. Distinct'
    BY <1>2, <1>3 DEF Placed, RowsOK, Distinct
  <1> QED BY <1>1, <1>4, <1>5 DEF Placed

LEMMA FailCreatePlaces ==
  ASSUME RInv, Placed, NEW c \in Characters, FailCreate(c)
  PROVE  Placed'
  <1>1. creating' = [creating EXCEPT ![c] = <<>>] /\ UNCHANGED <<equipables, nextRow>>
    BY DEF FailCreate, tables, service
  <1>2. /\ DOMAIN creating'[c] = {}
        /\ \A d \in Characters \ {c} : creating'[d] = creating[d]
    BY <1>1 DEF RInv, Shape
  <1> QED BY <1>1, <1>2 DEF Placed, RowsOK, Distinct

LEMMA DropItemPlaces ==
  ASSUME RInv, Placed, NEW c \in Characters, DropItem(c)
  PROVE  Placed'
  <1>1. PICK r : equipables' = Without(equipables, r)
    BY DEF DropItem
  <1>2. Fewer /\ creating' = creating /\ nextRow' = nextRow
    BY <1>1 DEF DropItem, service, Without, Fewer, RInv, Shape
  <1> QED BY <1>2, TakingPlaces

\* A table whose rows have slots of their own.
Unshared(t) == /\ t \in [DOMAIN t -> Row] /\ DOMAIN t \subseteq Nat
               /\ \A r, q \in DOMAIN t : t[r].slot = t[q].slot => r = q

LEMMA MoveSlotMoves ==
  ASSUME NEW t, Unshared(t), NEW s \in Int, NEW d \in Int
  PROVE  /\ DOMAIN MoveSlot(t, s, d) = DOMAIN t
         /\ MoveSlot(t, s, d) \in [DOMAIN t -> Row]
         /\ \A r \in DOMAIN t :
              MoveSlot(t, s, d)[r].slot = IF t[r].slot = s THEN d ELSE t[r].slot
  <1>1. CASE ~Occupied(t, s)
    BY <1>1 DEF MoveSlot, Occupied, Unshared
  <1>2. CASE Occupied(t, s)
    <2>1. PICK r \in DOMAIN t : t[r].slot = s
      BY <1>2 DEF Occupied
    <2>2. RowAt(t, s) = r
      BY <2>1 DEF RowAt, Unshared
    <2> QED BY <1>2, <2>1, <2>2, MoveSlotKeeps DEF MoveSlot, Unshared, Row
  <1> QED BY <1>1, <1>2

\* The exchange gives each of the two rows the slot of the other.
LEMMA SwapExchanges ==
  ASSUME NEW t, Unshared(t), NEW s \in Int \ {Temp}, NEW d \in Int \ {Temp}, s # d,
         \A r \in DOMAIN t : t[r].slot # Temp
  PROVE  \A r \in DOMAIN t :
           Swap(t, s, d)[r].slot = IF t[r].slot = s THEN d
                                   ELSE IF t[r].slot = d THEN s ELSE t[r].slot
  <1>1. PICK t1 : t1 = MoveSlot(t, d, Temp)
    OBVIOUS
  <1>2. PICK t2 : t2 = MoveSlot(t1, s, d)
    OBVIOUS
  <1>3. /\ DOMAIN t1 = DOMAIN t /\ t1 \in [DOMAIN t -> Row]
        /\ \A r \in DOMAIN t : t1[r].slot = IF t[r].slot = d THEN Temp ELSE t[r].slot
    <2>1. Temp \in Int
      BY DEF Temp
    <2> QED BY <1>1, <2>1, MoveSlotMoves
  <1>4. Unshared(t1)
    BY <1>3 DEF Unshared
  <1>5. /\ DOMAIN t2 = DOMAIN t /\ t2 \in [DOMAIN t -> Row]
        /\ \A r \in DOMAIN t : t2[r].slot = IF t1[r].slot = s THEN d ELSE t1[r].slot
    BY <1>2, <1>3, <1>4, MoveSlotMoves
  <1>6. Unshared(t2)
    BY <1>3, <1>4, <1>5 DEF Unshared
  <1>7. \A r \in DOMAIN t : Swap(t, s, d)[r].slot = IF t2[r].slot = Temp THEN s ELSE t2[r].slot
    BY <1>1, <1>2, <1>5, <1>6, MoveSlotMoves DEF Swap, Temp
  <1> QED BY <1>3, <1>5, <1>7

LEMMA ExchangePlaces ==
  ASSUME RInv, Placed, NEW c \in Characters, Exchange(c)
  PROVE  Placed'
  <1>1. PICK t : t = RowsOf(c)
    OBVIOUS
  <1>2. PICK s \in Slots, d \in Slots :
          /\ s # d
          /\ equipables' = [r \in DOMAIN equipables |->
                IF r \in {q \in DOMAIN t : equipables[q].slot \in {s, d}}
                THEN Swap(t, s, d)[r] ELSE equipables[r]]
    BY <1>1 DEF Exchange
  <1>3. /\ nextRow' = nextRow /\ creating' = creating /\ DOMAIN creating[c] = {}
    BY DEF Exchange, MutexTaken, service
  <1>4. /\ DOMAIN t = {r \in DOMAIN equipables : equipables[r].inventory = c}
        /\ \A r \in DOMAIN t : t[r] = equipables[r]
        /\ t \in [DOMAIN t -> Row]
    BY <1>1 DEF RowsOf, Restrict, RInv, Shape
  <1>5. Unshared(t) /\ \A r \in DOMAIN t : t[r].slot # Temp
    BY <1>4, RowsAreNat DEF Unshared, Placed, RowsOK, Distinct, RInv, Given
  <1>6. s \in Int \ {Temp} /\ d \in Int \ {Temp}
    BY RequestsAssumption
  <1>7. \A r \in DOMAIN t :
           Swap(t, s, d)[r].slot = IF t[r].slot = s THEN d
                                   ELSE IF t[r].slot = d THEN s ELSE t[r].slot
    BY <1>2, <1>5, <1>6, SwapExchanges
  <1>8. \A r \in DOMAIN t : Swap(t, s, d)[r].inventory = t[r].inventory
    BY <1>4, <1>6, SwapKeeps
  <1>9. /\ DOMAIN equipables' = DOMAIN equipables
        /\ \A r \in DOMAIN equipables : equipables'[r].inventory = equipables[r].inventory
        /\ \A r \in DOMAIN equipables \ DOMAIN t : equipables'[r] = equipables[r]
        /\ \A r \in DOMAIN t :
             equipables'[r].slot = IF equipables[r].slot = s THEN d
                                   ELSE IF equipables[r].slot = d THEN s
                                   ELSE equipables[r].slot
    BY <1>2, <1>4, <1>7, <1>8
  <1>10. RowsOK'
    BY <1>3, <1>9 DEF Placed, RowsOK
  <1>11. Distinct'
    BY <1>3, <1>4, <1>9 DEF Placed, Distinct
  <1> QED BY <1>3, <1>10, <1>11 DEF Placed

LEMMA NextPlaced ==
  ASSUME RInv, Placed, [Next]_vars
  PROVE  Placed'
  <1>1. CASE UNCHANGED vars
    BY <1>1 DEF vars, tables, service, Placed, RowsOK, Distinct
  <1>2. ASSUME NEW h \in Handlers, Handle(h) PROVE Placed'
    BY <1>2, HandleTakes, TakingPlaces
  <1>3. ASSUME NEW c \in Characters, Command(c) PROVE Placed'
    BY <1>3, CreateItemPlaces, CommitCreatePlaces, FailCreatePlaces, ExchangePlaces,
       DropItemPlaces DEF Command
  <1> QED BY <1>1, <1>2, <1>3 DEF Next

-----------------------------------------------------------------------------
LocalsOK ==
  /\ op \in [Handlers -> {"none", "get", "delete"}]
  /\ asked \in [Handlers -> Asked \cup {0}] /\ found \in [Handlers -> Characters \cup {0}]
  /\ failed \in [Handlers -> BOOLEAN] /\ touched \in [Handlers -> SUBSET Rows]
  /\ undone \subseteq Rows /\ left \subseteq Rows

LEMMA InitLocals == Init => LocalsOK
  BY DEF Init, LocalsOK

LEMMA IdsAreRows ==
  ASSUME RInv, Placed
  PROVE  1 .. nextRow - 1 \subseteq Rows
  BY RequestsAssumption DEF RInv, Shape, Placed, Rows

LEMMA MissesTouches ==
  ASSUME LocalsOK, NEW t, NEW cs, Misses(t, cs), DOMAIN t \subseteq Rows
  PROVE  touched' \in [Handlers -> SUBSET Rows]
  BY DEF LocalsOK, Misses

LEMMA EndsLocals ==
  ASSUME LocalsOK, NEW h \in Handlers, Ends(h)
  PROVE  /\ op' \in [Handlers -> {"none", "get", "delete"}]
         /\ asked' \in [Handlers -> Asked \cup {0}]
         /\ found' \in [Handlers -> Characters \cup {0}]
         /\ failed' \in [Handlers -> BOOLEAN]
  BY DEF LocalsOK, Ends

LEMMA HandleLocals ==
  ASSUME RInv, Placed, LocalsOK, NEW h \in Handlers, Handle(h)
  PROVE  LocalsOK'
  <1>1. CASE Find(h)
    <2>1. PICK o \in {"get", "delete"}, id \in Asked, c \in characters :
            /\ op' = [op EXCEPT ![h] = o] /\ asked' = [asked EXCEPT ![h] = id]
            /\ found' = [found EXCEPT ![h] = c]
      BY <1>1 DEF Find
    <2>2. UNCHANGED <<failed, touched, undone, left>>
      BY <1>1 DEF Find, meanwhile, histories
    <2>3. c \in Characters
      BY DEF RInv, Shape
    <2> QED BY <2>1, <2>2, <2>3 DEF LocalsOK
  <1>2. CASE \/ ReadInventories(h) \/ ReadBag(h) \/ ReadWorn(h) \/ DeleteStatistics(h)
             \/ DeleteRow(h) \/ LockBag(h) \/ DeleteInventory(h)
    <2>1. UNCHANGED <<op, asked, found, failed, touched, undone, left>>
      BY <1>2 DEF ReadInventories, ReadBag, ReadWorn, DeleteStatistics, DeleteRow, LockBag,
                  DeleteInventory, locals, meanwhile, histories
    <2> QED BY <2>1 DEF LocalsOK
  <1>3. CASE FailRead(h)
    <2>1. /\ UNCHANGED <<op, asked, found, touched, undone, left>>
          /\ failed' = [failed EXCEPT ![h] = TRUE]
      BY <1>3 DEF FailRead, meanwhile, histories
    <2> QED BY <2>1 DEF LocalsOK
  <1>4. CASE Respond(h)
    <2>1. Ends(h) /\ Misses(<<>>, {}) /\ UNCHANGED <<undone, left>>
      BY <1>4 DEF Respond, histories
    <2> QED BY <2>1, EndsLocals, MissesTouches DEF LocalsOK
  <1>5. CASE Commit(h)
    <2>1. PICK cs : /\ Ends(h) /\ Misses(Restrict(equipables, gone[h]), cs)
                    /\ UNCHANGED <<undone, left>>
      BY <1>5 DEF Commit, histories
    <2>2. gone[h] \subseteq Rows
      BY IdsAreRows DEF RInv, Given
    <2>3. DOMAIN Restrict(equipables, gone[h]) \subseteq Rows
      BY <2>2 DEF Restrict
    <2> QED BY <2>1, <2>3, EndsLocals, MissesTouches DEF LocalsOK
  <1>6. CASE Fail(h)
    <2>1. /\ Ends(h) /\ Misses(<<>>, {}) /\ left' = left
          /\ undone' = undone \cup gone[h] \cup ({current[h]} \ {NoRow})
      BY <1>6 DEF Fail
    <2>2. gone[h] \subseteq Rows /\ current[h] \in Rows \cup {NoRow}
      BY IdsAreRows DEF RInv, Given
    <2> QED BY <2>1, <2>2, EndsLocals, MissesTouches DEF LocalsOK
  <1> QED BY <1>1, <1>2, <1>3, <1>4, <1>5, <1>6 DEF Handle

LEMMA CommandLocals ==
  ASSUME RInv, Placed, LocalsOK, NEW c \in Characters, Command(c)
  PROVE  LocalsOK'
  <1>1. UNCHANGED <<op, asked, found, failed>>
    BY DEF Command, CreateItem, CommitCreate, FailCreate, Exchange, DropItem, locals
  <1>2. DOMAIN creating[c] \subseteq Rows /\ DOMAIN equipables \subseteq Rows
    BY IdsAreRows DEF RInv, Given
  <1>3. CASE CreateItem(c)
    BY <1>1, <1>3 DEF CreateItem, meanwhile, histories, LocalsOK
  <1>4. CASE CommitCreate(c)
    BY <1>1, <1>2, <1>4, MissesTouches DEF CommitCreate, histories, LocalsOK
  <1>5. CASE FailCreate(c)
    BY <1>1, <1>2, <1>5 DEF FailCreate, meanwhile, LocalsOK
  <1>6. CASE Exchange(c)
    <2>1. PICK rows \in SUBSET DOMAIN RowsOf(c) : Misses(Restrict(equipables, rows), {})
      BY <1>6 DEF Exchange
    <2>2. DOMAIN Restrict(equipables, rows) \subseteq Rows
      BY <1>2 DEF RowsOf, Restrict
    <2> QED BY <1>1, <1>6, <2>1, <2>2, MissesTouches DEF Exchange, histories, LocalsOK
  <1>7. CASE DropItem(c)
    <2>1. PICK r \in DOMAIN RowsOf(c) : /\ Misses(Restrict(equipables, {r}), {})
                                        /\ left' = left \cup {r}
      BY <1>7 DEF DropItem
    <2>2. r \in Rows /\ DOMAIN Restrict(equipables, {r}) \subseteq Rows
      BY <1>2 DEF RowsOf, Restrict
    <2> QED BY <1>1, <1>7, <2>1, <2>2, MissesTouches DEF DropItem, LocalsOK
  <1> QED BY <1>3, <1>4, <1>5, <1>6, <1>7 DEF Command

LEMMA NextLocals ==
  ASSUME RInv, Placed, LocalsOK, [Next]_vars
  PROVE  LocalsOK'
  <1>1. CASE UNCHANGED vars
    BY <1>1 DEF vars, locals, meanwhile, histories, LocalsOK
  <1> QED BY <1>1, HandleLocals, CommandLocals DEF Next

LEMMA PlacedTypes ==
  ASSUME RInv, Placed, LocalsOK
  PROVE  TypeOK
  <1> USE DEF RInv
  <1>1. 1 .. nextRow - 1 \subseteq Rows
    BY IdsAreRows
  <1>2. nextRow \in 1 .. MaxRow + 1
    BY RequestsAssumption DEF Shape, Placed
  <1>3. \A r \in DOMAIN equipables :
          equipables[r] \in [inventory : Characters, slot : Slots \cup Rows]
    BY DEF Shape, Placed, RowsOK, Row
  <1>4. inventory \in [Handlers -> Characters \cup {0}]
    BY DEF LocalsOK, Knows, Shape
  <1>5. \A h \in Handlers : bag[h] \cup Range(equipment[h]) \cup gone[h] \subseteq Rows
    BY <1>1 DEF Given, Snapshot
  <1>6. current \in [Handlers -> Rows \cup {NoRow}]
    BY <1>1 DEF Given, Shape
  <1>7. /\ characters \subseteq Characters /\ inventories \subseteq Characters
        /\ statistics \subseteq 1 .. nextRow - 1 /\ DOMAIN equipables \subseteq 1 .. nextRow - 1
        /\ \A c \in Characters : DOMAIN creating[c] \subseteq 1 .. nextRow - 1
        /\ pc \in [Handlers -> Step] /\ removed \in [Handlers -> BOOLEAN]
    BY DEF Shape, Given
  <1> QED BY <1>2, <1>3, <1>4, <1>5, <1>6, <1>7 DEF TypeOK, LocalsOK

\* Where the rows are and what the requests hold, on top of whose rows they read.
PInv == RInv /\ Placed /\ LocalsOK

THEOREM PlacesInvariant == Spec => []PInv
  <1>1. Init => PInv
    BY InitR, InitPlaced, InitLocals DEF PInv
  <1>2. PInv /\ [Next]_vars => PInv'
    BY NextR, NextPlaced, NextLocals DEF PInv
  <1> QED BY <1>1, <1>2, PTL DEF Spec

\* Every row of the tables, of an open create and of a request's snapshot is one
\* that was generated, and no row is left in the slot exchanges park rows in
\* (CharacterRequests.TypeOK).
THEOREM RequestTypes == Spec => []TypeOK
  BY PlacesInvariant, PlacedTypes, PTL DEF PInv

-----------------------------------------------------------------------------
\* Row r is where the snapshot of h has it.
WornAt(h, r) ==
  LET e == equipment[h]
      slot == equipables[r].slot
  IN /\ slot < 0 => Place(slot) \in DOMAIN e /\ e[Place(slot)] = r
     /\ \A place \in DOMAIN e : e[place] = r => slot < 0 /\ Place(slot) = place

ToBeDeleted(h, r) ==
  LET slot == equipables[r].slot IN
  /\ slot # -100
  /\ slot > 0 => r \in bag[h] \cup gone[h]
  /\ slot \in -99 .. -1 => r \in EquipablesOf(equipment[h]) \cup gone[h]

SeesRow(h, r) ==
  /\ pc[h] \in {"worn", "answered"} => (r \in bag[h] <=> equipables[r].slot > 0)
  /\ pc[h] = "answered" => WornAt(h, r)
  /\ pc[h] \in {"equipment", "items", "commit"} => ToBeDeleted(h, r)

Untouched(h) == {r \in DOMAIN equipables : equipables[r].inventory = found[h]} \ touched[h]

\* What the snapshot of h says of rows that nobody else has changed since.
Sees(h) ==
  /\ ~failed[h] /\ ~removed[h] => \A r \in Untouched(h) : SeesRow(h, r)
  /\ pc[h] \in {"items", "commit"} => EquipablesOf(equipment[h]) = {}
  /\ pc[h] = "commit" => bag[h] = {}
  /\ pc[h] # "idle" /\ asked[h] # 0 => found[h] = asked[h]

SeesAll == \A h \in Handlers : Sees(h)

LEMMA InitSees == Init => SeesAll
  BY DEF Init, SeesAll, Sees, SeesRow

\* A request that others go on beside: the rows it has not been told of are as
\* they were.
Stays(g) ==
  /\ pc'[g] = pc[g] /\ asked'[g] = asked[g] /\ found'[g] = found[g]
  /\ bag'[g] = bag[g] /\ equipment'[g] = equipment[g] /\ gone'[g] = gone[g]
  /\ failed'[g] = failed[g]

Knowing(g) ==
  pc[g] # "idle" =>
    /\ removed[g] => removed'[g]
    /\ touched[g] \subseteq touched'[g]
    /\ \A r \in DOMAIN equipables' :
         /\ equipables'[r].inventory = found[g]
         /\ r \notin touched'[g]
         => r \in DOMAIN equipables /\ equipables'[r] = equipables[r]

LEMMA StayingSees ==
  ASSUME NEW g \in Handlers, Sees(g), Stays(g), Knowing(g)
  PROVE  Sees(g)'
  <1>1. CASE pc[g] = "idle"
    BY <1>1 DEF Sees, SeesRow, Stays
  <1>2. CASE pc[g] # "idle"
    <2>1. ASSUME NEW r \in Untouched(g)' PROVE r \in Untouched(g) /\ equipables'[r] = equipables[r]
      BY <1>2 DEF Untouched, Stays, Knowing
    <2>2. ASSUME NEW r, equipables'[r] = equipables[r], SeesRow(g, r) PROVE SeesRow(g, r)'
      BY <2>2 DEF SeesRow, WornAt, ToBeDeleted, Stays
    <2>3. ~failed'[g] /\ ~removed'[g] => \A r \in Untouched(g)' : SeesRow(g, r)'
      BY <1>2, <2>1, <2>2 DEF Sees, Stays, Knowing
    <2> QED BY <2>3 DEF Sees, Stays
  <1> QED BY <1>1, <1>2

\* A step changes rows that it tells of, and no others.
LEMMA MissesKnowing ==
  ASSUME PInv, NEW g \in Handlers, NEW t, NEW cs, Misses(t, cs), pc'[g] = pc[g],
         \A r \in DOMAIN equipables' :
           \/ r \in DOMAIN equipables /\ equipables'[r] = equipables[r]
           \/ r \in DOMAIN t /\ t[r].inventory = equipables'[r].inventory
  PROVE  Knowing(g)
  BY DEF PInv, LocalsOK, RInv, Shape, Misses, Knowing

LEMMA QuietKnowing ==
  ASSUME NEW g \in Handlers, UNCHANGED <<equipables, touched, removed>>
  PROVE  Knowing(g)
  BY DEF Knowing

LEMMA EndsStays ==
  ASSUME PInv, NEW h \in Handlers, Ends(h), NEW g \in Handlers \ {h}
  PROVE  Stays(g)
  BY DEF PInv, LocalsOK, RInv, Shape, Ends, Goes, Stays

LEMMA OthersSee ==
  ASSUME PInv, SeesAll, NEW h \in Handlers, Handle(h), NEW g \in Handlers \ {h}
  PROVE  Sees(g)'
  <1> USE DEF PInv, RInv
  <1>1. Stays(g)
    <2>1. CASE Respond(h) \/ Commit(h) \/ Fail(h)
      BY <2>1, EndsStays DEF Respond, Commit, Fail
    <2>2. CASE Find(h) \/ ReadInventories(h) \/ ReadBag(h) \/ ReadWorn(h) \/ FailRead(h)
      BY <2>2 DEF Find, ReadInventories, ReadBag, ReadWorn, FailRead, Goes, Shape, LocalsOK,
                  Stays
    <2>3. CASE DeleteStatistics(h) \/ DeleteRow(h) \/ LockBag(h) \/ DeleteInventory(h)
      BY <2>3 DEF DeleteStatistics, DeleteRow, LockBag, DeleteInventory, Goes, locals, Shape,
                  LocalsOK, Stays
    <2> QED BY <2>1, <2>2, <2>3 DEF Handle
  <1>2. Knowing(g)
    <2>1. CASE Respond(h) \/ Fail(h)
      <3>1. Misses(<<>>, {}) /\ equipables' = equipables
        BY <2>1 DEF Respond, Fail, tables
      <3> QED BY <1>1, <3>1, MissesKnowing DEF Stays
    <2>2. CASE Commit(h)
      <3>1. PICK cs : Misses(Restrict(equipables, gone[h]), cs)
        BY <2>2 DEF Commit
      <3>2. Fewer
        BY HandleTakes
      <3> QED BY <1>1, <3>1, <3>2, MissesKnowing DEF Stays, Fewer
    <2>3. CASE ~(Respond(h) \/ Fail(h) \/ Commit(h))
      <3>1. UNCHANGED <<equipables, touched, removed>>
        BY <2>3 DEF Handle, Find, ReadInventories, ReadBag, ReadWorn, FailRead,
                    DeleteStatistics, DeleteRow, LockBag, DeleteInventory, tables, meanwhile
      <3> QED BY <3>1, QuietKnowing
    <2> QED BY <2>1, <2>2, <2>3
  <1> QED BY <1>1, <1>2, StayingSees DEF SeesAll

LEMMA CommandSees ==
  ASSUME PInv, SeesAll, NEW c \in Characters, Command(c), NEW g \in Handlers
  PROVE  Sees(g)'
  <1> USE DEF PInv, RInv
  <1>1. UNCHANGED <<pc, locals>> /\ Stays(g)
    BY DEF Command, CreateItem, CommitCreate, FailCreate, Exchange, DropItem, locals, Stays
  <1>2. CASE CreateItem(c) \/ FailCreate(c)
    BY <1>2, QuietKnowing, <1>1, StayingSees DEF CreateItem, FailCreate, tables, meanwhile, SeesAll
  <1>3. CASE CommitCreate(c)
    <2>1. /\ Misses(creating[c], {})
          /\ equipables' = [r \in DOMAIN equipables \cup DOMAIN creating[c] |->
                              IF r \in DOMAIN creating[c] THEN creating[c][r]
                              ELSE equipables[r]]
      BY <1>3 DEF CommitCreate
    <2>2. \A r \in DOMAIN equipables' :
            \/ r \in DOMAIN equipables /\ equipables'[r] = equipables[r]
            \/ r \in DOMAIN creating[c] /\ creating[c][r].inventory = equipables'[r].inventory
      BY <2>1
    <2> QED BY <1>1, <2>1, <2>2, MissesKnowing, StayingSees DEF SeesAll
  <1>4. CASE Exchange(c)
    <2>1. PICK t : t = RowsOf(c)
      OBVIOUS
    <2>2. PICK s \in Slots, d \in Slots, rows \in SUBSET DOMAIN t :
            /\ Misses(Restrict(equipables, rows), {})
            /\ equipables' = [r \in DOMAIN equipables |->
                                IF r \in rows THEN Swap(t, s, d)[r] ELSE equipables[r]]
      BY <1>4, <2>1 DEF Exchange
    <2>3. /\ t \in [DOMAIN t -> Row] /\ DOMAIN t \subseteq DOMAIN equipables
          /\ \A r \in DOMAIN t : t[r] = equipables[r]
      BY <2>1 DEF RowsOf, Restrict, Shape
    <2>4. \A r \in DOMAIN t : Swap(t, s, d)[r].inventory = t[r].inventory
      BY <2>3, SwapKeeps, RequestsAssumption
    <2>5. PICK u : u = Restrict(equipables, rows)
      OBVIOUS
    <2>6. DOMAIN u = rows /\ \A r \in rows : u[r] = equipables[r]
      BY <2>5 DEF Restrict
    <2>7. \A r \in DOMAIN equipables' :
            \/ r \in DOMAIN equipables /\ equipables'[r] = equipables[r]
            \/ r \in DOMAIN u /\ u[r].inventory = equipables'[r].inventory
      BY <2>2, <2>3, <2>4, <2>6
    <2>8. Misses(u, {}) /\ pc'[g] = pc[g]
      BY <1>1, <2>2, <2>5
    <2> QED BY <1>1, <2>7, <2>8, MissesKnowing, StayingSees DEF SeesAll
  <1>5. CASE DropItem(c)
    <2>1. PICK r : /\ Misses(Restrict(equipables, {r}), {})
                   /\ equipables' = Without(equipables, r)
      BY <1>5 DEF DropItem
    <2>2. \A q \in DOMAIN equipables' : q \in DOMAIN equipables /\ equipables'[q] = equipables[q]
      BY <2>1 DEF Without
    <2> QED BY <1>1, <2>1, <2>2, MissesKnowing, StayingSees DEF SeesAll
  <1> QED BY <1>2, <1>3, <1>4, <1>5 DEF Command

-----------------------------------------------------------------------------
\* A step that ends a request leaves nothing to be known of it.
LEMMA IdleSees ==
  ASSUME NEW h \in Handlers, pc'[h] = "idle"
  PROVE  Sees(h)'
  BY DEF Sees, SeesRow

LEMMA FindSees ==
  ASSUME PInv, NEW h \in Handlers, Find(h)
  PROVE  Sees(h)'
  <1> USE DEF PInv, RInv
  <1>1. PICK id \in Asked, c \in characters :
          /\ Selects(id, c) /\ found' = [found EXCEPT ![h] = c]
          /\ asked' = [asked EXCEPT ![h] = id]
    BY DEF Find
  <1>2. pc'[h] = "inventories" /\ found'[h] = c /\ asked'[h] = id
    BY <1>1 DEF Find, Goes, Shape, LocalsOK
  <1> QED BY <1>1, <1>2 DEF Sees, SeesRow, Selects

LEMMA ReadInventoriesSees ==
  ASSUME PInv, SeesAll, NEW h \in Handlers, ReadInventories(h)
  PROVE  Sees(h)'
  <1> USE DEF PInv, RInv
  <1>1. /\ pc[h] = "inventories"
        /\ pc'[h] = IF found[h] \in inventories THEN "bag" ELSE "worn"
        /\ UNCHANGED <<asked, found, removed>>
    BY DEF ReadInventories, Goes, Shape, meanwhile
  <1>2. pc'[h] = "worn" => removed'[h]
    BY <1>1 DEF Knows, Shape
  <1> QED BY <1>1, <1>2 DEF SeesAll, Sees, SeesRow

LEMMA ReadBagSees ==
  ASSUME PInv, SeesAll, NEW h \in Handlers, ReadBag(h)
  PROVE  Sees(h)'
  <1> USE DEF PInv, RInv
  <1>1. /\ pc[h] = "bag" /\ pc'[h] = "worn" /\ bag'[h] = InInventory(RowsOf(found[h]))
        /\ UNCHANGED <<asked, found, equipables>>
    BY DEF ReadBag, Goes, Shape, tables
  <1>2. \A r \in DOMAIN equipables : equipables[r].inventory = found[h] =>
          (r \in InInventory(RowsOf(found[h])) <=> equipables[r].slot > 0)
    BY DEF InInventory, RowsOf, Restrict
  <1> QED BY <1>1, <1>2 DEF SeesAll, Sees, SeesRow, Untouched

\* Rows in distinct slots below zero are put in distinct places.
LEMMA PlaceTells ==
  ASSUME NEW s \in Int, NEW u \in Int, s < 0, u < 0, Place(s) = Place(u)
  PROVE  s = u
  BY DEF Place

LEMMA PlacesOfPositions ==
  0 \notin Positions /\ \A p \in Positions \ {99} : p \in Int /\ p < 0 /\ p > -100
  BY DEF Positions, PositionFromType, Range

\* The fold has each worn row in its place, and no place holds another.
LEMMA FoldShows ==
  ASSUME PInv, NEW h \in Handlers, NEW rows,
         rows = {r \in DOMAIN equipables :
                   equipables[r].slot < 0 /\ equipables[r].inventory = found[h]},
         NEW e \in FoldEquipable(equipables, rows),
         NEW r \in DOMAIN equipables, equipables[r].inventory = found[h]
  PROVE  LET slot == equipables[r].slot IN
         /\ slot < 0 => Place(slot) \in DOMAIN e /\ e[Place(slot)] = r
         /\ \A place \in DOMAIN e : e[place] = r => slot < 0 /\ Place(slot) = place
  <1> USE DEF PInv, RInv
  <1>1. /\ DOMAIN e = {Place(equipables[q].slot) : q \in rows}
        /\ \A place \in DOMAIN e : e[place] \in rows /\ Place(equipables[e[place]].slot) = place
    BY DEF FoldEquipable
  <1>2. \A q \in DOMAIN equipables : equipables[q].slot \in Int
    BY DEF Shape, Row
  <1>3. ASSUME equipables[r].slot < 0
        PROVE Place(equipables[r].slot) \in DOMAIN e /\ e[Place(equipables[r].slot)] = r
    <2>1. r \in rows
      BY <1>3
    <2>2. PICK place : place = Place(equipables[r].slot)
      OBVIOUS
    <2>3. place \in DOMAIN e
      BY <1>1, <2>1, <2>2
    <2>4. PICK q : q = e[place]
      OBVIOUS
    <2>5. q \in rows /\ Place(equipables[q].slot) = place
      BY <1>1, <2>3, <2>4
    <2>6. equipables[q].slot = equipables[r].slot
      BY <1>2, <1>3, <2>2, <2>5, PlaceTells
    <2>7. q = r
      BY <2>5, <2>6 DEF Placed, Distinct
    <2> QED BY <2>2, <2>3, <2>4, <2>7
  <1> QED BY <1>1, <1>3

LEMMA ReadWornSees ==
  ASSUME PInv, SeesAll, NEW h \in Handlers, ReadWorn(h)
  PROVE  Sees(h)'
  <1> USE DEF PInv, RInv
  <1>1. PICK e \in FoldEquipable(equipables, WornRows(h)) :
          equipment' = [equipment EXCEPT ![h] = e]
    BY DEF ReadWorn
  <1>2. /\ pc[h] = "worn" /\ pc'[h] \in {"answered", "equipment"} /\ equipment'[h] = e
        /\ UNCHANGED <<equipables, asked, found, bag, gone, failed, removed, touched>>
        /\ \A r \in WornRows(h) : Foldable(equipables[r].slot)
    BY <1>1 DEF ReadWorn, AfterReading, Goes, Shape, tables, meanwhile
  <1>3. ASSUME ~failed[h], ~removed[h], NEW r \in Untouched(h)
        PROVE SeesRow(h, r)'
    <2>1. inventory[h] = found[h] /\ found[h] # 0
      BY <1>2, <1>3 DEF Knows
    <2>2. WornRows(h) = {q \in DOMAIN equipables :
                           equipables[q].slot < 0 /\ equipables[q].inventory = found[h]}
      BY <2>1 DEF WornRows, Equipment, Selects
    <2>3. r \in DOMAIN equipables /\ equipables[r].inventory = found[h]
      BY DEF Untouched
    <2>4. /\ equipables[r].slot < 0 =>
               Place(equipables[r].slot) \in DOMAIN e /\ e[Place(equipables[r].slot)] = r
          /\ \A place \in DOMAIN e :
               e[place] = r => equipables[r].slot < 0 /\ Place(equipables[r].slot) = place
      BY <2>2, <2>3, FoldShows
    <2>5. r \in bag[h] <=> equipables[r].slot > 0
      BY <1>2, <1>3 DEF SeesAll, Sees, SeesRow
    <2>6. WornAt(h, r)'
      BY <1>2, <2>4 DEF WornAt
    <2>7. ToBeDeleted(h, r)'
      <3>1. PICK slot \in Int : slot = equipables[r].slot
        BY <2>3 DEF Shape, Row
      <3>2. slot # -100
        <4>1. Place(-100)[2] = 0
          BY DEF Place
        <4>2. r \in WornRows(h) => Place(slot)[2] \in Positions
          BY <1>2, <3>1 DEF Foldable
        <4> QED BY <2>2, <2>3, <3>1, <4>1, <4>2, PlacesOfPositions
      <3>3. ASSUME slot \in -99 .. -1 PROVE r \in EquipablesOf(e)
        <4>1. Place(slot) = <<"equipable", slot>>
          BY <3>3 DEF Place
        <4> QED BY <2>4, <3>1, <3>3, <4>1 DEF EquipablesOf
      <3> QED BY <1>2, <2>5, <3>1, <3>2, <3>3 DEF ToBeDeleted
    <2> QED BY <1>2, <2>5, <2>6, <2>7 DEF SeesRow
  <1> QED BY <1>2, <1>3 DEF SeesAll, Sees, Untouched

LEMMA FailReadSees ==
  ASSUME PInv, SeesAll, NEW h \in Handlers, FailRead(h)
  PROVE  Sees(h)'
  <1>1. /\ pc[h] # "idle" /\ pc'[h] \in {"answered", "equipment"} /\ failed'[h]
        /\ UNCHANGED <<asked, found>>
    BY DEF PInv, LocalsOK, RInv, Shape, FailRead, AfterReading, Goes
  <1> QED BY <1>1 DEF SeesAll, Sees

LEMMA DeleteRowSees ==
  ASSUME PInv, SeesAll, NEW h \in Handlers, DeleteRow(h)
  PROVE  Sees(h)'
  <1> USE DEF PInv, RInv
  <1>1. PICK r : r = current[h]
    OBVIOUS
  <1>2. /\ pc[h] \in {"equipment", "items"}
        /\ gone'[h] = gone[h] \cup Matches(r)
        /\ UNCHANGED <<equipables, pc, asked, found, failed, removed, touched>>
    BY <1>1 DEF DeleteRow, Told, Shape, tables, meanwhile
  <1>3. r \in DOMAIN equipables => r \in gone'[h]
    BY <1>2 DEF Matches
  <1>4. bag[h] \subseteq bag'[h] \cup {r}
    BY <1>1 DEF DeleteRow, Shape
  <1>5. /\ EquipablesOf(equipment[h]) \subseteq EquipablesOf(equipment'[h]) \cup {r}
        /\ EquipablesOf(equipment'[h]) \subseteq EquipablesOf(equipment[h])
    <2>1. CASE pc[h] = "items"
      BY <2>1 DEF DeleteRow
    <2>2. CASE pc[h] # "items"
      <3>1. PICK e, f : e = equipment[h] /\ f = equipment'[h]
        OBVIOUS
      <3>2. f = Restrict(e, {place \in DOMAIN e : e[place] # r})
        BY <1>1, <2>2, <3>1 DEF DeleteRow, Shape
      <3>3. /\ DOMAIN f = {place \in DOMAIN e : e[place] # r}
            /\ \A place \in DOMAIN f : f[place] = e[place]
        BY <3>2 DEF Restrict
      <3>4. EquipablesOf(e) \subseteq EquipablesOf(f) \cup {r}
        BY <3>3 DEF EquipablesOf
      <3>5. EquipablesOf(f) \subseteq EquipablesOf(e)
        BY <3>3 DEF EquipablesOf
      <3> QED BY <3>1, <3>4, <3>5
    <2> QED BY <2>1, <2>2
  <1>6. ASSUME NEW q \in Untouched(h), ToBeDeleted(h, q) PROVE ToBeDeleted(h, q)'
    <2>1. q \in DOMAIN equipables
      BY DEF Untouched
    <2> QED BY <1>2, <1>3, <1>4, <1>5, <1>6, <2>1 DEF ToBeDeleted
  <1>7. ASSUME ~failed[h], ~removed[h], NEW q \in Untouched(h) PROVE ToBeDeleted(h, q)
    BY <1>2, <1>7 DEF SeesAll, Sees, SeesRow
  <1> QED BY <1>2, <1>5, <1>6, <1>7 DEF SeesAll, Sees, SeesRow, Untouched

LEMMA AdvancingSees ==
  ASSUME PInv, SeesAll, NEW h \in Handlers, LockBag(h) \/ DeleteInventory(h)
  PROVE  Sees(h)'
  <1> USE DEF PInv, RInv
  <1>1. UNCHANGED <<equipables, asked, found, bag, equipment, gone, failed, removed, touched>>
    BY DEF LockBag, DeleteInventory, tables, locals, meanwhile
  <1>2. /\ pc[h] \in {"equipment", "items"} /\ pc'[h] \in {"items", "commit"}
        /\ EquipablesOf(equipment[h]) = {} /\ (pc'[h] = "commit" => bag[h] = {})
    BY DEF LockBag, DeleteInventory, Goes, Shape, ToDelete, SeesAll, Sees
  <1> QED BY <1>1, <1>2 DEF SeesAll, Sees, SeesRow, Untouched, ToBeDeleted

LEMMA DeletingSees ==
  ASSUME PInv, SeesAll, NEW h \in Handlers, DeleteStatistics(h)
  PROVE  Sees(h)'
  <1>1. UNCHANGED <<equipables, pc, asked, found, bag, equipment, gone, failed, removed, touched>>
    BY DEF DeleteStatistics, tables, meanwhile
  <1> QED BY <1>1 DEF SeesAll, Sees, SeesRow, Untouched, ToBeDeleted, WornAt

LEMMA HandleSees ==
  ASSUME PInv, SeesAll, NEW h \in Handlers, Handle(h)
  PROVE  SeesAll'
  <1>1. Sees(h)'
    <2>1. Respond(h) \/ Commit(h) \/ Fail(h) => pc'[h] = "idle"
      BY DEF Respond, Commit, Fail, Ends, Goes, PInv, RInv, Shape
    <2> QED BY <2>1, IdleSees, FindSees, ReadInventoriesSees, ReadBagSees, ReadWornSees,
               FailReadSees, DeletingSees, DeleteRowSees, AdvancingSees DEF Handle
  <1> QED BY <1>1, OthersSee DEF SeesAll

LEMMA NextSees == PInv /\ SeesAll /\ [Next]_vars => SeesAll'
  <1> SUFFICES ASSUME PInv, SeesAll, [Next]_vars PROVE SeesAll'
    OBVIOUS
  <1>1. CASE UNCHANGED vars
    <2>1. \A g \in Handlers : Stays(g) /\ Knowing(g)
      BY <1>1, QuietKnowing DEF vars, tables, locals, meanwhile, Stays
    <2> QED BY <2>1, StayingSees DEF SeesAll
  <1>2. ASSUME NEW c \in Characters, Command(c) PROVE SeesAll'
    BY <1>2, CommandSees DEF SeesAll
  <1> QED BY <1>1, <1>2, HandleSees DEF Next

THEOREM SnapshotsInvariant == Spec => [](PInv /\ SeesAll)
  <1>1. Init => PInv /\ SeesAll
    BY InitR, InitPlaced, InitLocals, InitSees DEF PInv
  <1>2. PInv /\ SeesAll /\ [Next]_vars => PInv' /\ SeesAll'
    BY NextR, NextPlaced, NextLocals, NextSees DEF PInv
  <1> QED BY <1>1, <1>2, PTL DEF Spec

LEMMA AnswerShows ==
  ASSUME PInv, SeesAll
  PROVE  ShowsWhereItIs
  <1> SUFFICES ASSUME NEW h \in Handlers, pc[h] = "answered", ~failed[h], ~removed[h],
                      NEW r \in DOMAIN RowsOf(found[h]) \ touched[h]
               PROVE  /\ r \in Answer(h).inventory <=> equipables[r].slot > 0
                      /\ \A p \in Positions \ {99} :
                           /\ Answer(h).equipment[p].equipable = r <=> equipables[r].slot = p
                           /\ Answer(h).equipment[p].cashEquipable = r
                                <=> equipables[r].slot = p - 100
    BY DEF ShowsWhereItIs
  <1> USE DEF PInv, RInv
  <1>1. r \in Untouched(h) /\ r \in DOMAIN equipables /\ equipables[r].slot \in Int
    BY DEF RowsOf, Restrict, Untouched, Shape, Row
  <1>2. SeesRow(h, r)
    BY <1>1 DEF SeesAll, Sees
  <1>3. r # NoRow
    BY <1>1 DEF Given, Shape, NoRow
  <1>4. PICK e : e = equipment[h]
    OBVIOUS
  <1>5. PICK slot \in Int : slot = equipables[r].slot
    BY <1>1
  <1>6. /\ slot < 0 => Place(slot) \in DOMAIN e /\ e[Place(slot)] = r
        /\ \A place \in DOMAIN e : e[place] = r => slot < 0 /\ Place(slot) = place
    BY <1>2, <1>4, <1>5 DEF SeesRow, WornAt
  <1>7. Answer(h).inventory = bag[h]
        /\ \A p \in Positions : Answer(h).equipment[p] = TransformSlot(e, p)
    BY <1>4 DEF Answer, Transform
  <1>8. ASSUME NEW p \in Positions \ {99}
        PROVE /\ TransformSlot(e, p).equipable = r <=> slot = p
              /\ TransformSlot(e, p).cashEquipable = r <=> slot = p - 100
    <2>1. p \in Int /\ p < 0 /\ p > -100
      BY PlacesOfPositions
    <2>2. (Place(slot) = <<"equipable", p>> /\ slot < 0) <=> slot = p
      BY <2>1 DEF Place
    <2>3. (Place(slot) = <<"cashEquipable", p>> /\ slot < 0) <=> slot = p - 100
      BY <2>1 DEF Place
    <2>4. \A place : (place \in DOMAIN e /\ e[place] = r) <=> (slot < 0 /\ Place(slot) = place)
      BY <1>6
    <2>5. /\ TransformSlot(e, p).equipable = r <=>
               <<"equipable", p>> \in DOMAIN e /\ e[<<"equipable", p>>] = r
          /\ TransformSlot(e, p).cashEquipable = r <=>
               <<"cashEquipable", p>> \in DOMAIN e /\ e[<<"cashEquipable", p>>] = r
      BY <1>3 DEF TransformSlot
    <2> QED BY <2>2, <2>3, <2>4, <2>5
  <1> QED BY <1>2, <1>5, <1>7, <1>8 DEF SeesRow

\* GET shows a row that nobody moved while it was read once and where it is,
\* unless a statement of its failed or the character was deleted meanwhile
\* (InventoryModelDecorator, FoldEquipable, Transform).
THEOREM AnswersAreTrue == Spec => []ShowsWhereItIs
  BY SnapshotsInvariant, AnswerShows, PTL

LEMMA CommitLeaves ==
  ASSUME PInv, SeesAll, NEW h \in Handlers, Commit(h), asked[h] # 0, ~removed[h],
         NEW r \in DOMAIN equipables', equipables'[r].inventory = asked[h]
  PROVE  r \in touched[h] \/ equipables'[r].slot = 0 \/ equipables'[r].slot < -100
  <1> USE DEF PInv, RInv
  <1>1. pc[h] = "commit" /\ ~failed[h] /\ found[h] = asked[h]
        /\ bag[h] = {} /\ EquipablesOf(equipment[h]) = {}
    BY DEF Commit, Executes, SeesAll, Sees
  <1>2. r \in DOMAIN equipables /\ r \notin gone[h] /\ equipables'[r] = equipables[r]
    BY DEF Commit, Restrict
  <1>3. ASSUME r \notin touched[h] PROVE equipables[r].slot = 0 \/ equipables[r].slot < -100
    <2>1. r \in Untouched(h)
      BY <1>1, <1>2, <1>3 DEF Untouched
    <2>2. ToBeDeleted(h, r)
      BY <1>1, <2>1 DEF SeesAll, Sees, SeesRow
    <2>3. PICK slot \in Int : slot = equipables[r].slot
      BY <1>2 DEF Shape, Row
    <2> QED BY <1>1, <1>2, <2>2, <2>3 DEF ToBeDeleted
  <1> QED BY <1>2, <1>3

LEMMA NextLeaves ==
  ASSUME PInv, SeesAll, [Next]_vars, NEW h \in Handlers, Commits(h), asked[h] # 0, ~removed[h]
  PROVE  Commit(h)
  <1> USE DEF PInv, RInv
  <1>1. pc[h] = "commit" /\ pc'[h] = "idle" /\ asked[h] \notin characters'
    BY DEF Commits
  <1>2. asked[h] \in characters
    BY <1>1 DEF Knows, SeesAll, Sees
  <1>3. characters' # characters
    BY <1>1, <1>2
  <1>4. \E g \in Handlers : Commit(g)
    BY <1>3 DEF Next, Command, Handle, vars, tables, Find, ReadInventories, ReadBag, ReadWorn,
                FailRead, Respond, DeleteStatistics, DeleteRow, LockBag, DeleteInventory, Fail,
                CreateItem, CommitCreate, FailCreate, Exchange, DropItem
  <1>5. PICK g \in Handlers : Commit(g)
    BY <1>4
  <1>6. g = h
    BY <1>1, <1>5 DEF Commit, Ends, Goes, Shape
  <1> QED BY <1>5, <1>6

\* What a deletion leaves of its character was committed by others meanwhile, is
\* in slot 0, or is a cash item that is worn (equipment.Delete, DeleteInventory).
THEOREM DeletionLeaves == Spec => LeavesOnlyIf
  <1>1. PInv /\ SeesAll /\ [Next]_vars =>
          [\A h \in Handlers : Commits(h) /\ asked[h] # 0 /\ ~removed[h] =>
             \A r \in DOMAIN equipables' :
               equipables'[r].inventory = asked[h] =>
                 r \in touched[h] \/ equipables'[r].slot = 0
                 \/ equipables'[r].slot < -100]_vars
    BY NextLeaves, CommitLeaves
  <1> QED BY <1>1, SnapshotsInvariant, PTL DEF Spec, LeavesOnlyIf
=============================================================================
