------------------------- MODULE CharacterRequests -------------------------
(***************************************************************************)
(* Reading and deleting characters of one tenant, statement by statement,  *)
(* beside the commands on their equipables, each of which is one step here *)
(* (InventoryService has them in detail), and beside the other service,    *)
(* which has the statistics of the equipables under their reference ids.   *)
(* Reads are of what is committed; a row deleted by an open transaction is *)
(* locked.  InventoryDelete has the locks of one inventory in detail.      *)
(***************************************************************************)
EXTENDS EquipmentView

CONSTANTS Handlers,    \* goroutines that serve GET and DELETE
          Characters,  \* ids of the characters; each is the id of its inventory
          Asked,       \* ids that requests name
          Slots,       \* slots that commands move rows to
          MaxRow       \* bound: equipables ever generated

ASSUME RequestsAssumption ==
  /\ Characters \subseteq Nat \ {0} /\ Asked \subseteq Nat
  /\ Slots \subseteq Int \ {Temp} /\ MaxRow \in Nat

VARIABLES
  characters,   \* committed rows of characters
  inventories,  \* committed rows of equip inventories, by character
  equipables,   \* committed rows, by reference id: inventory and slot
  statistics,   \* the reference ids the other service knows
  nextRow,      \* the reference id it gives out next
  creating,     \* rows of an open create command, by character
  pc, op,       \* where each goroutine is, and what it serves
  asked,        \* the id it was asked for
  found,        \* the character it has read
  inventory,    \* the id of the inventory it has read, 0 if none
  bag,          \* the rows of the bag it has read, and is yet to delete
  equipment,    \* the same of what is worn
  current,      \* the row whose statistics are deleted: the next to be deleted
  gone,         \* rows its transaction has deleted
  failed,       \* a statement has failed
  touched,      \* history: rows that others have committed meanwhile
  removed,      \* history: its character was deleted meanwhile
  undone,       \* history: rows that a deletion was rolled back for
  left          \* history: rows dropped, and rows never committed

tables == <<characters, inventories, equipables>>
service == <<statistics, nextRow>>
locals == <<op, asked, found, inventory, bag, equipment, current, gone, failed>>
meanwhile == <<touched, removed>>
histories == <<undone, left>>
vars == <<tables, service, creating, pc, locals, meanwhile, histories>>

Init == /\ characters = Characters /\ inventories = Characters
        /\ equipables = <<>> /\ statistics = {} /\ nextRow = 1
        /\ creating = [c \in Characters |-> <<>>]
        /\ pc = [h \in Handlers |-> "idle"]
        /\ op = [h \in Handlers |-> "none"]
        /\ asked = [h \in Handlers |-> 0] /\ found = [h \in Handlers |-> 0]
        /\ inventory = [h \in Handlers |-> 0]
        /\ bag = [h \in Handlers |-> {}]
        /\ equipment = [h \in Handlers |-> NoEquipment]
        /\ current = [h \in Handlers |-> NoRow]
        /\ gone = [h \in Handlers |-> {}]
        /\ failed = [h \in Handlers |-> FALSE]
        /\ touched = [h \in Handlers |-> {}]
        /\ removed = [h \in Handlers |-> FALSE]
        /\ undone = {} /\ left = {}

-----------------------------------------------------------------------------
\* WHERE, as gorm makes it of a struct: a zero field is left out.
Selects(id, value) == id = 0 \/ id = value

RowsOf(c) ==
  Restrict(equipables, {r \in DOMAIN equipables : equipables[r].inventory = c})

Goes(h, step) == pc' = [pc EXCEPT ![h] = step]

\* What every goroutine under way missed by the commit of these rows, or of the
\* deletion of these characters; for the properties.
Misses(t, cs) ==
  /\ touched' = [h \in Handlers |->
       IF pc'[h] = "idle" THEN {}
       ELSE touched[h] \cup {r \in DOMAIN t : t[r].inventory = found[h]}]
  /\ removed' = [h \in Handlers |-> pc'[h] # "idle" /\ (removed[h] \/ found[h] \in cs)]

\* The handler returns; an open transaction of its is not committed by that.
Ends(h) ==
  /\ Goes(h, "idle")
  /\ op' = [op EXCEPT ![h] = "none"]
  /\ asked' = [asked EXCEPT ![h] = 0] /\ found' = [found EXCEPT ![h] = 0]
  /\ inventory' = [inventory EXCEPT ![h] = 0]
  /\ bag' = [bag EXCEPT ![h] = {}]
  /\ equipment' = [equipment EXCEPT ![h] = NoEquipment]
  /\ current' = [current EXCEPT ![h] = NoRow]
  /\ gone' = [gone EXCEPT ![h] = {}]
  /\ failed' = [failed EXCEPT ![h] = FALSE]

-----------------------------------------------------------------------------
\* GET with the inventory included, and DELETE: GetById, which is answered with
\* the first of the characters that its query selects.
Find(h) ==
  /\ pc[h] = "idle"
  /\ \E o \in {"get", "delete"}, id \in Asked :
       LET cs == {c \in characters : Selects(id, c)} IN
       /\ \E c \in cs : (\A d \in cs : c <= d) /\ found' = [found EXCEPT ![h] = c]
       /\ op' = [op EXCEPT ![h] = o] /\ asked' = [asked EXCEPT ![h] = id]
  /\ Goes(h, "inventories")
  /\ UNCHANGED <<tables, service, creating, inventory, bag, equipment, current, gone,
                 failed, meanwhile, histories>>

\* The decorator.  GetInventories folds the rows of the inventories it finds
\* over a model with none, whose equip inventory has the id 0.
InventoryIdForgotten(c) == 0

InventoryId(c) == IF c \in inventories THEN c ELSE 0

ReadInventories(h) ==
  /\ pc[h] = "inventories"
  /\ inventory' = [inventory EXCEPT ![h] = InventoryId(found[h])]
  /\ Goes(h, IF found[h] \in inventories THEN "bag" ELSE "worn")
  /\ UNCHANGED <<tables, service, creating, op, asked, found, bag, equipment, current,
                 gone, failed, meanwhile, histories>>

ReadBag(h) ==
  /\ pc[h] = "bag"
  /\ bag' = [bag EXCEPT ![h] = InInventory(RowsOf(found[h]))]
  /\ Goes(h, "worn")
  /\ UNCHANGED <<tables, service, creating, op, asked, found, inventory, equipment,
                 current, gone, failed, meanwhile, histories>>

AfterReading(h) == IF op[h] = "get" THEN "answered" ELSE "equipment"

\* The worn rows of the inventory with that id.  A fold that panics ends the
\* request: the transaction, if there is one, is rolled back.
WornRows(h) == {r \in Equipment(equipables) :
                  Selects(inventory[h], equipables[r].inventory)}

ReadWorn(h) ==
  /\ pc[h] = "worn"
  /\ \A r \in WornRows(h) : Foldable(equipables[r].slot)
  /\ \E e \in FoldEquipable(equipables, WornRows(h)) :
       equipment' = [equipment EXCEPT ![h] = e]
  /\ Goes(h, AfterReading(h))
  /\ UNCHANGED <<tables, service, creating, op, asked, found, inventory, bag, current,
                 gone, failed, meanwhile, histories>>

\* The decorator goes on with what it has when a statement of its fails.
FailRead(h) ==
  /\ pc[h] \in {"inventories", "bag", "worn"}
  /\ failed' = [failed EXCEPT ![h] = TRUE]
  /\ bag' = [bag EXCEPT ![h] = IF pc[h] = "worn" THEN @ ELSE {}]
  /\ Goes(h, AfterReading(h))
  /\ UNCHANGED <<tables, service, creating, op, asked, found, inventory, equipment,
                 current, gone, meanwhile, histories>>

\* What a client is sent.
Answer(h) == Transform(bag[h], equipment[h])

Respond(h) ==
  /\ pc[h] = "answered"
  /\ Ends(h) /\ Misses(<<>>, {})
  /\ UNCHANGED <<tables, service, creating, histories>>

-----------------------------------------------------------------------------
\* A statement in a transaction one of whose statements has failed fails too.
ExecutesAnyway(h) == TRUE

Executes(h) == ~failed[h]

\* equipment.Delete, then DeleteEquipableInventory: the rows of the snapshot.
ToDelete(h) == IF pc[h] = "equipment" THEN EquipablesOf(equipment[h])
               ELSE IF pc[h] = "items" THEN bag[h] ELSE {}

\* DeleteByReferenceId: the statistics first, by a request to the service,
DeleteStatistics(h) ==
  /\ current[h] = NoRow
  /\ \E r \in ToDelete(h) :
       /\ current' = [current EXCEPT ![h] = r]
       /\ statistics' = statistics \ {r}
  /\ UNCHANGED <<tables, nextRow, creating, pc, op, asked, found, inventory, bag, equipment,
                 gone, failed, meanwhile, histories>>

\* then the row, which may be locked, or be there no more.  A reference id of
\* 0 would be left out of the query, and every row of the tenant deleted.
MatchesAll(r) == DOMAIN equipables

Matches(r) == {q \in DOMAIN equipables : q = r}

Locked(rows, gs) == \E g \in gs : gone[g] \cap rows # {}

DeleteRow(h) ==
  LET r == current[h]
      e == equipment[h]
  IN /\ r # NoRow /\ Executes(h) /\ ~Locked({r}, Handlers \ {h})
     /\ gone' = [gone EXCEPT ![h] = @ \cup Matches(r)]
     /\ current' = [current EXCEPT ![h] = NoRow]
     /\ IF pc[h] = "items"
        THEN bag' = [bag EXCEPT ![h] = @ \ {r}] /\ UNCHANGED equipment
        ELSE /\ equipment' = [equipment EXCEPT ![h] =
                  Restrict(e, {place \in DOMAIN e : e[place] # r})]
             /\ UNCHANGED bag
     /\ UNCHANGED <<tables, service, creating, pc, op, asked, found, inventory, failed,
                    meanwhile, histories>>

\* The mutex is that of the id in the request.
MutexTaken(c) == \/ c \in Characters /\ creating[c] # <<>>
                 \/ \E g \in Handlers : pc[g] = "items" /\ asked[g] = c

LockBag(h) ==
  /\ pc[h] = "equipment" /\ current[h] = NoRow /\ ToDelete(h) = {}
  /\ ~MutexTaken(asked[h])
  /\ Goes(h, "items")
  /\ UNCHANGED <<tables, service, creating, locals, meanwhile, histories>>

\* deleteByType, waiting for one that has deleted a row it selects.
InventoryLocked(h) ==
  \E g \in Handlers \ {h}, c \in inventories :
    pc[g] = "commit" /\ Selects(asked[g], c) /\ Selects(asked[h], c)

DeleteInventory(h) ==
  /\ pc[h] = "items" /\ current[h] = NoRow /\ bag[h] = {}
  /\ Executes(h) /\ ~InventoryLocked(h)
  /\ Goes(h, "commit")
  /\ UNCHANGED <<tables, service, creating, locals, meanwhile, histories>>

\* The character's row, by the id of the request too, and the commit.
Commit(h) ==
  LET cs == {c \in characters : Selects(asked[h], c)} IN
  /\ pc[h] = "commit" /\ Executes(h)
  /\ characters' = characters \ cs
  /\ inventories' = {c \in inventories : ~Selects(asked[h], c)}
  /\ equipables' = Restrict(equipables, DOMAIN equipables \ gone[h])
  /\ Ends(h) /\ Misses(Restrict(equipables, gone[h]), cs)
  /\ UNCHANGED <<service, creating, histories>>

\* Any error: the character is not there, a statement or a request fails, the
\* fold panics; or the process dies, which fails them all, in any order.  What
\* the service was told is not taken back.
Fail(h) ==
  /\ pc[h] \notin {"idle", "answered"}
  /\ Ends(h) /\ Misses(<<>>, {})
  /\ undone' = undone \cup gone[h] \cup ({current[h]} \ {NoRow})
  /\ UNCHANGED <<tables, service, creating, left>>

-----------------------------------------------------------------------------
\* equipable.CreateItem, for each unit of a create command: the free slot, the
\* statistics from the service, the row.  The first takes the mutex.
CreateItem(c) ==
  LET t == [r \in DOMAIN RowsOf(c) \cup DOMAIN creating[c] |->
              IF r \in DOMAIN creating[c] THEN creating[c][r] ELSE equipables[r]]
  IN /\ nextRow <= MaxRow
     /\ \/ creating[c] # <<>>
        \/ c \in inventories /\ ~MutexTaken(c)
     /\ \E slot \in FreeSlots(t) :
          creating' = [creating EXCEPT ![c] =
            [r \in DOMAIN @ \cup {nextRow} |->
               IF r = nextRow THEN [inventory |-> c, slot |-> slot] ELSE @[r]]]
     /\ statistics' = statistics \cup {nextRow}
     /\ nextRow' = nextRow + 1
     /\ UNCHANGED <<tables, pc, locals, meanwhile, histories>>

CommitCreate(c) ==
  /\ creating[c] # <<>>
  /\ equipables' = [r \in DOMAIN equipables \cup DOMAIN creating[c] |->
                      IF r \in DOMAIN creating[c] THEN creating[c][r] ELSE equipables[r]]
  /\ creating' = [creating EXCEPT ![c] = <<>>]
  /\ UNCHANGED pc /\ Misses(creating[c], {})
  /\ UNCHANGED <<characters, inventories, service, locals, histories>>

FailCreate(c) ==
  /\ creating[c] # <<>>
  /\ creating' = [creating EXCEPT ![c] = <<>>]
  /\ left' = left \cup DOMAIN creating[c]
  /\ UNCHANGED <<tables, service, pc, locals, meanwhile, undone>>

\* Equip, unequip and move: an exchange of two slots.
Exchange(c) ==
  /\ c \in inventories /\ ~MutexTaken(c)
  /\ \E source, destination \in Slots :
       LET rows == {r \in DOMAIN RowsOf(c) : equipables[r].slot \in {source, destination}}
       IN /\ source # destination /\ Occupied(RowsOf(c), source)
          /\ ~Locked(rows, Handlers)
          /\ equipables' = [r \in DOMAIN equipables |->
                              IF r \in rows
                              THEN Swap(RowsOf(c), source, destination)[r]
                              ELSE equipables[r]]
          /\ UNCHANGED pc /\ Misses(Restrict(equipables, rows), {})
  /\ UNCHANGED <<characters, inventories, service, creating, locals, histories>>

\* DropByReferenceId: the statistics stay with the service, for whoever picks
\* the item up.
DropItem(c) ==
  /\ c \in inventories /\ ~MutexTaken(c)
  /\ \E r \in DOMAIN RowsOf(c) :
       /\ ~Locked({r}, Handlers)
       /\ equipables' = Without(equipables, r)
       /\ left' = left \cup {r}
       /\ UNCHANGED pc /\ Misses(Restrict(equipables, {r}), {})
  /\ UNCHANGED <<characters, inventories, service, creating, locals, undone>>

Handle(h) ==
  \/ Find(h) \/ ReadInventories(h) \/ ReadBag(h) \/ ReadWorn(h)
  \/ FailRead(h) \/ Respond(h)
  \/ DeleteStatistics(h) \/ DeleteRow(h) \/ LockBag(h) \/ DeleteInventory(h)
  \/ Commit(h) \/ Fail(h)

Command(c) == CreateItem(c) \/ CommitCreate(c) \/ FailCreate(c) \/ Exchange(c) \/ DropItem(c)

Next == (\E h \in Handlers : Handle(h)) \/ \E c \in Characters : Command(c)

Spec == Init /\ [][Next]_vars

-----------------------------------------------------------------------------
Rows == 1 .. MaxRow

Step == {"idle", "inventories", "bag", "worn", "answered", "equipment", "items",
         "commit"}

\* The type invariant.  No row stays in the slot that exchanges park rows in.
TypeOK ==
  /\ characters \subseteq Characters /\ inventories \subseteq Characters
  /\ nextRow \in 1 .. MaxRow + 1 /\ statistics \subseteq 1 .. nextRow - 1
  /\ DOMAIN equipables \subseteq 1 .. nextRow - 1
  /\ \A r \in DOMAIN equipables :
       equipables[r] \in [inventory : Characters, slot : Slots \cup Rows]
  /\ \A c \in Characters : DOMAIN creating[c] \subseteq 1 .. nextRow - 1
  /\ pc \in [Handlers -> Step] /\ op \in [Handlers -> {"none", "get", "delete"}]
  /\ asked \in [Handlers -> Asked \cup {0}]
  /\ found \in [Handlers -> Characters \cup {0}]
  /\ inventory \in [Handlers -> Characters \cup {0}]
  /\ current \in [Handlers -> Rows \cup {NoRow}]
  /\ \A h \in Handlers : bag[h] \cup Range(equipment[h]) \cup gone[h] \subseteq Rows
  /\ failed \in [Handlers -> BOOLEAN] /\ removed \in [Handlers -> BOOLEAN]
  /\ touched \in [Handlers -> SUBSET Rows]
  /\ undone \subseteq Rows /\ left \subseteq Rows

\* GET reads the bag and what is worn one after the other.  A row that nobody
\* moved meanwhile is shown once, and where it is: in the bag, or in the
\* position of its slot; in slot 0 it is shown nowhere (InventoryModelDecorator,
\* FoldEquipable, Transform).
ShowsWhereItIs ==
  \A h \in Handlers : pc[h] = "answered" /\ ~failed[h] /\ ~removed[h] =>
    \A r \in DOMAIN RowsOf(found[h]) \ touched[h] :
      LET slot == equipables[r].slot
          answer == Answer(h)
      IN /\ r \in answer.inventory <=> slot > 0
         /\ \A p \in Positions \ {99} :
              /\ answer.equipment[p].equipable = r <=> slot = p
              /\ answer.equipment[p].cashEquipable = r <=> slot = p - 100

\* The rows that GET shows and DELETE goes through are those of its character,
\* unless the character was deleted between two of its reads: the inventory's id
\* is then 0, and the query of what is worn leaves it out (getByInventory).
ReadsOthersOnlyIf ==
  \A h \in Handlers :
    \A r \in (bag[h] \cup Range(equipment[h])) \cap DOMAIN equipables :
      equipables[r].inventory = found[h] \/ removed[h]

Commits(h) == pc[h] = "commit" /\ pc'[h] = "idle" /\ asked[h] \notin characters'

\* A deletion of a character takes only what is that character's: "Unable to
\* delete equipment for character with id" is what its error says it does.
TakesOnlyItsOwn ==
  [][\A h \in Handlers : Commits(h) /\ asked[h] # 0 =>
       /\ characters \ characters' \subseteq {asked[h]}
       /\ inventories \ inventories' \subseteq {asked[h]}
       /\ \A r \in DOMAIN equipables \ DOMAIN equipables' :
            equipables[r].inventory = asked[h]]_vars

\* What a deletion leaves of its character is what others committed meanwhile,
\* what is in slot 0, and the cash items that are worn: equipment.Delete goes
\* through the Equipable of each slot only.  A statement that failed in the
\* decorator, which says nothing of it, leaves no more than that.
LeavesOnlyIf ==
  [][\A h \in Handlers : Commits(h) /\ asked[h] # 0 /\ ~removed[h] =>
       \A r \in DOMAIN equipables' :
         equipables'[r].inventory = asked[h] =>
           r \in touched[h] \/ equipables'[r].slot = 0 \/ equipables'[r].slot < -100]_vars

\* The two services differ only so: a row without statistics is one whose
\* deletion is under way, or was rolled back after the request that deleted the
\* statistics; statistics without a row are those of an item that was dropped or
\* is being created, or whose creation was rolled back (CreateItem,
\* DeleteByReferenceId, DropByReferenceId).
DifferOnlyIf ==
  /\ \A r \in DOMAIN equipables \ statistics :
       r \in undone \/ \E h \in Handlers : r \in gone[h] \cup {current[h]}
  /\ \A r \in statistics \ DOMAIN equipables :
       r \in left \/ \E c \in Characters : r \in DOMAIN creating[c]
=============================================================================
