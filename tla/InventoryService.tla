-------------------------- MODULE InventoryService --------------------------
(***************************************************************************)
(* The commands on the equip inventory of one character as the process     *)
(* runs them: a goroutine per command, the mutex of the lock registry, one *)
(* database transaction of several statements (READ COMMITTED, row locks), *)
(* and the events published after the commit, with the mutex still held.   *)
(***************************************************************************)
EXTENDS EquipTable, EventReplay

CONSTANTS Handlers,      \* goroutines that run commands
          Others,        \* other transactions (module InventoryDelete)
          CommandSlots, MoveSlots, MaxQuantity, MaxId,   \* as in EquipInventory
          Nobody

ASSUME ServiceAssumption ==
  /\ Handlers \cap Others = {} /\ Nobody \notin Handlers \cup Others
  /\ IsFiniteSet(Handlers) /\ IsFiniteSet(Others)
  /\ CommandSlots \subseteq Int \ {Temp} /\ MoveSlots \subseteq Int \ {Temp}
  /\ MaxQuantity \in Nat /\ MaxId \in Nat /\ Nobody \notin Items

VARIABLES
  table,       \* committed rows of the inventory in "equipables"
  inventory,   \* is its row in "inventory" there (committed)
  seq,         \* the id sequence: it does not roll back
  born,        \* history: the ids of committed inserts
  last,        \* history: the last command that ended, as in EquipInventory
  registry,    \* the mutex stored under the inventory's key, 0 for none
  owner,       \* who has locked each mutex object
  mutexOf,     \* the mutex object a goroutine got from the registry, 0 for none
  pc,          \* where each goroutine is
  cmd,         \* its command, the item it found and the step of an exchange
  sel,         \* the row a pending statement has selected
  slot,        \* the free slot it has computed
  writes,      \* uncommitted writes of each transaction, by row
  events,      \* the events it has collected
  screen,      \* a consumer's picture of the inventory
  missed       \* the consumer was not told of some change

memory == <<registry, owner, mutexOf>>
locals == <<cmd, sel, slot, events>>
store == <<table, inventory, seq, born, last>>
consumer == <<screen, missed>>
vars == <<store, memory, pc, locals, writes, consumer>>

Txs == Handlers \cup Others
Mutexes == 1 .. Cardinality(Txs) + 1
NoRow == [row |-> 0, item |-> Nobody]
Gone == [item |-> Nobody, slot |-> 0]

\* Between the beginning and the end of its transaction.
Inside(h) == pc[h] \notin {"idle", "lock", "publish", "unlock"}

\* The commands as EquipInventory means them: the rows a create has inserted,
\* each with an event, and not committed have not had their ids yet.
Creating(h) == Inside(h) /\ cmd[h].op = "create"

NextId == IF \E h \in Handlers : Creating(h)
          THEN seq - Len(events[CHOOSE h \in Handlers : Creating(h)])
          ELSE seq

Abs == INSTANCE EquipInventory WITH equipables <- table, nextId <- NextId

\* The quantity of a command is what CreateAsset has still to create.
Asks(op, source, destination, item, quantity) ==
  [op |-> op, source |-> source, destination |-> destination, item |-> item,
   quantity |-> quantity, step |-> 1]

Idle == Asks("none", 0, 0, Nobody, 0)

Units(quantity) == IF quantity = 0 THEN 1 ELSE quantity

CreateCommands ==
  {Asks("create", 0, 0, item, Units(q)) : item \in Items,
                                          q \in {q \in 0 .. MaxQuantity : seq + Units(q) - 1 <= MaxId}}

Commands ==
  {Asks(op, s, 0, Nobody, 0) : op \in {"equip", "unequip", "drop"}, s \in CommandSlots}
  \cup {Asks("move", s, d, Nobody, 0) : s, d \in MoveSlots}
  \cup CreateCommands

Init == /\ table = <<>> /\ inventory = TRUE /\ seq = 1 /\ born = {}
        /\ last = [op |-> "none", source |-> 0, result |-> "ok", events |-> <<>>]
        /\ registry = 0
        /\ owner = [m \in Mutexes |-> Nobody]
        /\ mutexOf = [t \in Txs |-> 0]
        /\ pc = [h \in Handlers |-> "idle"]
        /\ cmd = [h \in Handlers |-> Idle]
        /\ sel = [h \in Handlers |-> NoRow]
        /\ slot = [h \in Handlers |-> 0]
        /\ events = [h \in Handlers |-> <<>>]
        /\ writes = [t \in Txs |-> <<>>]
        /\ screen = <<>> /\ missed = FALSE

-----------------------------------------------------------------------------
\* What a statement of transaction t sees: what is committed, and its own.
View(t) ==
  LET w == writes[t]
      live == (DOMAIN table \cup DOMAIN w) \ {r \in DOMAIN w : w[r] = Gone}
  IN [r \in live |-> IF r \in DOMAIN w THEN w[r] ELSE table[r]]

RowLocked(t, r) == \E u \in Txs \ {t} : r \in DOMAIN writes[u]

Written(w, r, row) == [x \in DOMAIN w \cup {r} |-> IF x = r THEN row ELSE w[x]]

UpsertsRow(t, r, row) == writes' = [writes EXCEPT ![t] = Written(@, r, row)]

\* An UPDATE or DELETE by id or reference touches no row if the row is gone.
WritesRow(t, r, row) ==
  IF r \in DOMAIN View(t) THEN UpsertsRow(t, r, row) ELSE UNCHANGED writes

\* Queries by slot join the inventory row.
Finds(h, s) == sel[h] # NoRow \/ (inventory /\ Occupied(View(h), s))

Selected(h, s) ==
  IF sel[h] # NoRow THEN sel[h]
  ELSE [row |-> RowAt(View(h), s), item |-> ItemAt(View(h), s)]

\* The row found is locked by another transaction: the statement waits for it,
\* and goes on with the row it selected.
WaitsForRow(h, s) ==
  /\ Finds(h, s) /\ sel[h] = NoRow /\ RowLocked(h, Selected(h, s).row)
  /\ sel' = [sel EXCEPT ![h] = Selected(h, s)]
  /\ UNCHANGED <<store, memory, pc, cmd, slot, events, writes, consumer>>

MovesUnfound(h, s, d) ==
  LET found == IF Finds(h, s) THEN Selected(h, s) ELSE NoRow
  IN /\ ~RowLocked(h, found.row)
     /\ UpsertsRow(h, found.row, [item |-> found.item, slot |-> d])
     /\ sel' = [sel EXCEPT ![h] = NoRow]

\* moveFromSlotToSlot for a row that is found and free to be written.
Moves(h, s, d) ==
  /\ Finds(h, s) /\ ~RowLocked(h, Selected(h, s).row)
  /\ LET r == Selected(h, s).row IN
     WritesRow(h, r, [item |-> Selected(h, s).item, slot |-> d])
  /\ sel' = [sel EXCEPT ![h] = NoRow]

Goes(h, step) == pc' = [pc EXCEPT ![h] = step]

Tells(h, e) == events' = [events EXCEPT ![h] = Append(@, e)]

\* An error returned from the transaction: rolled back, nothing published.
RollsBack(h, result) ==
  /\ writes' = [writes EXCEPT ![h] = <<>>]
  /\ events' = [events EXCEPT ![h] = <<>>]
  /\ sel' = [sel EXCEPT ![h] = NoRow]
  /\ last' = [op |-> cmd[h].op, source |-> cmd[h].source, result |-> result,
              events |-> <<>>]
  /\ Goes(h, "unlock")
  /\ UNCHANGED <<table, inventory, seq, born, memory, cmd, slot, consumer>>

-----------------------------------------------------------------------------
\* GetLockRegistry().GetById: LoadOrStore under the inventory's key.
FreshMutex == CHOOSE m \in Mutexes :
  /\ m # registry /\ owner[m] = Nobody /\ \A t \in Txs : mutexOf[t] # m

AlwaysStore == FreshMutex

LoadOrStore == IF registry = 0 THEN FreshMutex ELSE registry

GetById(t) == /\ registry' = LoadOrStore
              /\ mutexOf' = [mutexOf EXCEPT ![t] = LoadOrStore]
              /\ UNCHANGED owner

\* invLock.Lock()
RLockFree(t) == TRUE

LockFree(t) == owner[mutexOf[t]] = Nobody

Locks(t) == /\ LockFree(t)
            /\ owner' = [owner EXCEPT ![mutexOf[t]] = t]
            /\ UNCHANGED <<registry, mutexOf>>

LeavesLocked(t) == /\ mutexOf' = [mutexOf EXCEPT ![t] = 0]
                   /\ UNCHANGED <<registry, owner>>

Unlocks(t) == /\ owner' = [owner EXCEPT ![mutexOf[t]] = Nobody]
              /\ mutexOf' = [mutexOf EXCEPT ![t] = 0]
              /\ UNCHANGED registry

Receive(h) == /\ pc[h] = "idle"
              /\ GetById(h)
              /\ Goes(h, "lock")
              /\ UNCHANGED <<store, locals, writes, consumer>>

\* What the command asks for plays no part until the mutex is held.
Lock(h) == /\ pc[h] = "lock"
           /\ Locks(h)
           /\ \E c \in Commands :
                /\ cmd' = [cmd EXCEPT ![h] = c]
                /\ Goes(h, CASE c.op \in {"create", "unequip"} -> "locate"
                             [] c.op = "move" -> "exchange"
                             [] OTHER -> "find")
           /\ UNCHANGED <<store, sel, slot, events, writes, consumer>>

\* GetIdByType: the inventory's row, before its free slots are looked for;
\* first thing in a create (once for all its units) and in an unequip.
Locate(h) ==
  /\ pc[h] = "locate"
  /\ \/ ~inventory /\ RollsBack(h, "no inventory")
     \/ /\ inventory
        /\ Goes(h, IF cmd[h].op = "unequip" THEN "find" ELSE "free")
        /\ UNCHANGED <<store, memory, locals, writes, consumer>>

\* GetBySlot on the source.  An equip then asks two other services for the
\* destination, and may be refused; an unequip goes on without a row.
Find(h) ==
  LET c == cmd[h]
      found == Selected(h, c.source)
  IN /\ pc[h] = "find"
     /\ \/ c.op # "unequip" /\ ~Finds(h, c.source) /\ RollsBack(h, "absent")
        \/ c.op = "equip" /\ Finds(h, c.source) /\ RollsBack(h, "unknown destination")
        \/ /\ c.op = "equip" /\ Finds(h, c.source)
           /\ cmd' = [cmd EXCEPT ![h].item = found.item,
                                 ![h].destination = Destination(found.item)]
           /\ Goes(h, "exchange")
           /\ UNCHANGED <<store, memory, sel, slot, events, writes, consumer>>
        \/ /\ c.op = "unequip" \/ (c.op = "drop" /\ Finds(h, c.source))
           /\ sel' = [sel EXCEPT ![h] = IF Finds(h, c.source) THEN found ELSE NoRow]
           /\ Goes(h, IF c.op = "drop" THEN "drop" ELSE "free")
           /\ UNCHANGED <<store, memory, cmd, slot, events, writes, consumer>>

\* One of the three moves of an exchange.  An error is ignored; only the
\* second move is told.
Exchange(h) ==
  LET c == cmd[h]
      from == <<c.destination, c.source, Temp>>[c.step]
      to == <<Temp, c.destination, c.source>>[c.step]
      after == IF c.step < 3 THEN "exchange"
               ELSE IF c.op = "equip" THEN "locate" ELSE "commit"
  IN /\ pc[h] = "exchange"
     /\ \/ WaitsForRow(h, from)
        \/ /\ \/ ~Finds(h, from) /\ UNCHANGED <<writes, sel, events>>
              \/ /\ Moves(h, from, to)
                 /\ IF c.step = 2
                    THEN Tells(h, Abs!MovedTo(Selected(h, from).item, from, to))
                    ELSE UNCHANGED events
           /\ cmd' = [cmd EXCEPT ![h].step = IF @ < 3 THEN @ + 1 ELSE 1]
           /\ Goes(h, after)
           /\ UNCHANGED <<store, memory, slot, consumer>>

\* GetNextFreeSlot on what the transaction sees by now.
Free(h) ==
  /\ pc[h] = "free"
  /\ \E f \in FreeSlots(View(h)) : slot' = [slot EXCEPT ![h] = f]
  /\ Goes(h, CASE cmd[h].op = "create" -> "insert"
               [] cmd[h].op = "equip" -> "rival"
               [] OTHER -> "unequip")
  /\ UNCHANGED <<store, memory, cmd, sel, events, writes, consumer>>

\* The bottom gives way to an overall, and an overall to a bottom.
Rival(h) ==
  LET rival == Abs!Rival(cmd[h].item)
      found == Selected(h, rival)
      gives == rival = Bottom \/ found.item \in Overalls
  IN /\ pc[h] = "rival"
     /\ \/ rival # Abs!NoRival /\ ~Finds(h, rival) /\ RollsBack(h, "no rival")
        \/ /\ IF rival = Abs!NoRival THEN TRUE ELSE Finds(h, rival) /\ ~gives
           /\ Goes(h, "commit")
           /\ UNCHANGED <<store, memory, locals, writes, consumer>>
        \/ /\ rival # Abs!NoRival
           /\ Finds(h, rival) /\ gives
           /\ \/ WaitsForRow(h, rival)
              \/ /\ Moves(h, rival, slot[h])
                 /\ Tells(h, Abs!MovedTo(found.item, rival, slot[h]))
                 /\ Goes(h, "commit")
                 /\ UNCHANGED <<store, memory, cmd, slot, consumer>>

\* The row found at the source, if there was one, goes to the free slot.
Unequip(h) ==
  /\ pc[h] = "unequip"
  /\ \/ sel[h] = NoRow /\ RollsBack(h, "absent")
     \/ /\ sel[h] # NoRow /\ ~RowLocked(h, sel[h].row)
        /\ Moves(h, cmd[h].source, slot[h])
        /\ Tells(h, Abs!MovedTo(sel[h].item, cmd[h].source, slot[h]))
        /\ Goes(h, "commit")
        /\ UNCHANGED <<store, memory, cmd, slot, consumer>>

Drop(h) ==
  /\ pc[h] = "drop" /\ ~RowLocked(h, sel[h].row)
  /\ WritesRow(h, sel[h].row, Gone)
  /\ sel' = [sel EXCEPT ![h] = NoRow]
  /\ Tells(h, Abs!Removed(sel[h].item, cmd[h].source))
  /\ Goes(h, "commit")
  /\ UNCHANGED <<store, memory, cmd, slot, consumer>>

\* One unit of a create.  The statistics service is asked first, and may
\* refuse: then the units before are undone too.
Insert(h) ==
  /\ pc[h] = "insert"
  /\ \/ RollsBack(h, "refused")
     \/ /\ UpsertsRow(h, seq, [item |-> cmd[h].item, slot |-> slot[h]])
        /\ seq' = seq + 1
        /\ Tells(h, Abs!Added(cmd[h].item, slot[h]))
        /\ cmd' = [cmd EXCEPT ![h].quantity = @ - 1]
        /\ Goes(h, IF cmd[h].quantity > 1 THEN "free" ELSE "commit")
        /\ UNCHANGED <<table, inventory, born, last, memory, sel, slot, consumer>>

\* A move from an empty slot may change a row without an event.
Silent(h) == cmd[h].op = "move" /\ events[h] = <<>>

Commits(t) ==
  /\ table' = View(t)
  /\ born' = born \cup DOMAIN View(t)
  /\ writes' = [writes EXCEPT ![t] = <<>>]

\* The deferred Unlock runs after the events are published, not here.
UnlockEarly(h) == owner' = [owner EXCEPT ![mutexOf[h]] = Nobody]

KeepsLock(h) == UNCHANGED owner

Commit(h) ==
  /\ pc[h] = "commit"
  /\ Commits(h) /\ KeepsLock(h)
  /\ last' = [op |-> cmd[h].op, source |-> cmd[h].source, result |-> "ok",
              events |-> events[h]]
  /\ missed' = (missed \/ Silent(h))
  /\ Goes(h, "publish")
  /\ UNCHANGED <<inventory, seq, registry, mutexOf, locals, screen>>

\* A statement or the commit fails: nothing of the transaction remains.  The
\* errors the exchange ignores fail the commit all the same.
Fail(h) ==
  /\ Inside(h)
  /\ writes' = [writes EXCEPT ![h] = <<>>]
  /\ events' = [events EXCEPT ![h] = <<>>]
  /\ sel' = [sel EXCEPT ![h] = NoRow]
  /\ Goes(h, "unlock")
  /\ UNCHANGED <<store, memory, cmd, slot, consumer>>

SeesItem(row) == row.item

\* An error of the producer is logged and the events are lost.
Publish(h) ==
  /\ pc[h] = "publish"
  /\ \/ screen' = Replay(screen, events[h], SeesItem) /\ UNCHANGED missed
     \/ missed' = TRUE /\ UNCHANGED screen
  /\ Goes(h, "unlock")
  /\ UNCHANGED <<store, memory, locals, writes>>

\* The deferred invLock.Unlock()
Forgets(h) == /\ cmd' = [cmd EXCEPT ![h] = Idle]
              /\ slot' = [slot EXCEPT ![h] = 0]
              /\ events' = [events EXCEPT ![h] = <<>>]
              /\ UNCHANGED sel

Unlock(h) == /\ pc[h] = "unlock"
             /\ Unlocks(h) /\ Forgets(h)
             /\ Goes(h, "idle")
             /\ UNCHANGED <<store, writes, consumer>>

\* The process dies: mutexes and goroutines are gone, transactions undone.
Crash ==
  /\ registry' = 0
  /\ owner' = [m \in Mutexes |-> Nobody]
  /\ mutexOf' = [t \in Txs |-> 0]
  /\ pc' = [h \in Handlers |-> "idle"]
  /\ cmd' = [h \in Handlers |-> Idle]
  /\ sel' = [h \in Handlers |-> NoRow]
  /\ slot' = [h \in Handlers |-> 0]
  /\ events' = [h \in Handlers |-> <<>>]
  /\ writes' = [t \in Txs |-> <<>>]
  /\ missed' = (missed \/ \E h \in Handlers : pc[h] = "publish")
  /\ UNCHANGED <<store, screen>>

\* What a goroutine does once it has the mutex, whatever the outcome.
Step(h) == \/ Locate(h) \/ Find(h) \/ Exchange(h) \/ Free(h) \/ Rival(h) \/ Unequip(h)
           \/ Drop(h) \/ Insert(h) \/ Commit(h) \/ Publish(h) \/ Unlock(h)

Handle(h) == Receive(h) \/ Lock(h) \/ Step(h) \/ Fail(h)

Next == Crash \/ \E h \in Handlers : Handle(h)

\* Goroutines keep running, and a sync.RWMutex hands itself over to a waiter
\* that starves.  Commands need not arrive, nor anything fail.
Fairness == \A h \in Handlers : WF_vars(Step(h)) /\ SF_vars(Lock(h))

Spec == Init /\ [][Next]_vars /\ Fairness

-----------------------------------------------------------------------------
TypeOK == /\ table \in [DOMAIN table -> [item : Items, slot : Int]]
          /\ DOMAIN table \subseteq 1 .. seq - 1
          /\ registry \in Mutexes \cup {0}
          /\ owner \in [Mutexes -> Txs \cup {Nobody}]
          /\ \A t \in Txs : \A r \in DOMAIN writes[t] :
               r < seq /\ (writes[t][r] = Gone \/ writes[t][r].item \in Items)

\* At most one goroutine is between Lock and Unlock of the inventory.
Holds(h) == pc[h] \notin {"idle", "lock"}

MutualExclusion == \A g, h \in Handlers : Holds(g) /\ Holds(h) => g = h

\* The commands interleaved, failing and crashing at any point, are commands
\* run one at a time and whole (EquipInventory).
Implements == Abs!Spec

\* Events reach the topic in the order of the commits: unless some were lost,
\* a consumer that has read them all has the committed inventory.
ScreenShowsTable ==
  ~missed /\ (\A h \in Handlers : pc[h] # "publish") =>
    screen = Picture(table, SeesItem)

\* No command waits for the mutex for ever.
CommandsFinish == \A h \in Handlers : pc[h] = "lock" ~> pc[h] = "idle"
=============================================================================
