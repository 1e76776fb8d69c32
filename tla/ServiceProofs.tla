--------------------------- MODULE ServiceProofs ----------------------------
(***************************************************************************)
(* The interleaved commands, for any number of goroutines: the mutex of    *)
(* the lock registry is one object, and because of it the statements of a  *)
(* command, with failures and crashes between them, are one step of        *)
(* EquipInventory.  Then the deletion of the character beside them.        *)
(***************************************************************************)
EXTENDS InventoryDelete, TableProofs

Busy == {"locate", "find", "exchange", "free", "rival", "unequip", "drop", "insert", "commit",
         "publish", "unlock"}

\* Whoever asks for a mutex has the stored one, and only that one is locked.
XInv ==
  /\ registry \in Mutexes \cup {0}
  /\ owner \in [Mutexes -> Txs \cup {Nobody}]
  /\ mutexOf \in [Txs -> {0, registry}]
  /\ pc \in [Handlers -> {"idle", "lock"} \cup Busy]
  /\ \A m \in Mutexes : owner[m] # Nobody => m = registry
  /\ \A h \in Handlers : pc[h] # "idle" => mutexOf[h] = registry /\ registry # 0
  /\ \A h \in Handlers : Holds(h) => owner[registry] = h

\* The bound on mutex objects leaves room for one.
LEMMA SomeMutex == 1 \in Mutexes /\ 0 \notin Mutexes
  <1>1. IsFiniteSet(Txs)
    BY ServiceAssumption, FS_Union DEF Txs
  <1>2. Cardinality(Txs) \in Nat
    BY <1>1, FS_CardinalityType
  <1> QED BY <1>2 DEF Mutexes

\* A mutex that is stored for the first time is one that nobody has.
LEMMA FreshIsFree ==
  ASSUME XInv, registry = 0
  PROVE  FreshMutex \in Mutexes
  <1>1. \A m \in Mutexes : owner[m] = Nobody
    BY SomeMutex DEF XInv
  <1>2. \A t \in Txs : mutexOf[t] = 0
    BY DEF XInv
  <1>3. 1 \in Mutexes /\ 1 # registry /\ owner[1] = Nobody /\ \A t \in Txs : mutexOf[t] # 1
    BY <1>1, <1>2, SomeMutex
  <1> QED BY <1>3 DEF FreshMutex

LEMMA InitX == Init => XInv
  BY SomeMutex DEF Init, XInv, Holds

\* Between Lock and Unlock the mutexes stay as they are.
Works(h) == /\ UNCHANGED memory /\ Holds(h)
            /\ pc' = pc \/ \E step \in Busy : pc' = [pc EXCEPT ![h] = step]

LEMMA WorksKeepsX ==
  ASSUME XInv, NEW h \in Handlers, Works(h)
  PROVE  XInv'
  BY DEF XInv, Works, memory, Holds, Busy

LEMMA InsideWorks ==
  ASSUME NEW h \in Handlers,
         Locate(h) \/ Find(h) \/ Exchange(h) \/ Free(h) \/ Rival(h) \/ Unequip(h)
         \/ Drop(h) \/ Insert(h) \/ Commit(h) \/ Publish(h) \/ Fail(h)
  PROVE  Works(h)
  <1>0. CASE Locate(h)
    <2>1. Holds(h) /\ UNCHANGED memory
      BY <1>0 DEF Locate, RollsBack, Holds
    <2>2. \E step \in {"unlock", "find", "free"} : pc' = [pc EXCEPT ![h] = step]
      BY <1>0 DEF Locate, RollsBack, Goes
    <2> QED BY <2>1, <2>2 DEF Works, Busy
  <1>1. CASE Find(h)
    <2>1. Holds(h) /\ UNCHANGED memory
      BY <1>1 DEF Find, RollsBack, Holds
    <2>2. \E step \in {"unlock", "exchange", "drop", "free"} : pc' = [pc EXCEPT ![h] = step]
      BY <1>1 DEF Find, RollsBack, Goes
    <2> QED BY <2>1, <2>2 DEF Works, Busy
  <1>2. CASE Exchange(h)
    <2>1. Holds(h) /\ UNCHANGED memory
      BY <1>2 DEF Exchange, WaitsForRow, Holds
    <2>2. pc' = pc \/ \E step \in {"exchange", "locate", "commit"} : pc' = [pc EXCEPT ![h] = step]
      BY <1>2 DEF Exchange, WaitsForRow, Goes
    <2> QED BY <2>1, <2>2 DEF Works, Busy
  <1>3. CASE Free(h)
    <2>1. Holds(h) /\ UNCHANGED memory
      BY <1>3 DEF Free, Holds
    <2>2. \E step \in {"insert", "rival", "unequip"} : pc' = [pc EXCEPT ![h] = step]
      BY <1>3 DEF Free, Goes
    <2> QED BY <2>1, <2>2 DEF Works, Busy
  <1>4. CASE Rival(h)
    <2>1. Holds(h) /\ UNCHANGED memory
      BY <1>4 DEF Rival, RollsBack, WaitsForRow, Holds
    <2>2. pc' = pc \/ \E step \in {"unlock", "commit"} : pc' = [pc EXCEPT ![h] = step]
      BY <1>4 DEF Rival, RollsBack, WaitsForRow, Goes
    <2> QED BY <2>1, <2>2 DEF Works, Busy
  <1>5. CASE Unequip(h)
    BY <1>5 DEF Unequip, RollsBack, Goes, Works, Busy, Holds
  <1>6. CASE Drop(h)
    BY <1>6 DEF Drop, Goes, Works, Busy, Holds
  <1>7. CASE Insert(h)
    BY <1>7 DEF Insert, RollsBack, Goes, Works, Busy, Holds
  <1>8. CASE Commit(h)
    BY <1>8 DEF Commit, KeepsLock, memory, Goes, Works, Busy, Holds
  <1>9. CASE Publish(h)
    BY <1>9 DEF Publish, Goes, Works, Busy, Holds
  <1>10. CASE Fail(h)
    BY <1>10 DEF Fail, Inside, Goes, Works, Busy, Holds
  <1> QED BY <1>0, <1>1, <1>2, <1>3, <1>4, <1>5, <1>6, <1>7, <1>8, <1>9, <1>10

\* The three operations on the mutex, for a transaction that may be anybody's:
\* the first leaves it with the stored one,
LEMMA GetByIdGives ==
  ASSUME XInv, NEW t \in Txs, GetById(t)
  PROVE  /\ registry' \in Mutexes /\ registry' # 0 /\ mutexOf'[t] = registry'
         /\ owner' = owner /\ mutexOf' \in [Txs -> {0, registry'}]
         /\ registry # 0 => registry' = registry
         /\ \A u \in Txs \ {t} : mutexOf'[u] = mutexOf[u]
         /\ \A m \in Mutexes : owner'[m] # Nobody => m = registry'
  <1>1. registry' = LoadOrStore /\ mutexOf' = [mutexOf EXCEPT ![t] = LoadOrStore] /\ owner' = owner
    BY DEF GetById
  <1>2. LoadOrStore \in Mutexes
    BY FreshIsFree DEF LoadOrStore, XInv
  <1>3. LoadOrStore # 0 /\ (registry # 0 => LoadOrStore = registry)
    BY <1>2, SomeMutex DEF LoadOrStore
  <1> QED BY <1>1, <1>2, <1>3, SomeMutex DEF XInv

\* the second finds nobody inside,
LEMMA LocksGives ==
  ASSUME XInv, NEW t \in Txs, mutexOf[t] = registry, registry # 0, Locks(t)
  PROVE  /\ registry' = registry /\ mutexOf' = mutexOf /\ registry \in Mutexes
         /\ owner[registry] = Nobody /\ owner' = [owner EXCEPT ![registry] = t]
         /\ \A h \in Handlers : ~Holds(h)
  <1>1. owner[registry] = Nobody /\ registry \in Mutexes
    BY DEF Locks, LockFree, XInv
  <1>2. \A h \in Handlers : h # Nobody
    BY ServiceAssumption
  <1> QED BY <1>1, <1>2 DEF Locks, XInv

\* and the third leaves nobody inside.
LEMMA UnlocksGives ==
  ASSUME XInv, NEW t \in Txs, mutexOf[t] = registry, registry # 0,
         owner[registry] = t, Unlocks(t)
  PROVE  /\ registry' = registry /\ mutexOf' = [mutexOf EXCEPT ![t] = 0]
         /\ owner' = [owner EXCEPT ![registry] = Nobody] /\ registry \in Mutexes
         /\ \A h \in Handlers \ {t} : ~Holds(h)
  BY DEF Unlocks, XInv

\* Every step of a goroutine, and the end of the process, keep it.
LEMMA CrashX == Crash => XInv'
  BY SomeMutex DEF Crash, XInv, Holds

LEMMA NextX == XInv /\ [Next]_vars => XInv'
  <1> SUFFICES ASSUME XInv, [Next]_vars PROVE XInv'
    OBVIOUS
  <1>1. CASE UNCHANGED vars
    BY <1>1 DEF vars, memory, XInv, Holds
  <1>2. CASE Crash
    BY <1>2, CrashX
  <1>3. ASSUME NEW h \in Handlers, Receive(h) PROVE XInv'
    <2>1. GetById(h) /\ h \in Txs /\ pc' = [pc EXCEPT ![h] = "lock"] /\ pc[h] = "idle"
      BY <1>3 DEF Receive, Goes, Txs
    <2>2. \A g \in Handlers : pc'[g] # "idle" => mutexOf'[g] = registry' /\ registry' # 0
      BY <2>1, GetByIdGives DEF XInv, Txs
    <2>3. \A g \in Handlers : Holds(g)' => owner'[registry'] = g
      BY <2>1, GetByIdGives DEF XInv, Holds
    <2>4. pc' \in [Handlers -> {"idle", "lock"} \cup Busy]
      BY <2>1 DEF XInv
    <2>5. owner' \in [Mutexes -> Txs \cup {Nobody}]
      BY <2>1, GetByIdGives DEF XInv
    <2> QED BY <2>1, <2>2, <2>3, <2>4, <2>5, GetByIdGives DEF XInv
  <1>4. ASSUME NEW h \in Handlers, Lock(h) PROVE XInv'
    <2>1. Locks(h) /\ h \in Txs /\ mutexOf[h] = registry /\ registry # 0
      BY <1>4 DEF Lock, Txs, XInv
    <2>2. PICK step \in {"locate", "find", "exchange"} : pc' = [pc EXCEPT ![h] = step]
      BY <1>4 DEF Lock, Goes
    <2> QED BY <2>1, <2>2, LocksGives DEF XInv, Holds, Busy
  <1>5. ASSUME NEW h \in Handlers, Unlock(h) PROVE XInv'
    <2>1. /\ Unlocks(h) /\ h \in Txs /\ mutexOf[h] = registry /\ registry # 0
          /\ owner[registry] = h /\ pc' = [pc EXCEPT ![h] = "idle"]
      BY <1>5 DEF Unlock, Goes, Holds, Txs, XInv
    <2>2. \A g \in Handlers : ~Holds(g)'
      BY <2>1, UnlocksGives DEF Holds, XInv
    <2>3. mutexOf' \in [Txs -> {0, registry'}] /\ owner' \in [Mutexes -> Txs \cup {Nobody}]
      BY <2>1, UnlocksGives DEF XInv
    <2>4. \A g \in Handlers : pc'[g] # "idle" => mutexOf'[g] = registry' /\ registry' # 0
      BY <2>1, UnlocksGives DEF XInv, Txs
    <2>5. \A m \in Mutexes : owner'[m] # Nobody => m = registry'
      BY <2>1, UnlocksGives DEF XInv
    <2>6. pc' \in [Handlers -> {"idle", "lock"} \cup Busy] /\ registry' \in Mutexes \cup {0}
      BY <2>1, UnlocksGives DEF XInv
    <2> QED BY <2>2, <2>3, <2>4, <2>5, <2>6 DEF XInv
  <1>6. ASSUME NEW h \in Handlers, Handle(h) PROVE XInv'
    BY <1>3, <1>4, <1>5, <1>6, InsideWorks, WorksKeepsX DEF Handle, Step
  <1> QED BY <1>1, <1>2, <1>6 DEF Next

\* The mutex of the registry is one object for as long as the process lives.
THEOREM LockInvariant == Spec => []XInv
  BY InitX, NextX, PTL DEF Spec

\* At most one goroutine is between Lock and Unlock of the inventory: LoadOrStore
\* never hands out a second mutex for it (InventoryService.MutualExclusion).
THEOREM OneGoroutineInside == Spec => []MutualExclusion
  <1>1. XInv => MutualExclusion
    BY DEF XInv, MutualExclusion
  <1> QED BY <1>1, LockInvariant, PTL

-----------------------------------------------------------------------------
\* What a transaction with the writes w sees of the committed rows t.
Seen(t, w) ==
  LET live == (DOMAIN t \cup DOMAIN w) \ {r \in DOMAIN w : w[r] = Gone}
  IN [r \in live |-> IF r \in DOMAIN w THEN w[r] ELSE t[r]]

\* The rows with one more.
Extended(t, r, row) ==
  [x \in DOMAIN t \cup {r} |-> IF x \in DOMAIN t THEN t[x] ELSE row]

LEMMA ViewIsSeen == ASSUME NEW h PROVE View(h) = Seen(table, writes[h])
  BY DEF View, Seen

\* A transaction that has written nothing sees the committed rows;
LEMMA SeenEmpty ==
  ASSUME NEW t, t = [r \in DOMAIN t |-> t[r]]
  PROVE  Seen(t, <<>>) = t
  BY DEF Seen

\* an update, a delete and an insert change what it sees in one row.
LEMMA SeenUpdate ==
  ASSUME NEW t, NEW w, NEW r \in DOMAIN Seen(t, w), NEW row, row # Gone
  PROVE  Seen(t, Written(w, r, row)) = [Seen(t, w) EXCEPT ![r] = row]
  BY DEF Seen, Written

LEMMA SeenDelete ==
  ASSUME NEW t, NEW w, NEW r \in DOMAIN Seen(t, w)
  PROVE  Seen(t, Written(w, r, Gone)) = Without(Seen(t, w), r)
  BY DEF Seen, Without, Written

LEMMA SeenInsert ==
  ASSUME NEW t, NEW w, NEW r, r \notin DOMAIN Seen(t, w), NEW row, row # Gone
  PROVE  Seen(t, Written(w, r, row)) = Extended(Seen(t, w), r, row)
  <1>1. DOMAIN Seen(t, Written(w, r, row)) = DOMAIN Seen(t, w) \cup {r}
    BY DEF Seen, Written
  <1>2. \A x \in DOMAIN Seen(t, w) : Seen(t, Written(w, r, row))[x] = Seen(t, w)[x]
    BY DEF Seen, Written
  <1>3. Seen(t, Written(w, r, row))[r] = row
    BY DEF Seen, Written
  <1>4. Seen(t, Written(w, r, row)) = [x \in DOMAIN Seen(t, w) \cup {r} |-> Seen(t, Written(w, r, row))[x]]
    BY <1>1 DEF Seen
  <1> QED BY <1>2, <1>3, <1>4 DEF Extended

\* The tables of EquipInventory are those of this module.
LEMMA AbsTables ==
  /\ \A t, s : Abs!Occupied(t, s) = Occupied(t, s) /\ Abs!RowAt(t, s) = RowAt(t, s)
  /\ \A t, s : Abs!ItemAt(t, s) = ItemAt(t, s)
  /\ \A t, s, d : Abs!MoveSlot(t, s, d) = MoveSlot(t, s, d)
  /\ \A t, s, d : Abs!Swap(t, s, d) = Swap(t, s, d)
  /\ \A t : Abs!FreeSlots(t) = FreeSlots(t)
  /\ \A t, r : Abs!Without(t, r) = Without(t, r)
  /\ \A t, id, item, slots, n : Abs!WithRows(t, id, item, slots, n) = WithRows(t, id, item, slots, n)
  /\ \A item : Abs!Destination(item) = Destination(item)
  <1>1. \A t, s : Abs!Occupied(t, s) = Occupied(t, s)
    BY DEF Occupied, Abs!Occupied
  <1>2. \A t, s : Abs!RowAt(t, s) = RowAt(t, s)
    BY DEF RowAt, Abs!RowAt
  <1>3. \A t, s : Abs!ItemAt(t, s) = ItemAt(t, s)
    BY <1>2 DEF ItemAt, Abs!ItemAt
  <1>4. \A t, s, d : Abs!MoveSlot(t, s, d) = MoveSlot(t, s, d)
    BY <1>1, <1>2 DEF MoveSlot, Abs!MoveSlot
  <1>5. Abs!Temp = Temp
    BY DEF Temp, Abs!Temp
  <1>6. \A t, s, d : Abs!Swap(t, s, d) = Swap(t, s, d)
    BY <1>4, <1>5 DEF Swap, Abs!Swap
  <1>7. \A S : Abs!Cardinality(S) = Cardinality(S)
    BY Zenon DEF Abs!Cardinality, Cardinality
  <1>8. \A t : Abs!FreeSlots(t) = FreeSlots(t)
    BY <1>1, <1>7 DEF FreeSlots, Abs!FreeSlots
  <1>9. \A t, r : Abs!Without(t, r) = Without(t, r)
    BY DEF Without, Abs!Without
  <1>10. \A t, id, item, slots, n :
           Abs!WithRows(t, id, item, slots, n) = WithRows(t, id, item, slots, n)
    BY DEF WithRows, Abs!WithRows
  <1>11. \A item : Abs!Destination(item) = Destination(item)
    BY DEF Destination, Abs!Destination
  <1> QED BY <1>1, <1>2, <1>3, <1>4, <1>6, <1>8, <1>9, <1>10, <1>11

-----------------------------------------------------------------------------
\* What every commit leaves: no two rows in one slot, and none parked.
Good(t) == IsTable(t) /\ Distinct(t) /\ ~Occupied(t, Temp)

Cmd == [op : {"none", "create", "equip", "unequip", "move", "drop"}, source : Int,
        destination : Int, item : Items \cup {Nobody}, quantity : Nat, step : 1 .. 3]

\* What the state of the goroutines is made of.
Typed == /\ cmd \in [Handlers -> Cmd] /\ DOMAIN writes = Txs
         /\ DOMAIN sel = Handlers /\ DOMAIN slot = Handlers /\ DOMAIN events = Handlers

\* The committed rows, whose ids are behind the sequence.
Committed == /\ inventory = TRUE /\ seq \in Nat \ {0} /\ Good(table)
             /\ NextId \in Nat \ {0} /\ DOMAIN table \subseteq 1 .. NextId - 1

\* Only a goroutine inside has written anything.
Quiet ==
  /\ \A t \in Txs : writes[t] # <<>> => t \in Handlers /\ Inside(t)
  /\ \A h \in Handlers :
       /\ sel[h] # NoRow => pc[h] \in {"free", "unequip", "drop"}
       /\ pc[h] \in {"idle", "lock"} => events[h] = <<>>

\* How far a goroutine is, in terms of the rows that are committed.
Untouched(h) == writes[h] = <<>> /\ events[h] = <<>>

\* The row at the source of the command, and what the commands ask for.
Found(h) == [row |-> RowAt(table, cmd[h].source), item |-> ItemAt(table, cmd[h].source)]

HasSource(h) == cmd[h].source \in CommandSlots /\ Occupied(table, cmd[h].source)

Takes(h, op) == cmd[h].op = op /\ HasSource(h)

\* An unequip looks for a free slot whether it has found a row or not.
Vacates(h) == /\ cmd[h].op = "unequip" /\ cmd[h].source \in CommandSlots /\ Untouched(h)
              /\ sel[h] = IF Occupied(table, cmd[h].source) THEN Found(h) ELSE NoRow

\* A create has inserted a row for each event, each in the slot that was free
\* after the rows before it; as many units as it was asked for are inserted or
\* still to be.
Fills(h, slots) ==
  LET n == Len(events[h]) IN
  /\ slots \in [1 .. n -> 1 .. Cardinality(DOMAIN table) + n]
  /\ View(h) = WithRows(table, seq - n, cmd[h].item, slots, n)
  /\ events[h] = [k \in 1 .. n |-> Abs!Added(cmd[h].item, slots[k])]
  /\ \A k \in 1 .. n :
       slots[k] \in FreeSlots(WithRows(table, seq - n, cmd[h].item, slots, k - 1))

Builds(h) ==
  /\ cmd[h].op = "create" /\ cmd[h].source = 0 /\ cmd[h].item \in Items
  /\ Len(events[h]) \in Nat /\ seq + cmd[h].quantity - 1 <= MaxId
  /\ \E q \in 0 .. MaxQuantity : Len(events[h]) + cmd[h].quantity = Units(q)
  /\ \E slots : Fills(h, slots)

Remains(h) == Builds(h) /\ cmd[h].quantity > 0

Equips(h) == /\ Takes(h, "equip") /\ cmd[h].item = ItemAt(table, cmd[h].source)
             /\ cmd[h].destination = Destination(cmd[h].item)

Trades(h) == /\ cmd[h].op = "move"
             /\ cmd[h].source \in MoveSlots /\ cmd[h].destination \in MoveSlots

\* The rows after each move of an exchange, and the event it collects.
Parked(h) == MoveSlot(table, cmd[h].destination, Temp)

Halfway(h) == MoveSlot(Parked(h), cmd[h].source, cmd[h].destination)

Swapped(h) == Swap(table, cmd[h].source, cmd[h].destination)

Told(h) == Abs!ExchangeEvents(table, cmd[h].source, cmd[h].destination)

\* Before the first, second and third move of an exchange, and after it.
Exchanging(h) ==
  \/ cmd[h].step = 1 /\ Untouched(h)
  \/ cmd[h].step = 2 /\ View(h) = Parked(h) /\ events[h] = <<>>
  \/ cmd[h].step = 3 /\ View(h) = Halfway(h) /\ events[h] = Told(h)

Exchanges(h) == View(h) = Swapped(h) /\ events[h] = Told(h)

\* At the commit the rows and the events are those of the whole command.
CreateDone(h) == Builds(h) /\ cmd[h].quantity = 0

UnequipDone(h) ==
  /\ Takes(h, "unequip")
  /\ \E f \in FreeSlots(table) :
       /\ View(h) = MoveSlot(table, cmd[h].source, f)
       /\ events[h] = <<Abs!MovedTo(Found(h).item, cmd[h].source, f)>>

DropDone(h) ==
  /\ Takes(h, "drop")
  /\ View(h) = Without(table, Found(h).row)
  /\ events[h] = <<Abs!Removed(Found(h).item, cmd[h].source)>>

EquipDone(h) ==
  LET rival == Abs!Rival(cmd[h].item) IN
  /\ Equips(h)
  /\ \E free \in FreeSlots(Swapped(h)) :
       \/ /\ \/ rival = Abs!NoRival
             \/ Occupied(Swapped(h), rival) /\ ~Abs!GivesWay(Swapped(h), rival)
          /\ Exchanges(h)
       \/ /\ rival # Abs!NoRival
          /\ Occupied(Swapped(h), rival) /\ Abs!GivesWay(Swapped(h), rival)
          /\ View(h) = MoveSlot(Swapped(h), rival, free)
          /\ events[h] = Append(Told(h), Abs!MovedTo(ItemAt(Swapped(h), rival), rival, free))

MoveDone(h) == Trades(h) /\ Exchanges(h)

Whole(h) ==
  CreateDone(h) \/ UnequipDone(h) \/ DropDone(h) \/ EquipDone(h) \/ MoveDone(h)

\* What holds of a goroutine at each step.
At(h) ==
  /\ pc[h] = "locate" =>
       \/ Remains(h)
       \/ cmd[h].op = "unequip" /\ cmd[h].source \in CommandSlots /\ Untouched(h)
          /\ cmd[h].step = 1
       \/ Equips(h) /\ Exchanges(h)
  /\ pc[h] = "find" =>
       /\ cmd[h].op \in {"equip", "unequip", "drop"} /\ cmd[h].source \in CommandSlots
       /\ cmd[h].step = 1 /\ Untouched(h)
  /\ pc[h] = "exchange" => (Equips(h) \/ Trades(h)) /\ Exchanging(h)
  /\ pc[h] = "free" =>
       \/ Remains(h) /\ sel[h] = NoRow
       \/ Vacates(h)
       \/ Equips(h) /\ Exchanges(h) /\ sel[h] = NoRow
  /\ pc[h] = "insert" => Remains(h) /\ slot[h] \in FreeSlots(View(h))
  /\ pc[h] = "rival" => Equips(h) /\ Exchanges(h) /\ slot[h] \in FreeSlots(Swapped(h))
  /\ pc[h] = "unequip" => Vacates(h) /\ slot[h] \in FreeSlots(table)
  /\ pc[h] = "drop" => Takes(h, "drop") /\ Untouched(h) /\ sel[h] = Found(h)
  /\ pc[h] = "commit" => Whole(h)

RInv == Typed /\ Committed /\ Quiet /\ \A h \in Handlers : At(h)

-----------------------------------------------------------------------------
\* While one goroutine holds the mutex nobody else has written a row.
LEMMA Alone ==
  ASSUME XInv, Quiet, NEW h \in Handlers, Holds(h)
  PROVE  /\ \A g \in Handlers \ {h} : pc[g] \in {"idle", "lock"}
         /\ \A u \in Txs \ {h} : writes[u] = <<>>
         /\ \A r : ~RowLocked(h, r)
  <1>1. \A g \in Handlers \ {h} : pc[g] \in {"idle", "lock"}
    BY DEF XInv, Holds
  <1>2. \A u \in Txs \ {h} : writes[u] = <<>>
    BY <1>1 DEF Quiet, Inside
  <1>3. DOMAIN <<>> = {}
    OBVIOUS
  <1> QED BY <1>1, <1>2, <1>3 DEF RowLocked

\* What the abstract id sequence is while one goroutine at most is inside.
NextOf(h) == IF Creating(h) THEN seq - Len(events[h]) ELSE seq

LEMMA NextIs ==
  ASSUME NEW h \in Handlers, \A g \in Handlers \ {h} : pc[g] \in {"idle", "lock"}
  PROVE  NextId = NextOf(h)
  <1>1. \A g \in Handlers : Creating(g) => g = h
    BY DEF Creating, Inside
  <1>2. CASE Creating(h)
    <2>1. (CHOOSE g \in Handlers : Creating(g)) = h
      BY <1>1, <1>2
    <2> QED BY <1>2, <2>1 DEF NextId, NextOf
  <1>3. CASE ~Creating(h)
    BY <1>1, <1>3 DEF NextId, NextOf
  <1> QED BY <1>2, <1>3

LEMMA NextBecomes ==
  ASSUME NEW h \in Handlers, \A g \in Handlers \ {h} : pc'[g] \in {"idle", "lock"}
  PROVE  NextId' = NextOf(h)'
  <1>1. \A g \in Handlers : Creating(g)' => g = h
    BY DEF Creating, Inside
  <1>2. CASE Creating(h)'
    <2>1. (CHOOSE g \in Handlers : Creating(g)') = h
      BY <1>1, <1>2
    <2> QED BY <1>2, <2>1 DEF NextId, NextOf
  <1>3. CASE ~Creating(h)'
    BY <1>1, <1>3 DEF NextId, NextOf
  <1> QED BY <1>2, <1>3

\* Whoever creates has inserted a part of its rows.
LEMMA CreatingBuilds ==
  ASSUME RInv, NEW h \in Handlers, Creating(h), pc[h] \in Busy
  PROVE  Builds(h)
  BY DEF Creating, Inside, Busy, RInv, At, Remains, Vacates, Whole, CreateDone, UnequipDone,
         DropDone, EquipDone, MoveDone, Equips, Takes, Trades

LEMMA NextAtMost ==
  ASSUME XInv, RInv
  PROVE  NextId <= seq /\ seq \in Nat \ {0}
  <1>1. seq \in Nat \ {0}
    BY DEF RInv, Committed
  <1>2. ASSUME NEW h \in Handlers, Creating(h) PROVE Len(events[h]) \in Nat
    <2>1. pc[h] \in Busy
      BY <1>2 DEF XInv, Creating, Inside
    <2> QED BY <1>2, <2>1, CreatingBuilds DEF Builds
  <1> QED BY <1>1, <1>2 DEF NextId

\* The sequence, as EquipInventory knows it, where nobody gets further.
LEMMA NextStays ==
  ASSUME XInv, RInv, seq' = seq, events' = events,
         \A g \in Handlers : /\ Creating(g)' <=> Creating(g)
                             /\ pc[g] \in {"idle", "lock"} => pc'[g] \in {"idle", "lock"}
  PROVE  NextId' = NextId
  <1>1. CASE \E h \in Handlers : Creating(h)
    <2>1. PICK h \in Handlers : Creating(h)
      BY <1>1
    <2>2. Holds(h)
      BY <2>1 DEF Creating, Inside, Holds
    <2>3. \A g \in Handlers \ {h} : pc[g] \in {"idle", "lock"} /\ pc'[g] \in {"idle", "lock"}
      BY <2>2, Alone DEF RInv
    <2> QED BY <2>1, <2>3, NextIs, NextBecomes DEF NextOf
  <1>2. CASE ~\E h \in Handlers : Creating(h)
    BY <1>2 DEF NextId
  <1> QED BY <1>1, <1>2

\* A step between Lock and Unlock leaves everything of the others alone.
Private(h) ==
  /\ Holds(h) /\ inventory' = inventory
  /\ \A g \in Handlers \ {h} :
       pc'[g] = pc[g] /\ sel'[g] = sel[g] /\ events'[g] = events[g]
  /\ \A u \in Txs \ {h} : writes'[u] = writes[u]

LEMMA PrivateKeeps ==
  ASSUME XInv, RInv, NEW h \in Handlers, Private(h), Typed', At(h)',
         Good(table'), seq' \in Nat \ {0}, NextOf(h)' \in Nat \ {0},
         DOMAIN table' \subseteq 1 .. NextOf(h)' - 1,
         writes'[h] # <<>> => Inside(h)',
         sel'[h] # NoRow => pc'[h] \in {"free", "unequip", "drop"},
         pc'[h] \in {"idle", "lock"} => events'[h] = <<>>
  PROVE  RInv' /\ NextId = NextOf(h) /\ NextId' = NextOf(h)'
  <1>1. \A g \in Handlers \ {h} : pc[g] \in {"idle", "lock"} /\ pc'[g] = pc[g]
    BY Alone DEF Private, RInv
  <1>2. NextId = NextOf(h) /\ NextId' = NextOf(h)'
    BY <1>1, NextIs, NextBecomes
  <1>3. Committed'
    BY <1>2 DEF RInv, Committed, Private
  <1>4. Quiet'
    <2>1. \A u \in Txs \ {h} : writes'[u] = <<>>
      BY Alone DEF Private, RInv
    <2>2. h \in Txs
      BY DEF Txs
    <2> QED BY <1>1, <2>1, <2>2 DEF Quiet, RInv, Private
  <1>5. \A g \in Handlers \ {h} : At(g)'
    BY <1>1 DEF At
  <1> QED BY <1>2, <1>3, <1>4, <1>5 DEF RInv

\* A step that leaves rows, outcome and sequence alone is none of EquipInventory.
LEMMA Stutters ==
  ASSUME table' = table, last' = last, NextId' = NextId
  PROVE  UNCHANGED Abs!vars
  BY DEF Abs!vars, Abs!outcome

\* A transaction that has written nothing sees the committed rows.
LEMMA ViewUntouched ==
  ASSUME RInv, NEW h, writes[h] = <<>>
  PROVE  View(h) = table
  <1>1. table = [r \in DOMAIN table |-> table[r]]
    BY DEF RInv, Committed, Good, IsTable
  <1> QED BY <1>1, SeenEmpty, ViewIsSeen

\* A write changes what its transaction sees, and nobody else.
LEMMA ViewWritten ==
  ASSUME NEW h \in Txs, DOMAIN writes = Txs, table' = table, NEW r, NEW row, UpsertsRow(h, r, row)
  PROVE  /\ View(h)' = Seen(table, Written(writes[h], r, row))
         /\ DOMAIN writes' = Txs /\ \A u \in Txs \ {h} : writes'[u] = writes[u]
         /\ writes'[h] = Written(writes[h], r, row)
  <1>1. writes' = [writes EXCEPT ![h] = Written(writes[h], r, row)]
    BY DEF UpsertsRow
  <1>2. writes'[h] = Written(writes[h], r, row)
    BY <1>1
  <1> QED BY <1>1, <1>2 DEF View, Seen

LEMMA ViewStays ==
  ASSUME NEW h, table' = table, writes'[h] = writes[h]
  PROVE  View(h)' = View(h)
  BY DEF View

\* moveFromSlotToSlot as the transaction sees it.
LEMMA MovesView ==
  ASSUME NEW h \in Handlers, DOMAIN writes = Txs, table' = table, NEW s \in Int, NEW d \in Int,
         IsTable(View(h)), Distinct(View(h)), Occupied(View(h), s), Nobody \notin Items,
         Selected(h, s) = [row |-> RowAt(View(h), s), item |-> ItemAt(View(h), s)],
         Moves(h, s, d)
  PROVE  /\ View(h)' = MoveSlot(View(h), s, d)
         /\ DOMAIN writes' = Txs /\ \A u \in Txs \ {h} : writes'[u] = writes[u]
         /\ sel' = [sel EXCEPT ![h] = NoRow]
  <1> DEFINE v == View(h)
             r == RowAt(v, s)
             row == [item |-> ItemAt(v, s), slot |-> d]
  <1>1. r \in DOMAIN v /\ ItemAt(v, s) = v[r].item /\ ItemAt(v, s) \in Items
    BY FoundRow
  <1>2. h \in Txs
    BY DEF Txs
  <1>3. WritesRow(h, r, row) /\ sel' = [sel EXCEPT ![h] = NoRow]
    BY DEF Moves
  <1>4. UpsertsRow(h, r, row)
    BY <1>1, <1>3 DEF WritesRow
  <1>5. row # Gone
    BY <1>1 DEF Gone
  <1>6. View(h)' = [v EXCEPT ![r] = row]
    BY <1>1, <1>2, <1>4, <1>5, ViewWritten, ViewIsSeen, SeenUpdate
  <1>7. [v EXCEPT ![r] = row] = [v EXCEPT ![r].slot = d]
    <2>1. v[r] \in [item : Items, slot : Int]
      BY <1>1 DEF IsTable
    <2>2. row = [v[r] EXCEPT !.slot = d]
      BY <1>1, <2>1
    <2> QED BY <2>2
  <1>8. MoveSlot(v, s, d) = [v EXCEPT ![r].slot = d]
    BY DEF MoveSlot
  <1> QED BY <1>2, <1>3, <1>4, <1>6, <1>7, <1>8, ViewWritten

\* The ways a command ends without a commit: of it nothing remains but the id.
LEMMA UndoneKeeps ==
  ASSUME XInv, RInv, NEW h \in Handlers, Holds(h),
         writes' = [writes EXCEPT ![h] = <<>>], events' = [events EXCEPT ![h] = <<>>],
         sel' = [sel EXCEPT ![h] = NoRow], Goes(h, "unlock"),
         UNCHANGED <<table, inventory, seq, cmd, slot>>
  PROVE  RInv' /\ NextId = NextOf(h) /\ NextId' = seq
  <1>1. h \in Txs
    BY DEF Txs
  <1>2. writes'[h] = <<>> /\ sel'[h] = NoRow /\ pc'[h] = "unlock" /\ events'[h] = <<>>
    BY <1>1 DEF RInv, Typed, Goes, XInv
  <1>3. Typed'
    BY DEF RInv, Typed
  <1>4. Private(h)
    BY DEF Private, RInv, Typed, Goes, XInv
  <1>5. At(h)'
    BY <1>2 DEF At
  <1>6. NextOf(h)' = seq
    BY <1>2 DEF NextOf, Creating, Inside
  <1>7. NextId \in Nat \ {0} /\ seq \in Nat \ {0} /\ NextId <= seq
    BY NextAtMost DEF RInv, Committed
  <1>8. Good(table') /\ DOMAIN table' \subseteq 1 .. seq - 1
    BY <1>7 DEF RInv, Committed
  <1> QED BY <1>2, <1>3, <1>4, <1>5, <1>6, <1>7, <1>8, PrivateKeeps

\* An error inside the transaction.
LEMMA RollBackKeeps ==
  ASSUME XInv, RInv, NEW h \in Handlers, Holds(h), ~Creating(h), NEW result, RollsBack(h, result)
  PROVE  /\ RInv' /\ UNCHANGED <<table, NextId>>
         /\ Abs!RollsBack(cmd[h].op, cmd[h].source, result)
  <1>1. RInv' /\ NextId' = NextId
    BY UndoneKeeps DEF RollsBack, NextOf
  <1> QED BY <1>1 DEF RollsBack, Abs!RollsBack, Abs!Reports

\* A statement that changes no committed row is no step of the commands.
LEMMA PrivateStutters ==
  ASSUME XInv, RInv, NEW h \in Handlers, Private(h), Typed', At(h)',
         table' = table, last' = last, seq' \in Nat \ {0}, NextOf(h)' = NextOf(h),
         writes'[h] # <<>> => Inside(h)',
         sel'[h] # NoRow => pc'[h] \in {"free", "unequip", "drop"},
         pc'[h] \in {"idle", "lock"} => events'[h] = <<>>
  PROVE  RInv' /\ [Abs!Next]_Abs!vars
  <1>1. NextId = NextOf(h)
    BY Alone, NextIs DEF Private, RInv
  <1>2. NextOf(h)' \in Nat \ {0} /\ DOMAIN table' \subseteq 1 .. NextOf(h)' - 1 /\ Good(table')
    BY <1>1 DEF RInv, Committed
  <1>3. RInv' /\ NextId' = NextId
    BY <1>1, <1>2, PrivateKeeps
  <1> QED BY <1>3, Stutters

\* GetIdByType finds the row of the inventory, which nobody deletes here.
LEMMA LocateKeeps ==
  ASSUME XInv, RInv, NEW h \in Handlers, Locate(h)
  PROVE  RInv' /\ [Abs!Next]_Abs!vars
  <1>1. /\ pc[h] = "locate" /\ Holds(h) /\ inventory = TRUE /\ sel[h] = NoRow /\ At(h)
        /\ Typed /\ Committed
    BY DEF Locate, Holds, RInv, Quiet, Committed
  <1>2. /\ pc' = [pc EXCEPT ![h] = IF cmd[h].op = "unequip" THEN "find" ELSE "free"]
        /\ UNCHANGED <<table, inventory, seq, last, cmd, sel, slot, events, writes>>
    BY <1>1 DEF Locate, Goes, store, locals
  <1>3. Private(h) /\ Typed' /\ pc'[h] = IF cmd[h].op = "unequip" THEN "find" ELSE "free"
    BY <1>1, <1>2 DEF Private, XInv, Typed
  <1>4. At(h)'
    <2>1. CASE Remains(h)
      <3>1. Remains(h)'
        <4>1. Remains(h) /\ UNCHANGED <<table, seq, cmd, events, writes>>
          BY <1>2, <2>1
        <4>2. View(h)' = View(h)
          BY <4>1 DEF View
        <4> QED BY <4>1, <4>2 DEF Remains, Builds, Fills
      <3>2. pc'[h] = "free"
        BY <1>3, <2>1 DEF Remains, Builds
      <3> QED BY <1>1, <1>2, <3>1, <3>2 DEF At
    <2>2. CASE /\ cmd[h].op = "unequip" /\ cmd[h].source \in CommandSlots /\ Untouched(h)
               /\ cmd[h].step = 1
      BY <1>2, <1>3, <2>2 DEF At, Untouched
    <2>3. CASE Equips(h) /\ Exchanges(h)
      <3>1. Equips(h)' /\ Exchanges(h)' /\ pc'[h] = "free"
        BY <1>2, <1>3, <2>3 DEF Equips, Takes, HasSource, Exchanges, View, Swapped, Told
      <3> QED BY <1>1, <1>2, <3>1 DEF At
    <2> QED BY <1>1, <2>1, <2>2, <2>3 DEF At
  <1>5. NextOf(h)' = NextOf(h)
    BY <1>1, <1>2, <1>3 DEF NextOf, Creating, Inside
  <1> QED BY <1>1, <1>2, <1>3, <1>4, <1>5, PrivateStutters DEF Inside, Committed

\* GetBySlot on the source.
LEMMA FindKeeps ==
  ASSUME XInv, RInv, NEW h \in Handlers, Find(h)
  PROVE  RInv' /\ [Abs!Next]_Abs!vars
  <1> DEFINE source == cmd[h].source
  <1>1. /\ pc[h] = "find" /\ Holds(h) /\ ~Creating(h) /\ h \in Txs
        /\ cmd[h].op \in {"equip", "unequip", "drop"} /\ source \in CommandSlots
        /\ cmd[h].step = 1 /\ Untouched(h) /\ sel[h] = NoRow /\ inventory = TRUE
    BY DEF Find, Holds, Creating, RInv, At, Quiet, Committed, Txs
  <1>2. View(h) = table
    BY <1>1, ViewUntouched DEF Untouched
  <1>3. /\ Finds(h, source) <=> Occupied(table, source)
        /\ Selected(h, source) = Found(h)
    BY <1>1, <1>2 DEF Finds, Selected, Found
  <1>4. CASE cmd[h].op # "unequip" /\ ~Finds(h, source) /\ RollsBack(h, "absent")
    <2>1. RInv' /\ Abs!RollsBack(cmd[h].op, source, "absent")
      BY <1>1, <1>4, RollBackKeeps
    <2>2. ~Abs!Occupied(table, source)
      BY <1>3, <1>4, AbsTables
    <2>3. Abs!EquipItemForCharacter(source) \/ Abs!dropEquip(source)
      BY <1>1, <1>4, <2>1, <2>2 DEF Abs!EquipItemForCharacter, Abs!dropEquip
    <2> QED BY <1>1, <2>1, <2>3 DEF Abs!Next
  <1>5. CASE cmd[h].op = "equip" /\ Finds(h, source) /\ RollsBack(h, "unknown destination")
    <2>1. RInv' /\ Abs!RollsBack("equip", source, "unknown destination")
      BY <1>1, <1>5, RollBackKeeps
    <2>2. Abs!Occupied(table, source)
      BY <1>3, <1>5, AbsTables
    <2>3. Abs!EquipItemForCharacter(source)
      BY <2>1, <2>2 DEF Abs!EquipItemForCharacter
    <2> QED BY <1>1, <2>1, <2>3 DEF Abs!Next
  <1>6. CASE /\ cmd[h].op = "equip" /\ Finds(h, source)
             /\ cmd' = [cmd EXCEPT ![h].item = Found(h).item,
                                   ![h].destination = Destination(Found(h).item)]
             /\ Goes(h, "exchange")
             /\ UNCHANGED <<store, memory, sel, slot, events, writes, consumer>>
    <2>1. /\ UNCHANGED <<table, inventory, seq, last, sel, slot, events, writes>>
          /\ pc' = [pc EXCEPT ![h] = "exchange"]
      BY <1>6 DEF store, Goes
    <2>2. Occupied(table, source) /\ Found(h).item = ItemAt(table, source)
          /\ Found(h).item \in Items
      BY <1>3, <1>6, FoundRow DEF Found, RInv, Committed, Good
    <2>3. Destination(Found(h).item) \in Int
      BY <2>2, CatalogAssumption DEF Destination
    <2>4. cmd[h] \in Cmd /\ cmd \in [Handlers -> Cmd]
      BY DEF RInv, Typed
    <2>5. /\ cmd' = [cmd EXCEPT ![h] = cmd'[h]] /\ cmd'[h] \in Cmd
          /\ cmd'[h].op = "equip" /\ cmd'[h].source = source /\ cmd'[h].step = 1
          /\ cmd'[h].item = Found(h).item
          /\ cmd'[h].destination = Destination(Found(h).item)
      BY <1>1, <1>6, <2>2, <2>3, <2>4 DEF Cmd
    <2>6. Typed'
      BY <2>1, <2>4, <2>5 DEF RInv, Typed
    <2>7. pc'[h] = "exchange" /\ Private(h)
      BY <1>1, <2>1 DEF Private, XInv
    <2>8. Equips(h)' /\ Exchanging(h)'
      BY <1>1, <2>1, <2>2, <2>5 DEF Equips, Takes, HasSource, Exchanging, Untouched
    <2>9. At(h)'
      BY <2>7, <2>8 DEF At
    <2>10. NextOf(h)' = NextOf(h)
      BY <1>1, <2>1, <2>5 DEF NextOf, Creating
    <2> QED BY <1>1, <2>1, <2>6, <2>7, <2>9, <2>10, PrivateStutters DEF RInv, Committed, Untouched
  <1>7. CASE /\ cmd[h].op = "unequip" \/ (cmd[h].op = "drop" /\ Finds(h, source))
             /\ sel' = [sel EXCEPT ![h] = IF Finds(h, source) THEN Found(h) ELSE NoRow]
             /\ Goes(h, IF cmd[h].op = "drop" THEN "drop" ELSE "free")
             /\ UNCHANGED <<store, memory, cmd, slot, events, writes, consumer>>
    <2>1. /\ UNCHANGED <<table, inventory, seq, last, cmd, slot, events, writes>>
          /\ pc' = [pc EXCEPT ![h] = IF cmd[h].op = "drop" THEN "drop" ELSE "free"]
      BY <1>7 DEF store, Goes
    <2>2. /\ Typed' /\ Private(h)
          /\ sel'[h] = IF Occupied(table, source) THEN Found(h) ELSE NoRow
          /\ pc'[h] = IF cmd[h].op = "drop" THEN "drop" ELSE "free"
      BY <1>1, <1>3, <1>7, <2>1 DEF Private, XInv, RInv, Typed
    <2>3. Untouched(h)' /\ Found(h)' = Found(h)
      BY <1>1, <2>1 DEF Untouched, Found
    <2>4. At(h)'
      <3>1. CASE cmd[h].op = "unequip"
        <4>1. Vacates(h)' /\ pc'[h] = "free"
          BY <1>1, <2>1, <2>2, <2>3, <3>1 DEF Vacates
        <4> QED BY <4>1 DEF At
      <3>2. CASE cmd[h].op = "drop" /\ Finds(h, source)
        <4>1. Takes(h, "drop")' /\ pc'[h] = "drop" /\ sel'[h] = Found(h)'
          BY <1>1, <1>3, <2>1, <2>2, <2>3, <3>2 DEF Takes, HasSource
        <4> QED BY <2>3, <4>1 DEF At
      <3> QED BY <1>7, <3>1, <3>2
    <2>5. NextOf(h)' = NextOf(h)
      BY <1>1, <2>1 DEF NextOf, Creating
    <2> QED BY <1>1, <2>1, <2>2, <2>4, <2>5, PrivateStutters DEF RInv, Committed, Untouched
  <1> QED BY <1>3, <1>4, <1>5, <1>6, <1>7 DEF Find

\* What the three moves of an exchange do, and what is told of them.
LEMMA ExchangeSlots ==
  ASSUME RInv, NEW h \in Handlers, Equips(h) \/ Trades(h)
  PROVE  /\ cmd[h].source \in Int \ {Temp} /\ cmd[h].destination \in Int \ {Temp}
         /\ IsTable(Parked(h)) /\ Distinct(Parked(h))
         /\ IsTable(Halfway(h)) /\ Distinct(Halfway(h))
         /\ Occupied(Parked(h), cmd[h].source) =>
              ItemAt(Parked(h), cmd[h].source) = ItemAt(table, cmd[h].source)
         /\ Swapped(h) = MoveSlot(Halfway(h), Temp, cmd[h].source)
         /\ Good(Swapped(h)) /\ DOMAIN Swapped(h) = DOMAIN table
  <1> DEFINE s == cmd[h].source
             d == cmd[h].destination
  <1>1. Good(table)
    BY DEF RInv, Committed
  <1>2. ASSUME Equips(h) PROVE s \in Int \ {Temp} /\ d \in Int \ {Temp}
    <2>1. s \in CommandSlots /\ ItemAt(table, s) \in Items /\ d = Destination(ItemAt(table, s))
      BY <1>1, <1>2, FoundRow DEF Equips, Takes, HasSource, Good
    <2>2. d \in Int \ {Temp}
      BY <2>1, CatalogAssumption DEF Destination
    <2> QED BY <2>1, <2>2, ServiceAssumption
  <1>3. ASSUME Trades(h) PROVE s \in Int \ {Temp} /\ d \in Int \ {Temp}
    BY <1>3, ServiceAssumption DEF Trades
  <1>4. s \in Int \ {Temp} /\ d \in Int \ {Temp}
    BY <1>2, <1>3
  <1> HIDE DEF s, d
  <1>5. /\ IsTable(Parked(h)) /\ Distinct(Parked(h))
        /\ IsTable(Halfway(h)) /\ Distinct(Halfway(h))
        /\ Occupied(Parked(h), s) => ItemAt(Parked(h), s) = ItemAt(table, s)
    BY <1>1, <1>4, SwapSteps DEF Good, Parked, Halfway, s, d
  <1>6. Swapped(h) = MoveSlot(Halfway(h), Temp, s)
    BY DEF Swapped, Halfway, Parked, Swap, s, d
  <1>7. Good(Swapped(h)) /\ DOMAIN Swapped(h) = DOMAIN table
    <2>1. Swapped(h) = Swap(table, s, d)
      BY DEF Swapped, s, d
    <2>2. Swap(table, s, d) = Traded(table, s, d)
      BY <1>1, <1>4, SwapRows DEF Good
    <2>3. Good(Traded(table, s, d)) /\ DOMAIN Traded(table, s, d) = DOMAIN table
      BY <1>1, <1>4, ExchangeDistinct DEF Good
    <2> QED BY <2>1, <2>2, <2>3
  <1> QED BY <1>4, <1>5, <1>6, <1>7 DEF s, d

\* The event of the second move.
LEMMA ToldIs ==
  ASSUME NEW h
  PROVE  Told(h) = IF Occupied(Parked(h), cmd[h].source)
                   THEN <<Abs!MovedTo(ItemAt(table, cmd[h].source), cmd[h].source, cmd[h].destination)>>
                   ELSE <<>>
  <1>1. Abs!Temp = Temp
    BY DEF Temp, Abs!Temp
  <1> QED BY <1>1, AbsTables DEF Told, Abs!ExchangeEvents, Parked

\* A move of the exchange.
LEMMA ExchangeKeeps ==
  ASSUME XInv, RInv, NEW h \in Handlers, Exchange(h)
  PROVE  RInv' /\ [Abs!Next]_Abs!vars
  <1> DEFINE c == cmd[h]
             from == <<c.destination, c.source, Temp>>[c.step]
             to == <<Temp, c.destination, c.source>>[c.step]
             after == IF c.step < 3 THEN "exchange"
                      ELSE IF c.op = "equip" THEN "locate" ELSE "commit"
  <1>1. /\ pc[h] = "exchange" /\ Holds(h) /\ h \in Txs
        /\ Equips(h) \/ Trades(h)
        /\ Exchanging(h) /\ sel[h] = NoRow /\ inventory = TRUE /\ c \in Cmd
        /\ DOMAIN writes = Txs
    BY DEF Exchange, Holds, RInv, At, Quiet, Committed, Txs, Typed
  <1>2. \A r : ~RowLocked(h, r)
    BY <1>1, Alone DEF RInv
  <1>3. /\ \/ ~Finds(h, from) /\ UNCHANGED <<writes, sel, events>>
           \/ /\ Moves(h, from, to)
              /\ IF c.step = 2
                 THEN Tells(h, Abs!MovedTo(Selected(h, from).item, from, to))
                 ELSE UNCHANGED events
        /\ cmd' = [cmd EXCEPT ![h].step = IF @ < 3 THEN @ + 1 ELSE 1]
        /\ pc' = [pc EXCEPT ![h] = after]
        /\ UNCHANGED <<table, inventory, seq, last, slot>>
    BY <1>2 DEF Exchange, WaitsForRow, Goes, store
  <1>4. /\ Finds(h, from) <=> Occupied(View(h), from)
        /\ Selected(h, from) = [row |-> RowAt(View(h), from), item |-> ItemAt(View(h), from)]
    BY <1>1 DEF Finds, Selected
  <1>5. /\ IsTable(View(h)) /\ Distinct(View(h)) /\ from \in Int /\ to \in Int
        /\ c.step \in 1 .. 3 /\ (Untouched(h) => View(h) = table)
    <2>1. CASE c.step = 1 /\ Untouched(h)
      <3>1. View(h) = table
        BY <2>1, ViewUntouched DEF Untouched
      <3> QED BY <1>1, <2>1, <3>1, ExchangeSlots DEF RInv, Committed, Good, Temp
    <2>2. CASE c.step = 2 /\ View(h) = Parked(h)
      BY <1>1, <2>2, ExchangeSlots, ViewUntouched DEF Untouched
    <2>3. CASE c.step = 3 /\ View(h) = Halfway(h)
      BY <1>1, <2>3, ExchangeSlots, ViewUntouched DEF Untouched, Temp
    <2> QED BY <1>1, <2>1, <2>2, <2>3 DEF Exchanging
  <1> HIDE DEF from, to
  <1>6. /\ View(h)' = MoveSlot(View(h), from, to) /\ DOMAIN writes' = Txs
        /\ \A u \in Txs \ {h} : writes'[u] = writes[u]
        /\ sel'[h] = NoRow /\ DOMAIN sel' = Handlers
        /\ \A g \in Handlers \ {h} : sel'[g] = sel[g]
    <2>1. CASE ~Finds(h, from) /\ UNCHANGED <<writes, sel>>
      <3>1. MoveSlot(View(h), from, to) = View(h)
        BY <1>4, <2>1 DEF MoveSlot
      <3> QED BY <1>1, <1>3, <2>1, <3>1, ViewStays DEF RInv, Typed
    <2>2. CASE Moves(h, from, to)
      <3>1. Occupied(View(h), from)
        BY <1>4, <2>2 DEF Moves
      <3>2. /\ View(h)' = MoveSlot(View(h), from, to) /\ DOMAIN writes' = Txs
            /\ \A u \in Txs \ {h} : writes'[u] = writes[u]
            /\ sel' = [sel EXCEPT ![h] = NoRow]
        BY <1>1, <1>3, <1>4, <1>5, <2>2, <3>1, MovesView, ServiceAssumption
      <3> QED BY <3>2 DEF RInv, Typed
    <2> QED BY <1>3, <2>1, <2>2
  <1>7. DOMAIN events' = Handlers /\ \A g \in Handlers \ {h} : events'[g] = events[g]
    BY <1>3 DEF Tells, RInv, Typed
  <1>8. /\ cmd' \in [Handlers -> Cmd] /\ cmd'[h].op = c.op /\ cmd'[h].source = c.source
        /\ cmd'[h].destination = c.destination /\ cmd'[h].item = c.item
        /\ cmd'[h].step = IF c.step < 3 THEN c.step + 1 ELSE 1
    BY <1>1, <1>3, <1>5 DEF RInv, Typed, Cmd
  <1>9. Typed'
    BY <1>3, <1>6, <1>7, <1>8 DEF RInv, Typed
  <1>10. pc'[h] = after /\ Private(h)
    BY <1>1, <1>3, <1>6, <1>7 DEF Private, XInv
  <1>11. /\ Parked(h)' = Parked(h) /\ Halfway(h)' = Halfway(h) /\ Swapped(h)' = Swapped(h)
         /\ Told(h)' = Told(h) /\ (Equips(h) => Equips(h)') /\ (Trades(h) => Trades(h)')
    BY <1>3, <1>8 DEF Parked, Halfway, Swapped, Told, Equips, Takes, HasSource, Trades
  <1>12. At(h)'
    <2>1. CASE c.step = 1
      <3>1. from = c.destination /\ to = Temp
        BY <2>1 DEF from, to
      <3>2. View(h)' = Parked(h)' /\ events'[h] = <<>> /\ cmd'[h].step = 2
        BY <1>1, <1>3, <1>5, <1>6, <1>8, <1>11, <2>1, <3>1 DEF Exchanging, Parked, Untouched
      <3> QED BY <1>1, <1>10, <1>11, <2>1, <3>2 DEF At, Exchanging
    <2>2. CASE c.step = 2
      <3>1. from = c.source /\ to = c.destination
        BY <2>2 DEF from, to
      <3>2. View(h) = Parked(h) /\ events[h] = <<>>
        BY <1>1, <2>2 DEF Exchanging
      <3>3. View(h)' = Halfway(h)' /\ cmd'[h].step = 3
        BY <1>6, <1>8, <1>11, <2>2, <3>1, <3>2 DEF Halfway
      <3>4. events'[h] = Told(h)'
        <4>1. CASE ~Occupied(Parked(h), c.source)
          <5>1. events'[h] = <<>>
            BY <1>3, <1>4, <3>1, <3>2, <4>1 DEF Moves
          <5> QED BY <1>11, <4>1, <5>1, ToldIs
        <4>2. CASE Occupied(Parked(h), c.source)
          <5>1. Selected(h, from).item = ItemAt(table, c.source)
            BY <1>1, <1>4, <3>1, <3>2, <4>2, ExchangeSlots
          <5>2. events'[h] = Append(<<>>, Abs!MovedTo(ItemAt(table, c.source), c.source, c.destination))
            BY <1>3, <1>4, <2>2, <3>1, <3>2, <4>2, <5>1 DEF Tells, RInv, Typed
          <5>3. \A e : Append(<<>>, e) = <<e>>
            OBVIOUS
          <5> QED BY <1>11, <4>2, <5>2, <5>3, ToldIs
        <4> QED BY <4>1, <4>2
      <3> QED BY <1>1, <1>10, <1>11, <2>2, <3>3, <3>4 DEF At, Exchanging
    <2>3. CASE c.step = 3
      <3>1. from = Temp /\ to = c.source
        BY <2>3 DEF from, to
      <3>2. View(h)' = Swapped(h)' /\ events'[h] = Told(h)'
        BY <1>1, <1>3, <1>6, <1>11, <2>3, <3>1, ExchangeSlots DEF Exchanging
      <3>3. CASE Equips(h)
        <4>1. pc'[h] = "locate"
          BY <1>10, <2>3, <3>3 DEF Equips, Takes
        <4> QED BY <1>6, <1>11, <3>2, <3>3, <4>1 DEF At, Exchanges
      <3>4. CASE Trades(h)
        <4>1. pc'[h] = "commit"
          BY <1>10, <2>3, <3>4 DEF Trades
        <4> QED BY <1>11, <3>2, <3>4, <4>1 DEF At, Exchanges, Whole, MoveDone
      <3> QED BY <1>1, <3>3, <3>4
    <2> QED BY <1>5, <2>1, <2>2, <2>3
  <1>13. NextOf(h)' = NextOf(h)
    <2>1. cmd[h].op # "create" /\ cmd'[h].op # "create"
      BY <1>1, <1>8 DEF Equips, Takes, Trades
    <2> QED BY <1>3, <2>1 DEF NextOf, Creating
  <1>14. Inside(h)' /\ pc'[h] \notin {"idle", "lock"}
    BY <1>10 DEF Inside
  <1> QED BY <1>3, <1>6, <1>9, <1>10, <1>12, <1>13, <1>14, PrivateStutters DEF RInv, Committed

\* GetNextFreeSlot.
LEMMA FreeKeeps ==
  ASSUME XInv, RInv, NEW h \in Handlers, Free(h)
  PROVE  RInv' /\ [Abs!Next]_Abs!vars
  <1>1. /\ pc[h] = "free" /\ Holds(h) /\ inventory = TRUE /\ At(h)
        /\ Typed /\ Quiet /\ Committed
    BY DEF Free, Holds, RInv, Committed
  <1>2. PICK f \in FreeSlots(View(h)) :
          /\ slot' = [slot EXCEPT ![h] = f]
          /\ pc' = [pc EXCEPT ![h] = CASE cmd[h].op = "create" -> "insert"
                                       [] cmd[h].op = "equip" -> "rival"
                                       [] OTHER -> "unequip"]
          /\ UNCHANGED <<table, inventory, seq, last, cmd, sel, events, writes>>
    BY <1>1 DEF Free, Goes, store
  <1>3. Typed' /\ slot'[h] = f
    BY <1>1, <1>2 DEF Typed
  <1>4. Private(h)
    BY <1>1, <1>2 DEF Private, XInv
  <1>5. /\ View(h)' = View(h) /\ Found(h)' = Found(h) /\ Swapped(h)' = Swapped(h)
        /\ \A op : Takes(h, op) => Takes(h, op)'
        /\ Equips(h) => Equips(h)'
        /\ Exchanges(h) => Exchanges(h)'
        /\ Untouched(h) => Untouched(h)'
        /\ Remains(h) => Remains(h)'
        /\ Vacates(h) => Vacates(h)'
    BY <1>2 DEF View, Found, Swapped, Takes, HasSource, Equips, Exchanges, Told, Untouched,
                Remains, Builds, Fills, Vacates
  <1>6. Untouched(h) => View(h) = table
    BY ViewUntouched DEF Untouched
  <1>7. /\ At(h)' /\ pc'[h] \in {"insert", "rival", "unequip"}
        /\ sel'[h] # NoRow => pc'[h] = "unequip"
    <2>1. CASE Remains(h) /\ sel[h] = NoRow
      <3>1. pc'[h] = "insert"
        BY <1>1, <1>2, <2>1 DEF Remains, Builds, XInv
      <3> QED BY <1>2, <1>3, <1>5, <2>1, <3>1 DEF At
    <2>2. CASE Vacates(h)
      <3>1. pc'[h] = "unequip" /\ View(h) = table
        BY <1>1, <1>2, <1>6, <2>2 DEF Vacates, XInv
      <3> QED BY <1>2, <1>3, <1>5, <2>2, <3>1 DEF At
    <2>3. CASE Equips(h) /\ Exchanges(h) /\ sel[h] = NoRow
      <3>1. pc'[h] = "rival"
        BY <1>1, <1>2, <2>3 DEF Equips, Takes, XInv
      <3>2. View(h) = Swapped(h)
        BY <2>3 DEF Exchanges
      <3> QED BY <1>2, <1>3, <1>5, <2>3, <3>1, <3>2 DEF At
    <2> QED BY <1>1, <2>1, <2>2, <2>3 DEF At
  <1>8. NextOf(h)' = NextOf(h)
    BY <1>1, <1>2, <1>7 DEF NextOf, Creating, Inside
  <1> QED BY <1>1, <1>2, <1>3, <1>4, <1>7, <1>8, PrivateStutters DEF Inside, Committed

\* The move of an unequip,
LEMMA UnequipMoves ==
  ASSUME XInv, RInv, NEW h \in Handlers, Unequip(h), sel[h] # NoRow,
         Moves(h, cmd[h].source, slot[h]),
         Tells(h, Abs!MovedTo(sel[h].item, cmd[h].source, slot[h])),
         Goes(h, "commit"), UNCHANGED <<store, memory, cmd, slot, consumer>>
  PROVE  RInv' /\ [Abs!Next]_Abs!vars
  <1> DEFINE s == cmd[h].source
             e == Abs!MovedTo(Found(h).item, s, slot[h])
  <1>1. /\ pc[h] = "unequip" /\ Holds(h) /\ inventory = TRUE /\ Typed /\ Committed
        /\ Takes(h, "unequip") /\ Untouched(h) /\ sel[h] = Found(h) /\ slot[h] \in FreeSlots(table)
    BY DEF Unequip, Holds, RInv, Committed, At, Vacates, Takes, HasSource
  <1>2. /\ Moves(h, s, slot[h]) /\ events' = [events EXCEPT ![h] = Append(@, e)]
        /\ pc' = [pc EXCEPT ![h] = "commit"]
        /\ UNCHANGED <<table, inventory, seq, last, cmd, slot>>
    BY <1>1 DEF Goes, Tells, store
  <1>3. View(h) = table /\ Good(table) /\ Occupied(table, s) /\ s \in Int /\ slot[h] \in Int
    <2>1. View(h) = table
      BY <1>1, ViewUntouched DEF Untouched
    <2>2. slot[h] \in Int
      BY <1>1, FreeSlotIsFree DEF Committed, Good
    <2>3. Occupied(table, s) /\ s \in Int
      BY <1>1, ServiceAssumption DEF Takes, HasSource
    <2> QED BY <1>1, <2>1, <2>2, <2>3 DEF Committed
  <1>4. Selected(h, s) = [row |-> RowAt(View(h), s), item |-> ItemAt(View(h), s)]
    BY <1>1, <1>3 DEF Selected, Found
  <1>5. /\ View(h)' = MoveSlot(table, s, slot[h]) /\ DOMAIN writes' = Txs
        /\ \A u \in Txs \ {h} : writes'[u] = writes[u]
        /\ sel' = [sel EXCEPT ![h] = NoRow]
    BY <1>1, <1>2, <1>3, <1>4, MovesView, ServiceAssumption DEF Good, Typed
  <1>6. Typed' /\ sel'[h] = NoRow
    BY <1>1, <1>2, <1>5 DEF Typed
  <1>7. events'[h] = <<e>>
    <2>1. Append(<<>>, e) = <<e>>
      OBVIOUS
    <2> HIDE DEF e
    <2> QED BY <1>1, <1>2, <2>1 DEF Typed, Untouched
  <1>8. Private(h) /\ pc'[h] = "commit"
    BY <1>1, <1>2, <1>5 DEF Private, XInv, Typed
  <1>9. UnequipDone(h)'
    <2>1. Takes(h, "unequip")' /\ Found(h)' = Found(h) /\ table' = table /\ cmd'[h].source = s
      BY <1>1, <1>2 DEF Takes, HasSource, Found
    <2> QED BY <1>1, <1>5, <1>7, <2>1 DEF UnequipDone
  <1>10. At(h)' /\ NextOf(h)' = NextOf(h)
    BY <1>1, <1>2, <1>8, <1>9 DEF At, Whole, NextOf, Creating, Takes
  <1> QED BY <1>1, <1>2, <1>6, <1>8, <1>10, PrivateStutters DEF Inside, Committed

\* and its end if there was no row at the source.
LEMMA UnequipKeeps ==
  ASSUME XInv, RInv, NEW h \in Handlers, Unequip(h)
  PROVE  RInv' /\ [Abs!Next]_Abs!vars
  <1> DEFINE s == cmd[h].source
  <1>1. CASE sel[h] = NoRow /\ RollsBack(h, "absent")
    <2>1. /\ Holds(h) /\ Committed /\ Vacates(h) /\ slot[h] \in FreeSlots(table)
      BY DEF Unequip, Holds, RInv, At
    <2>2. ~Creating(h) /\ s \in CommandSlots /\ cmd[h].op = "unequip"
      BY <2>1 DEF Vacates, Creating
    <2>3. ~Occupied(table, s)
      <3>1. Occupied(table, s) => Found(h).item \in Items
        BY <2>1, FoundRow DEF Committed, Good, Found
      <3> QED BY <1>1, <2>1, <3>1, ServiceAssumption DEF Vacates, NoRow
    <2>4. RInv' /\ Abs!RollsBack("unequip", s, "absent")
      BY <1>1, <2>1, <2>2, RollBackKeeps
    <2>5. slot[h] \in Abs!FreeSlots(table) /\ ~Abs!Occupied(table, s)
      BY <2>1, <2>3, AbsTables
    <2>6. Abs!UnequipItemForCharacter(s)
      BY <2>4, <2>5 DEF Abs!UnequipItemForCharacter
    <2> QED BY <2>2, <2>4, <2>6 DEF Abs!Next
  <1> QED BY <1>1, UnequipMoves DEF Unequip

\* The delete of a drop.
LEMMA DropKeeps ==
  ASSUME XInv, RInv, NEW h \in Handlers, Drop(h)
  PROVE  RInv' /\ [Abs!Next]_Abs!vars
  <1> DEFINE s == cmd[h].source
             e == Abs!Removed(Found(h).item, s)
  <1>1. /\ pc[h] = "drop" /\ Holds(h) /\ inventory = TRUE /\ Typed /\ Committed /\ h \in Txs
        /\ Takes(h, "drop") /\ Untouched(h) /\ sel[h] = Found(h)
    BY DEF Drop, Holds, RInv, Committed, At, Txs
  <1>2. /\ WritesRow(h, Found(h).row, Gone) /\ sel' = [sel EXCEPT ![h] = NoRow]
        /\ events' = [events EXCEPT ![h] = Append(@, e)]
        /\ pc' = [pc EXCEPT ![h] = "commit"]
        /\ UNCHANGED <<table, inventory, seq, last, cmd, slot>>
    BY <1>1 DEF Drop, Goes, Tells, store
  <1>3. View(h) = table /\ View(h) = Seen(table, writes[h])
    BY <1>1, ViewUntouched, ViewIsSeen DEF Untouched
  <1>4. Found(h).row \in DOMAIN View(h)
    BY <1>1, <1>3, FoundRow DEF Committed, Good, Takes, HasSource, Found
  <1>5. UpsertsRow(h, Found(h).row, Gone)
    BY <1>2, <1>4 DEF WritesRow
  <1>6. /\ View(h)' = Without(table, Found(h).row) /\ DOMAIN writes' = Txs
        /\ \A u \in Txs \ {h} : writes'[u] = writes[u]
    <2>1. /\ View(h)' = Seen(table, Written(writes[h], Found(h).row, Gone))
          /\ DOMAIN writes' = Txs /\ \A u \in Txs \ {h} : writes'[u] = writes[u]
      BY <1>1, <1>2, <1>5, ViewWritten DEF Typed
    <2>2. Seen(table, Written(writes[h], Found(h).row, Gone)) = Without(table, Found(h).row)
      BY <1>3, <1>4, SeenDelete
    <2> QED BY <2>1, <2>2
  <1>7. Typed' /\ sel'[h] = NoRow
    BY <1>1, <1>2, <1>6 DEF Typed
  <1>8. events'[h] = <<e>>
    <2>1. Append(<<>>, e) = <<e>>
      OBVIOUS
    <2> HIDE DEF e
    <2> QED BY <1>1, <1>2, <2>1 DEF Typed, Untouched
  <1>9. Private(h) /\ pc'[h] = "commit"
    BY <1>1, <1>2, <1>6 DEF Private, XInv, Typed
  <1>10. DropDone(h)'
    <2>1. Takes(h, "drop")' /\ Found(h)' = Found(h) /\ table' = table /\ cmd'[h].source = s
      BY <1>1, <1>2 DEF Takes, HasSource, Found
    <2> QED BY <1>6, <1>8, <2>1 DEF DropDone
  <1>11. At(h)' /\ NextOf(h)' = NextOf(h)
    BY <1>1, <1>2, <1>9, <1>10 DEF At, Whole, NextOf, Creating, Takes
  <1> QED BY <1>1, <1>2, <1>7, <1>9, <1>11, PrivateStutters DEF Inside, Committed

\* One row more of a create.
LEMMA WithRowsNext ==
  ASSUME NEW t, NEW id \in Nat \ {0}, DOMAIN t \subseteq 1 .. id - 1, NEW item, NEW n \in Nat,
         NEW m, m = n + 1, NEW slots, NEW more, \A k \in 1 .. n : more[k] = slots[k]
  PROVE  /\ WithRows(t, id, item, more, m)
              = Extended(WithRows(t, id, item, slots, n), id + n, [item |-> item, slot |-> more[m]])
         /\ \A k \in 1 .. m : WithRows(t, id, item, more, k - 1) = WithRows(t, id, item, slots, k - 1)
  <1>1. ASSUME NEW k \in 1 .. m
        PROVE  WithRows(t, id, item, more, k - 1) = WithRows(t, id, item, slots, k - 1)
    <2>1. \A r \in id .. id + (k - 1) - 1 : more[r - id + 1] = slots[r - id + 1]
      <3> SUFFICES ASSUME NEW r \in id .. id + (k - 1) - 1 PROVE more[r - id + 1] = slots[r - id + 1]
        OBVIOUS
      <3>1. r - id + 1 \in 1 .. n
        OBVIOUS
      <3> QED BY <3>1
    <2> QED BY <2>1 DEF WithRows
  <1>2. \A r \in id .. id + n - 1 : more[r - id + 1] = slots[r - id + 1]
    <2> SUFFICES ASSUME NEW r \in id .. id + n - 1 PROVE more[r - id + 1] = slots[r - id + 1]
      OBVIOUS
    <2>1. r - id + 1 \in 1 .. n
      OBVIOUS
    <2> QED BY <2>1
  <1>3. (id + n) - id + 1 = m
    OBVIOUS
  <1>4. id .. id + m - 1 = (id .. id + n - 1) \cup {id + n}
    OBVIOUS
  <1>5. id + n \notin DOMAIN t /\ id + n \notin id .. id + n - 1
    OBVIOUS
  <1>6. PICK u, v : u = WithRows(t, id, item, more, m) /\ v = WithRows(t, id, item, slots, n)
    OBVIOUS
  <1>7. DOMAIN v = DOMAIN t \cup id .. id + n - 1 /\ DOMAIN u = DOMAIN v \cup {id + n}
    BY <1>4, <1>6 DEF WithRows
  <1>8. \A r \in DOMAIN v : u[r] = v[r]
    BY <1>2, <1>4, <1>6, <1>7 DEF WithRows
  <1>9. u[id + n] = [item |-> item, slot |-> more[m]]
    BY <1>3, <1>4, <1>5, <1>6 DEF WithRows
  <1>10. u = [r \in DOMAIN u |-> u[r]]
    BY <1>6 DEF WithRows
  <1>11. u = Extended(v, id + n, [item |-> item, slot |-> more[m]])
    BY <1>5, <1>7, <1>8, <1>9, <1>10 DEF Extended
  <1> QED BY <1>1, <1>6, <1>11

\* The rows of a create under way are those of EquipInventory after as many of
\* its units.
LEMMA BuildsRows ==
  ASSUME RInv, NEW h \in Handlers, Builds(h), NextId = seq - Len(events[h]),
         NEW slots, Fills(h, slots)
  PROVE  /\ Good(View(h)) /\ DOMAIN View(h) \subseteq 1 .. seq - 1
         /\ Cardinality(DOMAIN table) \in Nat
         /\ Cardinality(DOMAIN View(h)) \in Nat
         /\ Cardinality(DOMAIN View(h)) <= Cardinality(DOMAIN table) + Len(events[h])
  <1> DEFINE n == Len(events[h])
             id == seq - n
             item == cmd[h].item
  <1>1. /\ n \in Nat /\ seq \in Nat /\ id \in Nat \ {0} /\ item \in Items
        /\ Good(table) /\ DOMAIN table \subseteq 1 .. id - 1
    BY DEF Builds, RInv, Committed
  <1>2. /\ View(h) = WithRows(table, id, item, slots, n)
        /\ \A k \in 1 .. n : slots[k] \in FreeSlots(WithRows(table, id, item, slots, k - 1))
    BY DEF Fills
  <1>3. id + n - 1 = seq - 1
    BY <1>1
  <1> HIDE DEF n, id, item
  <1>4. LET w == WithRows(table, id, item, slots, n) IN
        /\ IsTable(w) /\ Distinct(w) /\ ~Occupied(w, Temp) /\ DOMAIN w \subseteq 1 .. id + n - 1
    BY <1>1, <1>2, WithRowsDistinct DEF Good
  <1>5. Good(View(h)) /\ DOMAIN View(h) \subseteq 1 .. seq - 1
    BY <1>2, <1>3, <1>4 DEF Good
  <1>6. PICK T, N : T = DOMAIN table /\ N = id .. id + n - 1
    OBVIOUS
  <1>7. DOMAIN View(h) = T \cup N
    BY <1>2, <1>6 DEF WithRows
  <1>8. IsFiniteSet(N) /\ Cardinality(N) = n
    <2>1. id + n - 1 \in Int /\ id \in Int
      BY <1>1
    <2>2. (IF id > id + n - 1 THEN 0 ELSE (id + n - 1) - id + 1) = n
      BY <1>1
    <2> QED BY <1>6, <2>1, <2>2, FS_Interval
  <1>9. IsFiniteSet(T) /\ Cardinality(T) \in Nat
    BY <1>1, <1>6, FS_CardinalityType DEF Good, IsTable
  <1>10. T \cap N = {}
    BY <1>1, <1>6
  <1>11. Cardinality(T \cup N) = Cardinality(T) + n
    <2>1. Cardinality(T \cup N) = Cardinality(T) + Cardinality(N) - Cardinality(T \cap N)
      BY <1>8, <1>9, FS_Union
    <2>2. Cardinality(T \cap N) = 0
      BY <1>10, FS_EmptySet
    <2> QED BY <1>1, <1>8, <1>9, <2>1, <2>2
  <1> QED BY <1>1, <1>5, <1>6, <1>7, <1>9, <1>11 DEF n

\* A create that comes to nothing leaves its ids behind.
LEMMA IdLost ==
  ASSUME NEW h \in Handlers, Builds(h), NextId \in Nat \ {0}, seq \in Nat,
         NextId = seq - Len(events[h]), NextId' = seq, cmd[h].quantity \in Nat, table' = table,
         Abs!Reports("create", 0, "refused", <<>>) \/ last' = last
  PROVE  Abs!Next
  <1>1. PICK q \in 0 .. MaxQuantity : Len(events[h]) + cmd[h].quantity = Units(q)
    BY DEF Builds
  <1>2. PICK n : n = Units(q)
    OBVIOUS
  <1>3. /\ Len(events[h]) \in 0 .. n /\ NextId' = NextId + Len(events[h])
        /\ NextId + n - 1 <= MaxId
    <2>1. Len(events[h]) \in Nat /\ seq + cmd[h].quantity - 1 <= MaxId
      BY DEF Builds
    <2>2. n = Len(events[h]) + cmd[h].quantity
      BY <1>1, <1>2
    <2>3. PICK len, left, id : len = Len(events[h]) /\ left = cmd[h].quantity /\ id = NextId
      OBVIOUS
    <2>4. /\ len \in Nat /\ left \in Nat /\ id = seq - len /\ n = len + left
          /\ seq + left - 1 <= MaxId /\ seq \in Nat /\ MaxId \in Nat
      BY <2>1, <2>2, <2>3, ServiceAssumption
    <2>5. len \in 0 .. n /\ seq = id + len /\ id + n - 1 <= MaxId
      BY <2>4
    <2> QED BY <2>3, <2>5
  <1>4. (IF q = 0 THEN 1 ELSE q) = n
    BY <1>2 DEF Units
  <1>5. UNCHANGED last <=> last' = last
    OBVIOUS
  <1>6. Abs!CreateItem(cmd[h].item, q)
    BY <1>3, <1>4, <1>5 DEF Abs!CreateItem
  <1> QED BY <1>6 DEF Abs!Next, Builds

\* The insert of one unit.
LEMMA InsertMore ==
  ASSUME XInv, RInv, NEW h \in Handlers, pc[h] = "insert",
         UpsertsRow(h, seq, [item |-> cmd[h].item, slot |-> slot[h]]), seq' = seq + 1,
         Tells(h, Abs!Added(cmd[h].item, slot[h])),
         cmd' = [cmd EXCEPT ![h].quantity = @ - 1],
         Goes(h, IF cmd[h].quantity > 1 THEN "free" ELSE "commit"),
         UNCHANGED <<table, inventory, born, last, memory, sel, slot, consumer>>
  PROVE  RInv' /\ [Abs!Next]_Abs!vars
  <1> DEFINE item == cmd[h].item
             s == slot[h]
             n == Len(events[h])
             row == [item |-> item, slot |-> s]
             e == Abs!Added(item, s)
  <1>1. /\ Holds(h) /\ Typed /\ Committed /\ h \in Txs /\ Creating(h) /\ Inside(h)
        /\ Builds(h) /\ s \in FreeSlots(View(h)) /\ sel[h] = NoRow
        /\ cmd[h].quantity \in Nat \ {0} /\ n \in Nat /\ seq \in Nat \ {0} /\ item \in Items
    <2>1. /\ Holds(h) /\ Typed /\ Committed /\ h \in Txs /\ Remains(h) /\ Inside(h)
          /\ s \in FreeSlots(View(h)) /\ sel[h] = NoRow /\ cmd[h] \in Cmd
      BY DEF Holds, RInv, Typed, At, Txs, Quiet, Inside
    <2> QED BY <2>1 DEF Remains, Builds, Creating, Cmd, Committed
  <1>2. NextId = seq - n /\ NextId \in Nat \ {0} /\ DOMAIN table \subseteq 1 .. (seq - n) - 1
    BY <1>1, Alone, NextIs DEF NextOf, RInv, Committed
  <1>3. PICK slots : Fills(h, slots)
    BY <1>1 DEF Builds
  <1>4. /\ Good(View(h)) /\ DOMAIN View(h) \subseteq 1 .. seq - 1
        /\ Cardinality(DOMAIN table) \in Nat /\ Cardinality(DOMAIN View(h)) \in Nat
        /\ Cardinality(DOMAIN View(h)) <= Cardinality(DOMAIN table) + n
    BY <1>1, <1>2, <1>3, BuildsRows
  <1>5. seq \notin DOMAIN View(h) /\ row # Gone
    BY <1>1, <1>4, ServiceAssumption DEF Gone
  <1>6. /\ View(h)' = Seen(table, Written(writes[h], seq, row))
        /\ DOMAIN writes' = Txs /\ \A u \in Txs \ {h} : writes'[u] = writes[u]
        /\ writes'[h] = Written(writes[h], seq, row)
    BY <1>1, ViewWritten DEF Typed
  <1>7. View(h)' = Extended(View(h), seq, row)
    <2> HIDE DEF row
    <2> QED BY <1>5, <1>6, ViewIsSeen, SeenInsert
  <1>8. /\ cmd'[h] = [cmd[h] EXCEPT !.quantity = @ - 1] /\ cmd'[h] \in Cmd
        /\ cmd' \in [Handlers -> Cmd]
        /\ cmd'[h].op = "create" /\ cmd'[h].source = 0 /\ cmd'[h].item = item
        /\ cmd'[h].quantity = cmd[h].quantity - 1
    <2>1. cmd[h] \in Cmd /\ cmd[h].op = "create" /\ cmd[h].source = 0 /\ cmd \in [Handlers -> Cmd]
      BY <1>1 DEF Typed, Builds
    <2>2. cmd'[h] = [cmd[h] EXCEPT !.quantity = @ - 1]
      BY <2>1
    <2>3. cmd[h].quantity - 1 \in Nat
      BY <1>1
    <2>4. cmd'[h] \in Cmd
      BY <2>1, <2>2, <2>3 DEF Cmd
    <2>5. cmd' = [cmd EXCEPT ![h] = cmd'[h]]
      BY <2>1
    <2>6. cmd' \in [Handlers -> Cmd]
      BY <2>1, <2>4, <2>5
    <2> QED BY <2>1, <2>2, <2>4, <2>6 DEF Cmd
  <1>9. events'[h] = Append(events[h], e) /\ DOMAIN events' = Handlers
        /\ \A g \in Handlers \ {h} : events'[g] = events[g]
    BY <1>1 DEF Tells, Typed
  <1>10. pc'[h] = IF cmd[h].quantity > 1 THEN "free" ELSE "commit"
    BY DEF Goes, XInv
  <1>11. Typed' /\ Private(h) /\ seq' \in Nat \ {0} /\ table' = table /\ last' = last
    <2>1. \A g \in Handlers \ {h} : pc'[g] = pc[g] /\ sel'[g] = sel[g]
      BY DEF Goes, XInv
    <2> QED BY <1>1, <1>6, <1>8, <1>9, <2>1 DEF Typed, Private
  <1> DEFINE more == [k \in 1 .. n + 1 |-> IF k <= n THEN slots[k] ELSE s]
             id == seq - n
             c == Cardinality(DOMAIN table)
  <1>12. /\ slots \in [1 .. n -> 1 .. c + n]
         /\ View(h) = WithRows(table, id, item, slots, n)
         /\ events[h] = [k \in 1 .. n |-> Abs!Added(item, slots[k])]
         /\ \A k \in 1 .. n : slots[k] \in FreeSlots(WithRows(table, id, item, slots, k - 1))
    BY <1>3 DEF Fills
  <1>13. Len(events'[h]) = n + 1 /\ events'[h] = [k \in 1 .. n + 1 |-> Abs!Added(item, more[k])]
    <2>1. PICK f : f = [k \in 1 .. n |-> Abs!Added(item, slots[k])]
      OBVIOUS
    <2>2. Append(f, e) = [k \in 1 .. n + 1 |-> IF k <= n THEN f[k] ELSE e] /\ Len(f) = n
      <3>1. f \in Seq({Abs!Added(item, slots[k]) : k \in 1 .. n})
        BY <1>1, <2>1
      <3> HIDE DEF e
      <3> QED BY <1>1, <2>1, <3>1
    <2>3. [k \in 1 .. n + 1 |-> IF k <= n THEN f[k] ELSE e] = [k \in 1 .. n + 1 |-> Abs!Added(item, more[k])]
      BY <1>1, <2>1
    <2>4. Append(f, e) = [k \in 1 .. n + 1 |-> Abs!Added(item, more[k])]
      BY <2>2, <2>3
    <2>5. \A g : g = [k \in 1 .. n + 1 |-> Abs!Added(item, more[k])] => Len(g) = n + 1
      BY <1>1
    <2> QED BY <1>9, <1>12, <2>1, <2>4, <2>5
  <1>14. seq' - Len(events'[h]) = id /\ id \in Nat \ {0} /\ id + n = seq
    BY <1>1, <1>2, <1>13
  <1>15. \E filled : Fills(h, filled)'
    <2>1. /\ WithRows(table, id, item, more, n + 1) = Extended(View(h), seq, row)
          /\ \A k \in 1 .. n + 1 : WithRows(table, id, item, more, k - 1) = WithRows(table, id, item, slots, k - 1)
      <3> HIDE DEF id, item, more, row
      <3>1. PICK m : m = more
        OBVIOUS
      <3>2. m = [k \in 1 .. n + 1 |-> IF k <= n THEN slots[k] ELSE s]
        BY <3>1 DEF more
      <3>3. DOMAIN table \subseteq 1 .. id - 1
        BY <1>2 DEF id
      <3>5. n \in Nat /\ id \in Nat \ {0}
        BY <1>1, <1>14
      <3> HIDE DEF n, s
      <3>6. PICK N, L, from, it : N = n /\ L = n + 1 /\ from = id /\ it = item
        OBVIOUS
      <3>7. /\ N \in Nat /\ from \in Nat \ {0} /\ DOMAIN table \subseteq 1 .. from - 1
            /\ L = N + 1 /\ m[L] = s /\ \A k \in 1 .. N : m[k] = slots[k]
        BY <3>2, <3>3, <3>5, <3>6
      <3>8. /\ WithRows(table, from, it, m, L)
                 = Extended(WithRows(table, from, it, slots, N), from + N, [item |-> it, slot |-> m[L]])
            /\ \A k \in 1 .. L : WithRows(table, from, it, m, k - 1) = WithRows(table, from, it, slots, k - 1)
        BY <3>7, WithRowsNext, SMTT(30)
      <3>4. /\ WithRows(table, id, item, m, n + 1)
                 = Extended(WithRows(table, id, item, slots, n), id + n, [item |-> item, slot |-> s])
            /\ \A k \in 1 .. n + 1 : WithRows(table, id, item, m, k - 1) = WithRows(table, id, item, slots, k - 1)
        BY <3>6, <3>7, <3>8
      <3> QED BY <1>12, <1>14, <3>1, <3>4 DEF row
    <2>2. s \in 1 .. c + (n + 1)
      <3>1. s \in 1 .. Cardinality(DOMAIN View(h)) + 1
        BY <1>1 DEF FreeSlots
      <3> QED BY <1>1, <1>4, <3>1
    <2>3. more \in [1 .. n + 1 -> 1 .. c + (n + 1)]
      <3>1. \A k \in 1 .. n : slots[k] \in 1 .. c + (n + 1)
        BY <1>1, <1>4, <1>12
      <3>2. \A k \in 1 .. n + 1 : k <= n => k \in 1 .. n
        BY <1>1
      <3> HIDE DEF s, c, n
      <3> QED BY <2>2, <3>1, <3>2
    <2>4. \A k \in 1 .. n + 1 : more[k] \in FreeSlots(WithRows(table, id, item, more, k - 1))
      <3> SUFFICES ASSUME NEW k \in 1 .. n + 1
                   PROVE  more[k] \in FreeSlots(WithRows(table, id, item, more, k - 1))
        OBVIOUS
      <3>1. CASE k <= n
        <4>1. k \in 1 .. n /\ more[k] = slots[k]
          BY <1>1, <3>1
        <4> HIDE DEF more, id, n, item
        <4> QED BY <1>12, <2>1, <4>1
      <3>2. CASE ~(k <= n)
        <4>1. k - 1 = n /\ more[k] = s
          BY <1>1, <3>2
        <4> HIDE DEF more, id, n, item, s
        <4> QED BY <1>1, <1>12, <2>1, <4>1
      <3> QED BY <3>1, <3>2
    <2>5. PICK N : N = n + 1 /\ N = Len(events'[h])
      BY <1>13
    <2>6. /\ more \in [1 .. N -> 1 .. c + N]
          /\ View(h)' = WithRows(table, id, item, more, N)
          /\ events'[h] = [k \in 1 .. N |-> Abs!Added(item, more[k])]
          /\ \A k \in 1 .. N : more[k] \in FreeSlots(WithRows(table, id, item, more, k - 1))
      <3> HIDE DEF more, id, n, item, s, c, row, e
      <3> QED BY <1>7, <1>13, <2>1, <2>3, <2>4, <2>5
    <2>7. PICK filled : filled = more
      OBVIOUS
    <2> HIDE DEF more, n, s, row, e, id
    <2>8. Fills(h, filled)'
      <3>1. seq' - N = id /\ cmd'[h].item = item /\ table' = table
        BY <1>8, <1>11, <1>14, <2>5
      <3>2. /\ filled \in [1 .. N -> 1 .. Cardinality(DOMAIN table') + N]
            /\ View(h)' = WithRows(table', seq' - N, cmd'[h].item, filled, N)
            /\ events'[h] = [k \in 1 .. N |-> Abs!Added(cmd'[h].item, filled[k])]
            /\ \A k \in 1 .. N :
                 filled[k] \in FreeSlots(WithRows(table', seq' - N, cmd'[h].item, filled, k - 1))
        BY <2>6, <2>7, <3>1
      <3> HIDE DEF item, c
      <3> QED BY <2>5, <3>2 DEF Fills
    <2> QED BY <2>8
  <1>16. Builds(h)'
    <2>1. PICK q \in 0 .. MaxQuantity : n + cmd[h].quantity = Units(q)
      BY <1>1 DEF Builds
    <2>2. Len(events'[h]) + cmd'[h].quantity = Units(q)
      BY <1>1, <1>8, <1>13, <2>1
    <2>3. seq + cmd[h].quantity - 1 <= MaxId
      BY <1>1 DEF Builds
    <2>4. seq' + cmd'[h].quantity - 1 <= MaxId
      BY <1>1, <1>8, <2>3
    <2>5. Len(events'[h]) \in Nat
      BY <1>1, <1>13
    <2> HIDE DEF more, n
    <2> QED BY <1>1, <1>8, <1>15, <2>2, <2>4, <2>5 DEF Builds, Units
  <1>17. At(h)' /\ Inside(h)' /\ (pc'[h] \in {"free", "commit"})
    <2>1. CASE cmd[h].quantity > 1
      <3>1. Remains(h)' /\ pc'[h] = "free" /\ sel'[h] = NoRow
        BY <1>1, <1>8, <1>10, <1>16, <2>1 DEF Remains
      <3> QED BY <3>1 DEF At, Inside
    <2>2. CASE ~(cmd[h].quantity > 1)
      <3>1. CreateDone(h)' /\ pc'[h] = "commit"
        BY <1>1, <1>8, <1>10, <1>16, <2>2 DEF CreateDone
      <3> QED BY <3>1 DEF At, Whole, Inside
    <2> QED BY <2>1, <2>2
  <1>18. NextOf(h)' = NextOf(h)
    <2>1. Creating(h)'
      BY <1>8, <1>17 DEF Creating
    <2> QED BY <1>1, <1>14, <2>1 DEF NextOf
  <1> QED BY <1>1, <1>11, <1>17, <1>18, PrivateStutters

\* A unit of a create: refused, or inserted.
LEMMA InsertKeeps ==
  ASSUME XInv, RInv, NEW h \in Handlers, Insert(h)
  PROVE  RInv' /\ [Abs!Next]_Abs!vars
  <1>1. CASE RollsBack(h, "refused")
    <2>1. /\ Holds(h) /\ Builds(h) /\ Creating(h) /\ cmd[h].quantity \in Nat
          /\ seq \in Nat /\ NextId \in Nat \ {0}
      <3>1. pc[h] = "insert" /\ Remains(h) /\ cmd[h] \in Cmd
        BY DEF Insert, RInv, At, Typed
      <3> QED BY <3>1 DEF Holds, Remains, Builds, Creating, Inside, RInv, Committed, Cmd
    <2>2. RInv' /\ NextId = NextOf(h) /\ NextId' = seq
      BY <1>1, <2>1, UndoneKeeps DEF RollsBack
    <2>3. table' = table /\ Abs!Reports("create", 0, "refused", <<>>)
      BY <1>1, <2>1 DEF RollsBack, Abs!Reports, Builds
    <2> QED BY <2>1, <2>2, <2>3, IdLost DEF NextOf
  <1>2. CASE ~RollsBack(h, "refused")
    BY <1>2, InsertMore DEF Insert
  <1> QED BY <1>1, <1>2

\* The commit of each command is that command, whole.
CommitOf(h) ==
  /\ table' = View(h)
  /\ last' = [op |-> cmd[h].op, source |-> cmd[h].source, result |-> "ok", events |-> events[h]]

LEMMA CreateCommits ==
  ASSUME RInv, NEW h \in Handlers, CreateDone(h), NextId = seq - Len(events[h]), CommitOf(h),
         NextId' = seq
  PROVE  Good(View(h)) /\ DOMAIN View(h) \subseteq 1 .. seq - 1 /\ Abs!Next
  <1> DEFINE item == cmd[h].item
             n == Len(events[h])
  <1>1. /\ Builds(h) /\ cmd[h].quantity = 0 /\ cmd[h].op = "create" /\ cmd[h].source = 0
        /\ item \in Items /\ n \in Nat /\ seq \in Nat
    BY DEF CreateDone, Builds, RInv, Committed
  <1>2. PICK slots : Fills(h, slots)
    BY <1>1 DEF Builds
  <1>3. /\ Good(View(h)) /\ DOMAIN View(h) \subseteq 1 .. seq - 1
    BY <1>1, <1>2, BuildsRows
  <1>4. PICK q \in 0 .. MaxQuantity : n = Units(q)
    BY <1>1 DEF Builds
  <1>5. /\ slots \in [1 .. n -> 1 .. Cardinality(DOMAIN table) + n]
        /\ View(h) = WithRows(table, NextId, item, slots, n)
        /\ events[h] = [k \in 1 .. n |-> Abs!Added(item, slots[k])]
        /\ \A k \in 1 .. n : slots[k] \in FreeSlots(WithRows(table, NextId, item, slots, k - 1))
    BY <1>2 DEF Fills
  <1>6. NextId + n - 1 <= MaxId /\ NextId' = NextId + n
    BY <1>1 DEF Builds
  <1> HIDE DEF item, n
  <1>7. Abs!InsertsEquipables(item, n)
    <2>1. \A S : Abs!Cardinality(S) = Cardinality(S)
      BY Zenon DEF Abs!Cardinality, Cardinality
    <2>2. slots \in [1 .. n -> 1 .. Abs!Cardinality(DOMAIN table) + n]
      BY <1>5, <2>1
    <2>3. \A k \in 1 .. n : slots[k] \in Abs!FreeSlots(Abs!WithRows(table, NextId, item, slots, k - 1))
      BY <1>5, AbsTables
    <2>4. table' = Abs!WithRows(table, NextId, item, slots, n)
      BY <1>5, AbsTables DEF CommitOf
    <2>5. Abs!Reports("create", 0, "ok", [k \in 1 .. n |-> Abs!Added(item, slots[k])])
      BY <1>1, <1>5 DEF CommitOf, Abs!Reports
    <2> QED BY <2>2, <2>3, <2>4, <2>5 DEF Abs!InsertsEquipables
  <1>8. (IF q = 0 THEN 1 ELSE q) = n
    BY <1>4 DEF Units
  <1>9. Abs!CreateItem(item, q)
    BY <1>6, <1>7, <1>8 DEF Abs!CreateItem
  <1> QED BY <1>1, <1>3, <1>9 DEF Abs!Next

LEMMA UnequipCommits ==
  ASSUME RInv, NEW h \in Handlers, UnequipDone(h), CommitOf(h), UNCHANGED NextId
  PROVE  Good(View(h)) /\ DOMAIN View(h) = DOMAIN table /\ Abs!Next
  <1> DEFINE s == cmd[h].source
  <1>1. /\ cmd[h].op = "unequip" /\ s \in CommandSlots /\ s \in Int /\ Occupied(table, s)
        /\ Good(table) /\ Found(h).item = ItemAt(table, s)
    BY ServiceAssumption DEF UnequipDone, Takes, HasSource, RInv, Committed, Found
  <1>2. PICK f \in FreeSlots(table) :
          /\ View(h) = MoveSlot(table, s, f)
          /\ events[h] = <<Abs!MovedTo(ItemAt(table, s), s, f)>>
    BY <1>1 DEF UnequipDone
  <1> HIDE DEF s
  <1>3. Good(View(h)) /\ DOMAIN View(h) = DOMAIN table
    BY <1>1, <1>2, MoveToFree DEF Good
  <1>4. f \in Abs!FreeSlots(table) /\ Abs!Occupied(table, s) /\ table' = Abs!MoveSlot(table, s, f)
    BY <1>1, <1>2, AbsTables DEF CommitOf
  <1>5. Abs!Reports("unequip", s, "ok", <<Abs!MovedTo(Abs!ItemAt(table, s), s, f)>>)
    <2>1. Abs!ItemAt(table, s) = ItemAt(table, s)
      BY AbsTables
    <2> QED BY <1>1, <1>2, <2>1 DEF CommitOf, Abs!Reports, s
  <1>6. Abs!UnequipItemForCharacter(s)
    BY <1>4, <1>5 DEF Abs!UnequipItemForCharacter
  <1> QED BY <1>1, <1>3, <1>6 DEF Abs!Next

LEMMA DropCommits ==
  ASSUME RInv, NEW h \in Handlers, DropDone(h), CommitOf(h), UNCHANGED NextId
  PROVE  Good(View(h)) /\ DOMAIN View(h) \subseteq DOMAIN table /\ Abs!Next
  <1> DEFINE s == cmd[h].source
  <1>1. /\ cmd[h].op = "drop" /\ s \in CommandSlots /\ Occupied(table, s) /\ Good(table)
        /\ View(h) = Without(table, RowAt(table, s))
        /\ events[h] = <<Abs!Removed(ItemAt(table, s), s)>>
    BY DEF DropDone, Takes, HasSource, RInv, Committed, Found
  <1> HIDE DEF s
  <1>2. Good(View(h)) /\ DOMAIN View(h) \subseteq DOMAIN table
    BY <1>1, WithoutDistinct DEF Good
  <1>3. Abs!Occupied(table, s) /\ table' = Abs!Without(table, Abs!RowAt(table, s))
    BY <1>1, AbsTables DEF CommitOf
  <1>4. Abs!Reports("drop", s, "ok", <<Abs!Removed(Abs!ItemAt(table, s), s)>>)
    <2>1. Abs!ItemAt(table, s) = ItemAt(table, s)
      BY AbsTables
    <2> QED BY <1>1, <2>1 DEF CommitOf, Abs!Reports, s
  <1>5. Abs!dropEquip(s)
    BY <1>3, <1>4 DEF Abs!dropEquip
  <1> QED BY <1>1, <1>2, <1>5 DEF Abs!Next

LEMMA MoveCommits ==
  ASSUME RInv, NEW h \in Handlers, MoveDone(h), CommitOf(h), UNCHANGED NextId
  PROVE  Good(View(h)) /\ DOMAIN View(h) = DOMAIN table /\ Abs!Next
  <1> DEFINE s == cmd[h].source
             d == cmd[h].destination
  <1>1. /\ cmd[h].op = "move" /\ s \in MoveSlots /\ d \in MoveSlots
        /\ View(h) = Swap(table, s, d) /\ events[h] = Abs!ExchangeEvents(table, s, d)
        /\ Good(View(h)) /\ DOMAIN View(h) = DOMAIN table
    BY ExchangeSlots DEF MoveDone, Trades, Exchanges, Swapped, Told
  <1>2. table' = Abs!Swap(table, s, d)
    BY <1>1, AbsTables DEF CommitOf
  <1>3. Abs!Reports("move", s, "ok", Abs!ExchangeEvents(table, s, d))
    BY <1>1 DEF CommitOf, Abs!Reports
  <1>4. Abs!moveEquip(s, d)
    BY <1>2, <1>3 DEF Abs!moveEquip
  <1> QED BY <1>1, <1>4 DEF Abs!Next

\* The place of a rival is a slot.
LEMMA RivalIsWorn ==
  ASSUME NEW item, Abs!Rival(item) # Abs!NoRival
  PROVE  Abs!Rival(item) \in Int
  BY DEF Abs!Rival, Abs!NoRival, Abs!Top, Abs!Bottom

\* The parts of the equip command, as the abstract one names them.
LEMMA EquipIs ==
  ASSUME RInv, NEW h \in Handlers, Equips(h)
  PROVE  /\ cmd[h].op = "equip" /\ cmd[h].source \in CommandSlots
         /\ Abs!Occupied(table, cmd[h].source)
         /\ cmd[h].item = Abs!ItemAt(table, cmd[h].source)
         /\ Swapped(h) = Abs!Swap(table, cmd[h].source, Abs!Destination(cmd[h].item))
         /\ Told(h) = Abs!ExchangeEvents(table, cmd[h].source, Abs!Destination(cmd[h].item))
  <1>1. Abs!Destination(cmd[h].item) = cmd[h].destination
    BY AbsTables DEF Equips
  <1> QED BY <1>1, AbsTables DEF Equips, Takes, HasSource, Swapped, Told

LEMMA EquipCommits ==
  ASSUME RInv, NEW h \in Handlers, EquipDone(h), CommitOf(h), UNCHANGED NextId
  PROVE  Good(View(h)) /\ DOMAIN View(h) = DOMAIN table /\ Abs!Next
  <1> DEFINE s == cmd[h].source
             item == cmd[h].item
             traded == Swapped(h)
             moves == Told(h)
             rival == Abs!Rival(item)
             dest == Abs!Destination(item)
  <1>1. /\ cmd[h].op = "equip" /\ s \in CommandSlots /\ Abs!Occupied(table, s)
        /\ item = Abs!ItemAt(table, s) /\ traded = Abs!Swap(table, s, dest)
        /\ moves = Abs!ExchangeEvents(table, s, dest)
    BY EquipIs DEF EquipDone
  <1>2. Good(traded) /\ DOMAIN traded = DOMAIN table
    BY ExchangeSlots DEF EquipDone
  <1>3. PICK free \in FreeSlots(traded) :
          \/ /\ rival = Abs!NoRival \/ (Occupied(traded, rival) /\ ~Abs!GivesWay(traded, rival))
             /\ View(h) = traded /\ events[h] = moves
          \/ /\ rival # Abs!NoRival
             /\ Occupied(traded, rival) /\ Abs!GivesWay(traded, rival)
             /\ View(h) = MoveSlot(traded, rival, free)
             /\ events[h] = Append(moves, Abs!MovedTo(ItemAt(traded, rival), rival, free))
    BY DEF EquipDone, Exchanges
  <1> HIDE DEF s, item, traded, moves, rival, dest
  <1>4. free \in Abs!FreeSlots(traded) /\ Abs!Occupied(traded, rival) = Occupied(traded, rival)
        /\ Abs!MoveSlot(traded, rival, free) = MoveSlot(traded, rival, free)
        /\ Abs!ItemAt(traded, rival) = ItemAt(traded, rival)
    BY <1>3, AbsTables
  <1>5. \A e : events[h] = e => Abs!Reports("equip", s, "ok", e)
    BY <1>1 DEF CommitOf, Abs!Reports, s
  <1>6. Abs!Equips(s, item) /\ Good(View(h)) /\ DOMAIN View(h) = DOMAIN table
    <2>1. CASE /\ rival = Abs!NoRival \/ (Occupied(traded, rival) /\ ~Abs!GivesWay(traded, rival))
               /\ View(h) = traded /\ events[h] = moves
      <3>1. table' = traded /\ Abs!Reports("equip", s, "ok", moves)
        BY <1>5, <2>1 DEF CommitOf
      <3>2. Abs!Equips(s, item)
        BY <1>1, <1>4, <2>1, <3>1 DEF Abs!Equips, rival, dest
      <3> QED BY <1>2, <2>1, <3>2
    <2>2. CASE /\ rival # Abs!NoRival
               /\ Occupied(traded, rival) /\ Abs!GivesWay(traded, rival)
               /\ View(h) = MoveSlot(traded, rival, free)
               /\ events[h] = Append(moves, Abs!MovedTo(ItemAt(traded, rival), rival, free))
      <3>1. /\ table' = Abs!MoveSlot(traded, rival, free)
            /\ Abs!Reports("equip", s, "ok",
                           Append(moves, Abs!MovedTo(Abs!ItemAt(traded, rival), rival, free)))
        BY <1>4, <1>5, <2>2 DEF CommitOf
      <3>2. Abs!Equips(s, item)
        BY <1>1, <1>4, <2>2, <3>1 DEF Abs!Equips, rival, dest
      <3>3. rival \in Int
        BY <2>2, RivalIsWorn DEF rival
      <3> QED BY <1>2, <2>2, <3>2, <3>3, MoveToFree DEF Good
    <2> QED BY <1>3, <2>1, <2>2
  <1>7. Abs!EquipItemForCharacter(s)
    BY <1>1, <1>6 DEF Abs!EquipItemForCharacter
  <1> QED BY <1>1, <1>6, <1>7 DEF Abs!Next

\* The look at the rival.
LEMMA RivalKeeps ==
  ASSUME XInv, RInv, NEW h \in Handlers, Rival(h)
  PROVE  RInv' /\ [Abs!Next]_Abs!vars
  <1> DEFINE rival == Abs!Rival(cmd[h].item)
             v == View(h)
             gives == rival = Bottom \/ Selected(h, rival).item \in Overalls
             e == Abs!MovedTo(Selected(h, rival).item, rival, slot[h])
  <1>1. /\ pc[h] = "rival" /\ Holds(h) /\ ~Creating(h) /\ inventory = TRUE /\ sel[h] = NoRow
        /\ Typed /\ Committed /\ Equips(h) /\ Exchanges(h) /\ slot[h] \in FreeSlots(Swapped(h))
    BY DEF Rival, Holds, Creating, Equips, Takes, RInv, Committed, At, Quiet
  <1>2. v = Swapped(h) /\ Good(v)
    BY <1>1, ExchangeSlots DEF Exchanges
  <1>3. /\ Finds(h, rival) <=> Occupied(v, rival)
        /\ Selected(h, rival) = [row |-> RowAt(v, rival), item |-> ItemAt(v, rival)]
        /\ \A r : ~RowLocked(h, r)
    BY <1>1, Alone DEF Finds, Selected, RInv
  <1>4. gives <=> Abs!GivesWay(v, rival)
    <2>1. Abs!ItemAt(v, rival) = Selected(h, rival).item
      BY <1>3, AbsTables
    <2> QED BY <2>1 DEF Abs!GivesWay, Abs!Bottom, Bottom
  <1> HIDE DEF gives
  <1>5. CASE rival # Abs!NoRival /\ ~Finds(h, rival) /\ RollsBack(h, "no rival")
    <2> DEFINE s == cmd[h].source
               dest == Abs!Destination(cmd[h].item)
    <2>1. RInv' /\ Abs!RollsBack("equip", s, "no rival")
      BY <1>1, <1>5, RollBackKeeps DEF Equips, Takes
    <2>2. /\ s \in CommandSlots /\ Abs!Occupied(table, s)
          /\ cmd[h].item = Abs!ItemAt(table, s) /\ v = Abs!Swap(table, s, dest)
      BY <1>1, <1>2, EquipIs
    <2>3. slot[h] \in Abs!FreeSlots(v) /\ ~Abs!Occupied(v, rival)
      BY <1>1, <1>2, <1>3, <1>5, AbsTables
    <2> HIDE DEF s, v
    <2>4. Abs!Equips(s, cmd[h].item)
      BY <1>5, <2>1, <2>2, <2>3 DEF Abs!Equips
    <2>5. Abs!EquipItemForCharacter(s)
      BY <2>2, <2>4 DEF Abs!EquipItemForCharacter
    <2> QED BY <2>1, <2>2, <2>5 DEF Abs!Next
  <1>6. CASE /\ rival = Abs!NoRival \/ (Finds(h, rival) /\ ~gives)
             /\ pc' = [pc EXCEPT ![h] = "commit"]
             /\ UNCHANGED <<table, inventory, seq, last, cmd, sel, slot, events, writes>>
    <2>1. Typed' /\ pc'[h] = "commit" /\ Private(h)
      BY <1>1, <1>6 DEF Typed, Private, XInv
    <2>2. View(h)' = v /\ Equips(h)' /\ Exchanges(h)' /\ Swapped(h)' = v
      BY <1>1, <1>2, <1>6
         DEF View, Equips, Takes, HasSource, Exchanges, Swapped, Told
    <2>3. EquipDone(h)'
      <3>1. slot[h] \in FreeSlots(v)
        BY <1>1, <1>2
      <3>2. rival = Abs!NoRival \/ (Occupied(v, rival) /\ ~Abs!GivesWay(v, rival))
        BY <1>3, <1>4, <1>6
      <3>3. Abs!Rival(cmd'[h].item) = rival
        BY <1>6
      <3> HIDE DEF rival, v
      <3> QED BY <2>2, <3>1, <3>2, <3>3 DEF EquipDone
    <2>4. At(h)' /\ NextOf(h)' = NextOf(h)
      BY <1>1, <1>6, <2>1, <2>3 DEF At, Whole, NextOf, Creating, Equips, Takes
    <2> QED BY <1>1, <1>6, <2>1, <2>4, PrivateStutters DEF Inside, Committed
  <1>7. CASE /\ rival # Abs!NoRival /\ Finds(h, rival) /\ gives
             /\ Moves(h, rival, slot[h])
             /\ events' = [events EXCEPT ![h] = Append(@, e)]
             /\ pc' = [pc EXCEPT ![h] = "commit"]
             /\ UNCHANGED <<table, inventory, seq, last, cmd, slot>>
    <2>1. rival \in Int /\ slot[h] \in Int /\ Occupied(v, rival)
      <3>1. slot[h] \in Int
        BY <1>1, <1>2, FreeSlotIsFree DEF Good
      <3> QED BY <1>3, <1>7, <3>1, RivalIsWorn
    <2>2. /\ View(h)' = MoveSlot(v, rival, slot[h]) /\ DOMAIN writes' = Txs
          /\ \A u \in Txs \ {h} : writes'[u] = writes[u]
          /\ sel' = [sel EXCEPT ![h] = NoRow]
      BY <1>1, <1>2, <1>3, <1>7, <2>1, MovesView, ServiceAssumption DEF Good, Typed
    <2>3. Typed' /\ sel'[h] = NoRow /\ pc'[h] = "commit"
      BY <1>1, <1>7, <2>2 DEF Typed, XInv
    <2>4. Private(h)
      BY <1>1, <1>7, <2>2 DEF Private, XInv, Typed
    <2>5. Equips(h)' /\ Swapped(h)' = v /\ Told(h)' = Told(h)
      BY <1>1, <1>2, <1>7 DEF Equips, Takes, HasSource, Swapped, Told
    <2>6. events'[h] = Append(Told(h), Abs!MovedTo(ItemAt(v, rival), rival, slot[h]))
      <3>1. e = Abs!MovedTo(ItemAt(v, rival), rival, slot[h])
        BY <1>3
      <3> HIDE DEF e
      <3> QED BY <1>1, <1>7, <3>1 DEF Typed, Exchanges
    <2>7. EquipDone(h)'
      <3>1. slot[h] \in FreeSlots(v)
        BY <1>1, <1>2
      <3>2. rival # Abs!NoRival /\ Occupied(v, rival) /\ Abs!GivesWay(v, rival)
        BY <1>3, <1>4, <1>7
      <3>3. Abs!Rival(cmd'[h].item) = rival
        BY <1>7
      <3> HIDE DEF rival, v
      <3> QED BY <2>2, <2>5, <2>6, <3>1, <3>2, <3>3 DEF EquipDone
    <2>8. At(h)' /\ NextOf(h)' = NextOf(h)
      BY <1>1, <1>7, <2>3, <2>7 DEF At, Whole, NextOf, Creating, Equips, Takes
    <2> QED BY <1>1, <1>7, <2>3, <2>4, <2>8, PrivateStutters DEF Inside, Committed
  <1> QED BY <1>3, <1>5, <1>6, <1>7 DEF Rival, WaitsForRow, Goes, Tells, store, locals, gives

\* The commit.
LEMMA CommitKeeps ==
  ASSUME XInv, RInv, NEW h \in Handlers, Commit(h)
  PROVE  RInv' /\ [Abs!Next]_Abs!vars
  <1>1. /\ pc[h] = "commit" /\ Holds(h) /\ Whole(h) /\ sel[h] = NoRow /\ h \in Txs
        /\ Typed /\ Committed
    BY DEF Commit, Holds, RInv, At, Quiet, Txs
  <1>2. /\ CommitOf(h) /\ writes' = [writes EXCEPT ![h] = <<>>]
        /\ pc' = [pc EXCEPT ![h] = "publish"]
        /\ UNCHANGED <<inventory, seq, cmd, sel, slot, events>>
    BY DEF Commit, Commits, CommitOf, Goes, locals
  <1>3. NextId = NextOf(h)
    BY <1>1, Alone, NextIs DEF RInv
  <1>4. pc'[h] = "publish" /\ Private(h) /\ Typed' /\ writes'[h] = <<>>
    BY <1>1, <1>2 DEF Private, XInv, Typed
  <1>5. At(h)' /\ NextOf(h)' = seq
    BY <1>2, <1>4 DEF At, NextOf, Creating, Inside
  <1>6. NextId' = seq
    <2>1. \A g \in Handlers \ {h} : pc'[g] \in {"idle", "lock"}
      BY <1>1, <1>2, Alone DEF RInv, XInv
    <2> QED BY <1>5, <2>1, NextBecomes
  <1>7. cmd[h].op = "create" => NextId = seq - Len(events[h])
    BY <1>1, <1>2, <1>3 DEF NextOf, Creating, Inside, Commit
  <1>8. Good(View(h)) /\ DOMAIN View(h) \subseteq 1 .. seq - 1 /\ Abs!Next
    <2>1. CASE CreateDone(h)
      <3>1. cmd[h].op = "create"
        BY <2>1 DEF CreateDone, Builds
      <3> QED BY <1>2, <1>6, <1>7, <2>1, <3>1, CreateCommits
    <2>2. cmd[h].op # "create" => NextId' = NextId /\ DOMAIN table \subseteq 1 .. seq - 1
      BY <1>1, <1>3, <1>6 DEF NextOf, Creating, Committed
    <2>3. CASE UnequipDone(h)
      <3>1. cmd[h].op # "create"
        BY <2>3 DEF UnequipDone, Takes
      <3> QED BY <1>2, <2>2, <2>3, <3>1, UnequipCommits
    <2>4. CASE DropDone(h)
      <3>1. cmd[h].op # "create"
        BY <2>4 DEF DropDone, Takes
      <3> QED BY <1>2, <2>2, <2>4, <3>1, DropCommits
    <2>5. CASE EquipDone(h)
      <3>1. cmd[h].op # "create"
        BY <2>5 DEF EquipDone, Equips, Takes
      <3> QED BY <1>2, <2>2, <2>5, <3>1, EquipCommits
    <2>6. CASE MoveDone(h)
      <3>1. cmd[h].op # "create"
        BY <2>6 DEF MoveDone, Trades
      <3> QED BY <1>2, <2>2, <2>6, <3>1, MoveCommits
    <2> QED BY <1>1, <2>1, <2>3, <2>4, <2>5, <2>6 DEF Whole
  <1>9. table' = View(h) /\ seq \in Nat \ {0} /\ seq' = seq
    BY <1>1, <1>2 DEF CommitOf, Committed
  <1>10. RInv'
    BY <1>1, <1>2, <1>4, <1>5, <1>8, <1>9, PrivateKeeps
  <1> QED BY <1>8, <1>10

\* A statement or the commit fails.
LEMMA FailKeeps ==
  ASSUME XInv, RInv, NEW h \in Handlers, Fail(h)
  PROVE  RInv' /\ [Abs!Next]_Abs!vars
  <1>1. /\ Holds(h) /\ writes' = [writes EXCEPT ![h] = <<>>]
        /\ events' = [events EXCEPT ![h] = <<>>] /\ sel' = [sel EXCEPT ![h] = NoRow]
        /\ Goes(h, "unlock") /\ UNCHANGED <<table, inventory, seq, last, cmd, slot>>
    BY DEF Fail, Inside, Holds, store
  <1>2. RInv' /\ NextId = NextOf(h) /\ NextId' = seq
    BY <1>1, UndoneKeeps
  <1>3. CASE Creating(h)
    <2>1. pc[h] \in Busy /\ cmd[h] \in Cmd
      BY DEF Fail, Inside, XInv, RInv, Typed
    <2>2. Builds(h) /\ cmd[h].quantity \in Nat /\ seq \in Nat /\ NextId \in Nat \ {0}
      BY <1>3, <2>1, CreatingBuilds DEF Cmd, RInv, Committed
    <2> QED BY <1>1, <1>2, <1>3, <2>2, IdLost DEF NextOf
  <1>4. CASE ~Creating(h)
    BY <1>1, <1>2, <1>4, Stutters DEF NextOf
  <1> QED BY <1>2, <1>3, <1>4

\* What follows the commit, and what precedes the first statement.
LEMMA PublishKeeps ==
  ASSUME XInv, RInv, NEW h \in Handlers, Publish(h)
  PROVE  RInv' /\ [Abs!Next]_Abs!vars
  <1>1. /\ pc[h] = "publish" /\ Holds(h) /\ sel[h] = NoRow /\ h \in Txs
        /\ pc' = [pc EXCEPT ![h] = "unlock"]
        /\ UNCHANGED <<table, inventory, seq, last, cmd, sel, slot, events, writes>>
    BY DEF Publish, Goes, store, locals, Holds, RInv, Quiet, Txs
  <1>2. writes[h] = <<>>
    BY <1>1 DEF RInv, Quiet, Inside
  <1>3. pc'[h] = "unlock" /\ Private(h) /\ Typed'
    BY <1>1 DEF Private, XInv, RInv, Typed
  <1>4. At(h)' /\ NextOf(h)' = NextOf(h)
    BY <1>1, <1>3 DEF At, NextOf, Creating, Inside
  <1> QED BY <1>1, <1>2, <1>3, <1>4, PrivateStutters DEF RInv, Committed

LEMMA UnlockKeeps ==
  ASSUME XInv, RInv, NEW h \in Handlers, Unlock(h)
  PROVE  RInv' /\ [Abs!Next]_Abs!vars
  <1>1. /\ pc[h] = "unlock" /\ Holds(h) /\ sel[h] = NoRow /\ h \in Txs
        /\ pc' = [pc EXCEPT ![h] = "idle"] /\ cmd' = [cmd EXCEPT ![h] = Idle]
        /\ slot' = [slot EXCEPT ![h] = 0] /\ events' = [events EXCEPT ![h] = <<>>]
        /\ UNCHANGED <<table, inventory, seq, last, sel, writes>>
    BY DEF Unlock, Forgets, Goes, store, Holds, RInv, Quiet, Txs
  <1>2. writes[h] = <<>>
    BY <1>1 DEF RInv, Quiet, Inside
  <1>3. Idle \in Cmd
    BY DEF Idle, Asks, Cmd
  <1>4. pc'[h] = "idle" /\ events'[h] = <<>> /\ Private(h) /\ Typed'
    BY <1>1, <1>3 DEF Private, XInv, RInv, Typed
  <1>5. At(h)' /\ NextOf(h)' = NextOf(h)
    BY <1>1, <1>4 DEF At, NextOf, Creating, Inside
  <1> QED BY <1>1, <1>2, <1>4, <1>5, PrivateStutters DEF RInv, Committed

\* A goroutine that is where it was, on the rows that were there.
LEMMA AtStays ==
  ASSUME NEW g \in Handlers, At(g),
         UNCHANGED <<table, seq, cmd, sel, slot, events, writes>>, pc'[g] = pc[g]
  PROVE  At(g)'
  <1>1. /\ View(g)' = View(g) /\ Equips(g)' = Equips(g) /\ Trades(g)' = Trades(g)
        /\ Found(g)' = Found(g) /\ Swapped(g)' = Swapped(g) /\ Untouched(g)' = Untouched(g)
        /\ \A op : Takes(g, op)' = Takes(g, op)
    BY DEF View, Equips, Trades, Found, Swapped, Untouched, Takes, HasSource
  <1>2. Builds(g)' = Builds(g)
    BY <1>1 DEF Builds, Fills
  <1>3. Remains(g)' = Remains(g) /\ Vacates(g)' = Vacates(g)
    BY <1>1, <1>2 DEF Remains, Vacates
  <1>4. Exchanging(g)' = Exchanging(g) /\ Exchanges(g)' = Exchanges(g)
    BY <1>1 DEF Exchanging, Exchanges, Parked, Halfway, Swapped, Told
  <1>5. Whole(g)' = Whole(g)
    BY <1>1, <1>2, <1>4 DEF Whole, CreateDone, UnequipDone, DropDone, EquipDone, MoveDone, Told
  <1> QED BY <1>1, <1>3, <1>4, <1>5 DEF At

LEMMA ReceiveKeeps ==
  ASSUME XInv, RInv, NEW h \in Handlers, Receive(h)
  PROVE  RInv' /\ [Abs!Next]_Abs!vars
  <1>1. /\ pc[h] = "idle" /\ pc' = [pc EXCEPT ![h] = "lock"]
        /\ UNCHANGED <<table, inventory, seq, last, cmd, sel, slot, events, writes>>
    BY DEF Receive, Goes, store, locals
  <1>2. pc'[h] = "lock" /\ \A g \in Handlers \ {h} : pc'[g] = pc[g]
    BY <1>1 DEF XInv
  <1>3. \A g \in Handlers : /\ Creating(g)' <=> Creating(g)
                            /\ pc[g] \in {"idle", "lock"} => pc'[g] \in {"idle", "lock"}
    BY <1>1, <1>2 DEF Creating, Inside
  <1>4. NextId' = NextId
    BY <1>1, <1>3, NextStays
  <1>5. Typed' /\ Committed'
    BY <1>1, <1>4 DEF RInv, Typed, Committed
  <1>6. Quiet'
    BY <1>1, <1>2 DEF RInv, Quiet, Inside
  <1>7. \A g \in Handlers : At(g)'
    <2>1. At(h)'
      BY <1>2 DEF At
    <2> QED BY <1>1, <1>2, <2>1, AtStays DEF RInv
  <1> QED BY <1>1, <1>4, <1>5, <1>6, <1>7, Stutters DEF RInv

\* Before its first unit a create has changed nothing.
LEMMA NoRowsYet ==
  ASSUME NEW t, IsTable(t), NEW id \in Nat, NEW item, NEW slots
  PROVE  WithRows(t, id, item, slots, 0) = t
  <1>1. id .. id + 0 - 1 = {} /\ t = [r \in DOMAIN t |-> t[r]]
    BY DEF IsTable
  <1> QED BY <1>1 DEF WithRows

LEMMA LockKeeps ==
  ASSUME XInv, RInv, NEW h \in Handlers, Lock(h)
  PROVE  RInv' /\ [Abs!Next]_Abs!vars
  <1>1. PICK c \in Commands :
          /\ pc[h] = "lock" /\ cmd' = [cmd EXCEPT ![h] = c]
          /\ pc' = [pc EXCEPT ![h] = CASE c.op \in {"create", "unequip"} -> "locate"
                                       [] c.op = "move" -> "exchange"
                                       [] OTHER -> "find"]
          /\ UNCHANGED <<table, inventory, seq, last, sel, slot, events, writes>>
    BY DEF Lock, Goes, store
  <1>2. \A g \in Handlers : ~Holds(g)
    <2>1. Locks(h) /\ h \in Txs /\ mutexOf[h] = registry /\ registry # 0
      BY <1>1 DEF Lock, Txs, XInv
    <2> QED BY <2>1, LocksGives
  <1>3. /\ \A g \in Handlers \ {h} : pc[g] \in {"idle", "lock"} /\ pc'[g] = pc[g]
        /\ pc'[h] = CASE c.op \in {"create", "unequip"} -> "locate"
                      [] c.op = "move" -> "exchange" [] OTHER -> "find"
        /\ cmd'[h] = c /\ ~Creating(h)
        /\ \A u \in Txs : writes[u] = <<>>
        /\ sel[h] = NoRow /\ events[h] = <<>> /\ seq \in Nat \ {0}
    BY <1>1, <1>2 DEF Holds, XInv, RInv, Quiet, Inside, Creating, Typed, Committed
  <1>4. NextId = seq /\ NextId' = seq
    <2>1. Len(events'[h]) = 0
      BY <1>1, <1>3
    <2>2. NextOf(h)' = seq
      BY <1>1, <1>3, <2>1 DEF NextOf
    <2> QED BY <1>3, <2>2, NextIs, NextBecomes DEF NextOf
  <1>5. /\ c \in Cmd /\ c.step = 1
        /\ \/ c.op \in {"equip", "unequip", "drop"} /\ c.source \in CommandSlots
           \/ c.op = "move" /\ c.source \in MoveSlots /\ c.destination \in MoveSlots
           \/ c.op = "create" /\ c.source = 0 /\ c.item \in Items /\ c.quantity > 0
              /\ seq + c.quantity - 1 <= MaxId /\ \E q \in 0 .. MaxQuantity : c.quantity = Units(q)
    <2>1. CASE c \in {Asks(op, s, 0, Nobody, 0) : op \in {"equip", "unequip", "drop"}, s \in CommandSlots}
      <3>1. PICK op \in {"equip", "unequip", "drop"}, s \in CommandSlots :
              c = Asks(op, s, 0, Nobody, 0)
        BY <2>1
      <3>2. s \in Int
        BY ServiceAssumption
      <3> QED BY <3>1, <3>2 DEF Asks, Cmd
    <2>2. CASE c \in {Asks("move", s, d, Nobody, 0) : s, d \in MoveSlots}
      BY <2>2, ServiceAssumption DEF Asks, Cmd
    <2>3. CASE c \in CreateCommands
      <3>1. PICK item \in Items, q \in 0 .. MaxQuantity :
              c = Asks("create", 0, 0, item, Units(q)) /\ seq + Units(q) - 1 <= MaxId
        BY <2>3 DEF CreateCommands
      <3>2. Units(q) \in Nat \ {0}
        BY ServiceAssumption DEF Units
      <3> QED BY <3>1, <3>2 DEF Asks, Cmd
    <2> QED BY <2>1, <2>2, <2>3 DEF Commands
  <1>6. Typed' /\ Committed' /\ Quiet'
    <2>1. Typed'
      BY <1>1, <1>5 DEF RInv, Typed
    <2>2. Committed'
      BY <1>1, <1>4 DEF RInv, Committed
    <2>3. Quiet'
      BY <1>1, <1>3 DEF RInv, Quiet
    <2> QED BY <2>1, <2>2, <2>3
  <1>7. At(h)'
    <2>1. Untouched(h)' /\ sel'[h] = NoRow
      BY <1>1, <1>3 DEF Untouched, Txs
    <2>2. CASE c.op \in {"equip", "unequip", "drop"} /\ c.source \in CommandSlots
      BY <1>3, <1>5, <2>1, <2>2 DEF At
    <2>3. CASE c.op = "move" /\ c.source \in MoveSlots /\ c.destination \in MoveSlots
      <3>1. Trades(h)' /\ Exchanging(h)'
        BY <1>3, <1>5, <2>1, <2>3 DEF Trades, Exchanging
      <3> QED BY <1>3, <2>3, <3>1 DEF At
    <2>4. CASE /\ c.op = "create" /\ c.source = 0 /\ c.item \in Items /\ c.quantity > 0
               /\ seq + c.quantity - 1 <= MaxId /\ \E q \in 0 .. MaxQuantity : c.quantity = Units(q)
      <3>1. /\ Len(events'[h]) = 0 /\ seq' - 0 = seq /\ seq \in Nat /\ Good(table)
            /\ Cardinality(DOMAIN table) \in Nat
        BY <1>1, <1>3, FS_CardinalityType DEF RInv, Committed, Good, IsTable
      <3>2. View(h)' = WithRows(table, seq, c.item, <<>>, 0)
        <4>1. View(h) = table
          BY <1>3, ViewUntouched DEF Txs
        <4>2. View(h)' = View(h)
          BY <1>1, ViewStays
        <4> QED BY <3>1, <4>1, <4>2, NoRowsYet DEF Good
      <3>3. <<>> \in [1 .. 0 -> 1 .. Cardinality(DOMAIN table) + 0]
        BY <3>1
      <3>4. events'[h] = [k \in 1 .. 0 |-> Abs!Added(c.item, <<>>[k])]
        BY <1>1, <1>3
      <3>5. Fills(h, <<>>)'
        BY <1>1, <1>3, <3>1, <3>2, <3>3, <3>4 DEF Fills
      <3>6. Remains(h)'
        <4>1. \E q \in 0 .. MaxQuantity : Len(events'[h]) + cmd'[h].quantity = Units(q)
          BY <1>3, <2>4, <3>1, <1>5 DEF Cmd
        <4>2. Len(events'[h]) \in Nat /\ seq' + cmd'[h].quantity - 1 <= MaxId
          BY <1>1, <1>3, <2>4, <3>1
        <4> QED BY <1>3, <2>4, <3>5, <4>1, <4>2 DEF Remains, Builds, Units
      <3> QED BY <1>3, <2>4, <3>6 DEF At
    <2> QED BY <1>5, <2>2, <2>3, <2>4
  <1>8. \A g \in Handlers \ {h} : At(g)'
    BY <1>3 DEF At
  <1> QED BY <1>1, <1>4, <1>6, <1>7, <1>8, Stutters DEF RInv

\* The process dies.
LEMMA CrashKeeps ==
  ASSUME XInv, RInv, Crash
  PROVE  RInv' /\ [Abs!Next]_Abs!vars
  <1>1. /\ pc' = [h \in Handlers |-> "idle"] /\ cmd' = [h \in Handlers |-> Idle]
        /\ sel' = [h \in Handlers |-> NoRow] /\ slot' = [h \in Handlers |-> 0]
        /\ events' = [h \in Handlers |-> <<>>] /\ writes' = [t \in Txs |-> <<>>]
        /\ UNCHANGED <<table, inventory, seq, last>>
    BY DEF Crash, store
  <1>2. Idle \in Cmd
    BY DEF Idle, Asks, Cmd
  <1>3. NextId' = seq /\ NextId \in Nat \ {0} /\ NextId <= seq /\ seq \in Nat \ {0}
    <2>1. \A h \in Handlers : ~Creating(h)'
      BY <1>1 DEF Creating, Inside
    <2>2. NextId' = seq
      BY <1>1, <2>1 DEF NextId
    <2> QED BY <2>2, NextAtMost DEF RInv, Committed
  <1>4. Typed' /\ Quiet'
    BY <1>1, <1>2 DEF Typed, Quiet
  <1>5. Committed'
    BY <1>1, <1>3 DEF Committed, RInv
  <1>6. \A h \in Handlers : At(h)'
    BY <1>1 DEF At
  <1>7. [Abs!Next]_Abs!vars
    <2>1. CASE NextId = seq
      BY <1>1, <1>3, <2>1, Stutters
    <2>2. CASE NextId # seq
      <3>1. PICK h \in Handlers : Creating(h)
        BY <2>2 DEF NextId
      <3>2. pc[h] \in Busy /\ cmd[h].quantity \in Nat
        BY <3>1 DEF Creating, Inside, XInv, RInv, Typed, Cmd
      <3>3. Builds(h) /\ NextId = seq - Len(events[h])
        <4>1. \A g \in Handlers \ {h} : pc[g] \in {"idle", "lock"}
          BY <3>1, Alone DEF RInv, Creating, Inside, Holds
        <4> QED BY <3>1, <3>2, <4>1, CreatingBuilds, NextIs DEF NextOf
      <3> QED BY <1>1, <1>3, <3>2, <3>3, IdLost
    <2> QED BY <2>1, <2>2
  <1> QED BY <1>4, <1>5, <1>6, <1>7 DEF RInv


\* A step that changes nothing a goroutine's progress is stated in.
LEMMA UnchangedKeeps ==
  ASSUME XInv, RInv, UNCHANGED vars
  PROVE  RInv' /\ [Abs!Next]_Abs!vars
  <1>1. UNCHANGED <<table, inventory, seq, last, cmd, sel, slot, events, writes, pc>>
    BY DEF vars, store, locals
  <1>2. NextId' = NextId
    BY <1>1, NextStays DEF Creating, Inside
  <1>3. Typed' /\ Committed' /\ Quiet'
    BY <1>1, <1>2 DEF RInv, Typed, Committed, Quiet, Inside
  <1>4. \A g \in Handlers : At(g)'
    BY <1>1, AtStays DEF RInv
  <1> QED BY <1>1, <1>2, <1>3, <1>4, Stutters DEF RInv

\* At the start both have no rows.
LEMMA InitR == Init => RInv /\ Abs!Init
  <1> SUFFICES ASSUME Init PROVE RInv /\ Abs!Init
    OBVIOUS
  <1>1. /\ table = <<>> /\ inventory = TRUE /\ seq = 1
        /\ pc = [h \in Handlers |-> "idle"] /\ cmd = [h \in Handlers |-> Idle]
        /\ sel = [h \in Handlers |-> NoRow] /\ slot = [h \in Handlers |-> 0]
        /\ events = [h \in Handlers |-> <<>>] /\ writes = [t \in Txs |-> <<>>]
        /\ last = [op |-> "none", source |-> 0, result |-> "ok", events |-> <<>>]
    BY DEF Init
  <1>2. NextId = 1
    BY <1>1 DEF NextId, Creating, Inside
  <1>3. Idle \in Cmd
    BY DEF Idle, Asks, Cmd
  <1>4. DOMAIN table = {} /\ IsFiniteSet(DOMAIN table)
    <2>1. DOMAIN table = {}
      BY <1>1
    <2> QED BY <2>1, FS_EmptySet
  <1>5. Good(table)
    BY <1>1, <1>4 DEF Good, IsTable, Distinct, Occupied
  <1>6. Typed /\ Committed /\ Quiet
    BY <1>1, <1>2, <1>3, <1>4, <1>5 DEF Typed, Committed, Quiet
  <1>7. \A h \in Handlers : At(h)
    BY <1>1 DEF At
  <1> QED BY <1>1, <1>2, <1>6, <1>7 DEF RInv, Abs!Init

\* Every step keeps the invariant, and is a whole command or no step at all.
LEMMA NextR == XInv /\ RInv /\ [Next]_vars => RInv' /\ [Abs!Next]_Abs!vars
  <1> SUFFICES ASSUME XInv, RInv, [Next]_vars PROVE RInv' /\ [Abs!Next]_Abs!vars
    OBVIOUS
  <1>1. CASE UNCHANGED vars
    BY <1>1, UnchangedKeeps
  <1>2. CASE Crash
    BY <1>2, CrashKeeps
  <1>3. ASSUME NEW h \in Handlers, Handle(h) PROVE RInv' /\ [Abs!Next]_Abs!vars
    <2>1. CASE Receive(h) \/ Lock(h) \/ Fail(h)
      BY <2>1, ReceiveKeeps, LockKeeps, FailKeeps
    <2>2. CASE Locate(h) \/ Find(h) \/ Exchange(h) \/ Free(h) \/ Rival(h) \/ Unequip(h)
      BY <2>2, LocateKeeps, FindKeeps, ExchangeKeeps, FreeKeeps, RivalKeeps, UnequipKeeps
    <2>3. CASE Drop(h) \/ Insert(h) \/ Commit(h) \/ Publish(h) \/ Unlock(h)
      BY <2>3, DropKeeps, InsertKeeps, CommitKeeps, PublishKeeps, UnlockKeeps
    <2> QED BY <1>3, <2>1, <2>2, <2>3 DEF Handle, Step
  <1> QED BY <1>1, <1>2, <1>3 DEF Next

\* What a goroutine has written and collected is at every moment a part of one
\* whole command on the committed rows, and at its commit all of it
\* (ExecuteTransaction, with the mutex of the inventory held around it).
THEOREM RefinementInvariant == Spec => []RInv
  <1>1. Init => RInv
    BY InitR
  <1>2. XInv /\ RInv /\ [Next]_vars => RInv'
    BY NextR
  <1> QED BY <1>1, <1>2, LockInvariant, PTL DEF Spec

\* Goroutines that interleave, fail, lose ids and crash at any statement run
\* the commands of EquipInventory one at a time and whole, for any number of
\* goroutines, items and slots (InventoryService.Implements).
THEOREM ServiceImplements == Spec => Implements
  <1>1. Init => Abs!Init
    BY InitR
  <1>2. XInv /\ RInv /\ [Next]_vars => [Abs!Next]_Abs!vars
    BY NextR
  <1>3. Spec => [][Abs!Next]_Abs!vars
    BY <1>2, LockInvariant, RefinementInvariant, PTL DEF Spec
  <1> QED BY <1>1, <1>3, PTL DEF Spec, Implements, Abs!Spec

-----------------------------------------------------------------------------
\* A consumer that was told of everything so far has the committed rows, or
\* will have them with the events of the goroutine that has committed and not
\* published yet.
Shows ==
  ~missed =>
    /\ \A h \in Handlers : pc[h] = "publish" => Replay(screen, events[h], ItemOf) = Pic(table)
    /\ (\A h \in Handlers : pc[h] # "publish") => screen = Pic(table)

\* A row that goes to a free slot, and one that is dropped.
LEMMA MovedTells ==
  ASSUME NEW t, Good(t), NEW s \in Int, NEW n \in FreeSlots(t), NEW item,
         NEW e, e = Abs!MovedTo(item, s, n)
  PROVE  /\ Replay(Pic(t), <<e>>, ItemOf) = Pic(MoveSlot(t, s, n))
         /\ Apply(Pic(t), e, ItemOf) = Pic(MoveSlot(t, s, n))
  <1>1. Moved(e, s, n)
    BY DEF Moved, Abs!MovedTo
  <1>2. Pic(MoveSlot(t, s, n)) = Exchanged(Pic(t), s, n)
    BY PicMoved DEF Good
  <1> QED BY <1>1, <1>2, ReplayOne, ApplyMoved

LEMMA RemovedTells ==
  ASSUME NEW t, Good(t), NEW s, Occupied(t, s), NEW item, NEW e, e = Abs!Removed(item, s)
  PROVE  Replay(Pic(t), <<e>>, ItemOf) = Pic(Without(t, RowAt(t, s)))
  <1>1. e.type = "REMOVE" /\ e.slot = s
    BY DEF Abs!Removed
  <1>2. Pic(Without(t, RowAt(t, s))) = Blanked(Pic(t), s)
    BY PicWithout DEF Good
  <1> QED BY <1>1, <1>2, ReplayOne, ApplyRemoved

\* What an exchange has collected tells of the exchange.
LEMMA ExchangeTells ==
  ASSUME RInv, NEW h \in Handlers, Equips(h) \/ Trades(h), Occupied(table, cmd[h].source),
         NEW es, es = Told(h), NEW w, w = Swapped(h)
  PROVE  /\ Replay(Pic(table), es, ItemOf) = Pic(w)
         /\ \A f : Replay(Pic(table), Append(es, f), ItemOf) = Apply(Pic(w), f, ItemOf)
  <1>1. PICK t, s, d : t = table /\ s = cmd[h].source /\ d = cmd[h].destination
    OBVIOUS
  <1>2. PICK e : e = Abs!MovedTo(ItemAt(t, s), s, d)
    OBVIOUS
  <1>3. Moved(e, s, d)
    BY <1>2 DEF Moved, Abs!MovedTo
  <1>4. es = IF Occupied(MoveSlot(t, d, Temp), s) THEN <<e>> ELSE <<>>
    BY <1>1, <1>2, ToldIs DEF Parked
  <1>5. s \in Int \ {Temp} /\ d \in Int \ {Temp}
    BY <1>1, ExchangeSlots
  <1>6. Occupied(t, s) /\ w = Swap(t, s, d) /\ Good(t)
    BY <1>1 DEF Swapped, RInv, Committed
  <1>7. /\ Replay(Pic(t), es, ItemOf) = Pic(w)
        /\ \A f : Replay(Pic(t), Append(es, f), ItemOf) = Apply(Pic(w), f, ItemOf)
    BY <1>3, <1>4, <1>5, <1>6, TellsExchange DEF Good
  <1> QED BY <1>1, <1>7

\* At the commit the events account for everything the transaction has
\* written, unless the command is a move from an empty slot.
LEMMA WholeTells ==
  ASSUME XInv, RInv, NEW h \in Handlers, pc[h] = "commit", Whole(h), ~Silent(h)
  PROVE  Replay(Pic(table), events[h], ItemOf) = Pic(View(h))
  <1>0. Good(table) /\ \A s \in CommandSlots : s \in Int
    BY ServiceAssumption DEF RInv, Committed
  <1>t. PICK t, u : t = table /\ u = View(h)
    OBVIOUS
  <1>1. CASE CreateDone(h)
    <2>1. PICK n, item : n = Len(events[h]) /\ item = cmd[h].item
      OBVIOUS
    <2>2. Builds(h) /\ Creating(h) /\ Holds(h) /\ n \in Nat /\ item \in Items /\ seq \in Nat
      BY <1>1, <2>1 DEF CreateDone, Builds, Creating, Inside, Holds, RInv, Committed
    <2>3. PICK id : id = seq - n
      OBVIOUS
    <2>4. id \in Nat \ {0} /\ DOMAIN t \subseteq 1 .. id - 1
      <3>1. NextId = id
        BY <2>1, <2>2, <2>3, Alone, NextIs DEF NextOf, RInv
      <3> QED BY <1>t, <3>1 DEF RInv, Committed
    <2>5. PICK slots : Fills(h, slots)
      BY <2>2 DEF Builds
    <2>6. /\ u = WithRows(t, id, item, slots, n)
          /\ events[h] = [k \in 1 .. n |-> Abs!Added(item, slots[k])]
          /\ \A k \in 1 .. n : slots[k] \in FreeSlots(WithRows(t, id, item, slots, k - 1))
      BY <1>t, <2>1, <2>3, <2>5 DEF Fills
    <2>7. PICK es : es = events[h]
      OBVIOUS
    <2>8. \A k \in 1 .. n : es[k].type = "ADD" /\ es[k].item = item /\ es[k].slot = slots[k]
      BY <2>6, <2>7 DEF Abs!Added
    <2>9. Accounts(t, es, WithRows(t, id, item, slots, n))
      BY <1>0, <1>t, <2>1, <2>2, <2>4, <2>6, <2>7, <2>8, TellsRows DEF Good
    <2> QED BY <1>t, <2>6, <2>7, <2>9 DEF Accounts
  <1>2. CASE UnequipDone(h)
    <2>1. PICK s, item : s = cmd[h].source /\ item = Found(h).item
      OBVIOUS
    <2>2. PICK n \in FreeSlots(t) : u = MoveSlot(t, s, n) /\ events[h] = <<Abs!MovedTo(item, s, n)>>
      BY <1>2, <1>t, <2>1 DEF UnequipDone
    <2>3. s \in Int
      BY <1>0, <1>2, <2>1 DEF UnequipDone, Takes, HasSource
    <2>4. PICK e : e = Abs!MovedTo(item, s, n)
      OBVIOUS
    <2>5. Replay(Pic(t), <<e>>, ItemOf) = Pic(MoveSlot(t, s, n))
      BY <1>0, <1>t, <2>3, <2>4, MovedTells
    <2> QED BY <1>t, <2>2, <2>4, <2>5
  <1>3. CASE DropDone(h)
    <2>1. PICK s, item : s = cmd[h].source /\ item = Found(h).item
      OBVIOUS
    <2>2. /\ Occupied(t, s) /\ u = Without(t, RowAt(t, s))
          /\ events[h] = <<Abs!Removed(item, s)>>
      BY <1>3, <1>t, <2>1 DEF DropDone, Takes, HasSource, Found
    <2>3. PICK e : e = Abs!Removed(item, s)
      OBVIOUS
    <2>4. Replay(Pic(t), <<e>>, ItemOf) = Pic(Without(t, RowAt(t, s)))
      BY <1>0, <1>t, <2>2, <2>3, RemovedTells
    <2> QED BY <1>t, <2>2, <2>3, <2>4
  <1>4. CASE EquipDone(h)
    <2>1. Equips(h) /\ Occupied(table, cmd[h].source)
      BY <1>4 DEF EquipDone, Equips, Takes, HasSource
    <2>2. PICK es, w : es = Told(h) /\ w = Swapped(h)
      OBVIOUS
    <2>3. /\ Replay(Pic(t), es, ItemOf) = Pic(w)
          /\ \A f : Replay(Pic(t), Append(es, f), ItemOf) = Apply(Pic(w), f, ItemOf)
      BY <1>t, <2>1, <2>2, ExchangeTells
    <2>4. PICK rival : rival = Abs!Rival(cmd[h].item)
      OBVIOUS
    <2>5. PICK free \in FreeSlots(w) :
            \/ u = w /\ events[h] = es
            \/ /\ rival # Abs!NoRival /\ u = MoveSlot(w, rival, free)
               /\ events[h] = Append(es, Abs!MovedTo(ItemAt(w, rival), rival, free))
      BY <1>4, <1>t, <2>2, <2>4 DEF EquipDone, Exchanges
    <2>6. CASE u = w /\ events[h] = es
      BY <1>t, <2>3, <2>6
    <2>7. CASE /\ rival # Abs!NoRival /\ u = MoveSlot(w, rival, free)
               /\ events[h] = Append(es, Abs!MovedTo(ItemAt(w, rival), rival, free))
      <3>1. Good(w) /\ rival \in Int
        BY <2>1, <2>2, <2>4, <2>7, ExchangeSlots, RivalIsWorn
      <3>2. PICK i, e : i = ItemAt(w, rival) /\ e = Abs!MovedTo(i, rival, free)
        OBVIOUS
      <3>3. Apply(Pic(w), e, ItemOf) = Pic(MoveSlot(w, rival, free))
        BY <3>1, <3>2, MovedTells
      <3> QED BY <1>t, <2>3, <2>7, <3>2, <3>3
    <2> QED BY <2>5, <2>6, <2>7
  <1>5. CASE MoveDone(h)
    <2>1. Trades(h) /\ cmd[h].op = "move" /\ u = Swapped(h) /\ events[h] = Told(h)
      BY <1>5, <1>t DEF MoveDone, Trades, Exchanges
    <2>2. Occupied(table, cmd[h].source)
      <3>1. Occupied(Parked(h), cmd[h].source)
        BY <2>1, ToldIs DEF Silent
      <3>2. Parked(h) = Reslotted(table, cmd[h].destination, Temp)
        BY <1>0, <2>1, ExchangeSlots, MoveSlotRows DEF Parked, Good, Temp
      <3>3. cmd[h].source # Temp
        BY <2>1, ExchangeSlots
      <3> QED BY <3>1, <3>2, <3>3 DEF Occupied, Reslotted
    <2>3. PICK es : es = Told(h)
      OBVIOUS
    <2>4. Replay(Pic(table), es, ItemOf) = Pic(u)
      BY <2>1, <2>2, <2>3, ExchangeTells
    <2> QED BY <1>t, <2>1, <2>3, <2>4
  <1> QED BY <1>1, <1>2, <1>3, <1>4, <1>5 DEF Whole

\* A step that neither commits nor publishes.
LEMMA ShowsKept ==
  ASSUME Shows, UNCHANGED <<table, screen, missed>>,
         \A g \in Handlers : /\ pc'[g] = "publish" <=> pc[g] = "publish"
                             /\ pc[g] = "publish" => events'[g] = events[g]
  PROVE  Shows'
  BY DEF Shows

\* The steps that leave the rows and the picture alone, and where they go.
Elsewhere(h) ==
  /\ UNCHANGED <<table, screen, missed>> /\ Holds(h) /\ pc[h] # "publish"
  /\ pc' = pc \/ \E step \in {"idle"} \cup (Busy \ {"publish"}) : pc' = [pc EXCEPT ![h] = step]

LEMMA InsideElsewhere ==
  ASSUME NEW h \in Handlers,
         Locate(h) \/ Find(h) \/ Exchange(h) \/ Free(h) \/ Rival(h) \/ Unequip(h)
         \/ Drop(h) \/ Insert(h) \/ Fail(h) \/ Unlock(h)
  PROVE  Elsewhere(h)
  <1>1. UNCHANGED <<table, screen, missed>> /\ Holds(h) /\ pc[h] # "publish"
    BY DEF Locate, Find, Exchange, WaitsForRow, RollsBack, Free, Rival, Unequip, Drop, Insert,
           Fail, Inside, Unlock, Holds, store, consumer, memory
  <1>2. CASE Find(h)
    <2>1. \E step \in {"unlock", "exchange", "drop", "free"} : pc' = [pc EXCEPT ![h] = step]
      BY <1>2 DEF Find, RollsBack, Goes
    <2> QED BY <1>1, <2>1 DEF Elsewhere, Busy
  <1>3. CASE Exchange(h)
    <2>1. pc' = pc \/ \E step \in {"exchange", "locate", "commit"} : pc' = [pc EXCEPT ![h] = step]
      BY <1>3 DEF Exchange, WaitsForRow, Goes
    <2> QED BY <1>1, <2>1 DEF Elsewhere, Busy
  <1>4. CASE Free(h)
    <2>1. \E step \in {"insert", "rival", "unequip"} : pc' = [pc EXCEPT ![h] = step]
      BY <1>4 DEF Free, Goes
    <2> QED BY <1>1, <2>1 DEF Elsewhere, Busy
  <1>5. CASE Rival(h)
    <2>1. pc' = pc \/ \E step \in {"unlock", "commit"} : pc' = [pc EXCEPT ![h] = step]
      BY <1>5 DEF Rival, RollsBack, WaitsForRow, Goes
    <2> QED BY <1>1, <2>1 DEF Elsewhere, Busy
  <1>6. CASE Unequip(h) \/ Drop(h) \/ Insert(h) \/ Fail(h) \/ Unlock(h)
    <2>1. \E step \in {"unlock", "commit", "free", "idle"} : pc' = [pc EXCEPT ![h] = step]
      BY <1>6 DEF Unequip, Drop, Insert, Fail, Unlock, RollsBack, Goes
    <2> QED BY <1>1, <2>1 DEF Elsewhere, Busy
  <1>7. CASE Locate(h)
    <2>1. \E step \in {"unlock", "find", "free"} : pc' = [pc EXCEPT ![h] = step]
      BY <1>7 DEF Locate, RollsBack, Goes
    <2> QED BY <1>1, <2>1 DEF Elsewhere, Busy
  <1> QED BY <1>2, <1>3, <1>4, <1>5, <1>6, <1>7

\* Every step keeps the picture up to date or owes it the events of one
\* goroutine, which nobody overtakes.
LEMMA NextShows == XInv /\ RInv /\ Shows /\ [Next]_vars => Shows'
  <1> SUFFICES ASSUME XInv, RInv, Shows, [Next]_vars PROVE Shows'
    OBVIOUS
  <1>0. pc \in [Handlers -> {"idle", "lock"} \cup Busy] /\ DOMAIN events = Handlers
    BY DEF XInv, RInv, Typed
  <1>1. CASE UNCHANGED vars
    BY <1>1, ShowsKept DEF vars, store, locals, consumer
  <1>2. CASE Crash
    <2>1. /\ table' = table /\ screen' = screen
          /\ missed' = (missed \/ \E h \in Handlers : pc[h] = "publish")
          /\ \A h \in Handlers : pc'[h] = "idle"
      BY <1>2 DEF Crash, store
    <2> QED BY <2>1 DEF Shows
  <1>3. ASSUME NEW h \in Handlers, Receive(h) \/ Lock(h) PROVE Shows'
    <2>1. /\ UNCHANGED <<table, screen, missed, events>> /\ pc[h] # "publish"
          /\ \E step \in {"lock", "locate", "exchange", "find"} : pc' = [pc EXCEPT ![h] = step]
      BY <1>3 DEF Receive, Lock, Goes, store, locals, consumer
    <2> QED BY <1>0, <2>1, ShowsKept
  <1>4. ASSUME NEW h \in Handlers,
               Locate(h) \/ Find(h) \/ Exchange(h) \/ Free(h) \/ Rival(h) \/ Unequip(h)
               \/ Drop(h) \/ Insert(h) \/ Fail(h) \/ Unlock(h)
        PROVE  Shows'
    <2>1. Elsewhere(h)
      BY <1>4, InsideElsewhere
    <2>2. \A g \in Handlers \ {h} : pc[g] # "publish"
      BY <2>1, Alone DEF RInv, Elsewhere
    <2>3. \A g \in Handlers : pc[g] # "publish" /\ pc'[g] # "publish"
      BY <1>0, <2>1, <2>2 DEF Elsewhere
    <2> QED BY <2>1, <2>3, ShowsKept DEF Elsewhere
  <1>5. ASSUME NEW h \in Handlers, Commit(h) PROVE Shows'
    <2>1. /\ pc[h] = "commit" /\ table' = View(h) /\ screen' = screen /\ events' = events
          /\ missed' = (missed \/ Silent(h)) /\ pc' = [pc EXCEPT ![h] = "publish"]
      BY <1>5 DEF Commit, Commits, Goes, locals
    <2>2. Whole(h) /\ Holds(h) /\ \A g \in Handlers \ {h} : pc[g] # "publish"
      BY <2>1, Alone DEF RInv, At, Holds
    <2>3. pc'[h] = "publish" /\ \A g \in Handlers \ {h} : pc'[g] # "publish"
      BY <1>0, <2>1, <2>2
    <2>4. ASSUME ~missed' PROVE Replay(screen', events'[h], ItemOf) = Pic(table')
      <3>1. ~missed /\ ~Silent(h)
        BY <2>1, <2>4
      <3>2. screen = Pic(table)
        BY <2>1, <2>2, <3>1 DEF Shows
      <3>3. Replay(Pic(table), events[h], ItemOf) = Pic(View(h))
        BY <2>1, <2>2, <3>1, WholeTells
      <3> QED BY <2>1, <3>2, <3>3
    <2> QED BY <2>3, <2>4 DEF Shows
  <1>6. ASSUME NEW h \in Handlers, Publish(h) PROVE Shows'
    <2>1. /\ pc[h] = "publish" /\ table' = table /\ pc' = [pc EXCEPT ![h] = "unlock"]
          /\ \/ screen' = Replay(screen, events[h], SeesItem) /\ missed' = missed
             \/ missed' = TRUE
      BY <1>6 DEF Publish, Goes, store
    <2>2. \A g \in Handlers : pc'[g] # "publish"
      BY <1>0, <2>1, Alone DEF RInv, Holds
    <2>3. Replay(screen, events[h], SeesItem) = Replay(screen, events[h], ItemOf)
      BY DEF Replay, Apply, SeesItem, ItemOf
    <2> QED BY <2>1, <2>2, <2>3 DEF Shows
  <1> QED BY <1>1, <1>2, <1>3, <1>4, <1>5, <1>6 DEF Next, Handle, Step

\* Unless some events were lost, a consumer that has read them all has the
\* committed inventory, whatever goroutines interleave, fail or die
\* (the deferred Unlock runs after the publish; InventoryService).
THEOREM ScreenIsTable == Spec => []ScreenShowsTable
  <1>1. Init => Shows
    <2> SUFFICES ASSUME Init PROVE Shows
      OBVIOUS
    <2>1. table = <<>> /\ screen = <<>> /\ \A h \in Handlers : pc[h] = "idle"
      BY DEF Init
    <2>2. Pic(<<>>) = <<>>
      BY DEF Pic, Picture, SlotsOf
    <2> QED BY <2>1, <2>2 DEF Shows
  <1>2. XInv /\ RInv /\ Shows /\ [Next]_vars => Shows'
    BY NextShows
  <1>3. Shows => ScreenShowsTable
    <2>1. Picture(table, SeesItem) = Pic(table)
      BY DEF Picture, Pic, SeesItem, ItemOf
    <2> QED BY <2>1 DEF Shows, ScreenShowsTable
  <1> QED BY <1>1, <1>2, <1>3, LockInvariant, RefinementInvariant, PTL DEF Spec

-----------------------------------------------------------------------------
\* What is written and not committed: rows the sequence has numbered, and
\* items of the catalogue.
WritesOK ==
  \A t \in Txs : \A r \in DOMAIN writes[t] :
    r \in Nat /\ r < seq /\ (writes[t][r] = Gone \/ writes[t][r].item \in Items)

LEMMA RowSeen ==
  ASSUME XInv, RInv, WritesOK, NEW t \in Txs, NEW r \in DOMAIN View(t)
  PROVE  r \in Nat /\ r < seq /\ View(t)[r].item \in Items
  <1>1. CASE r \in DOMAIN writes[t]
    BY <1>1 DEF View, WritesOK
  <1>2. CASE r \notin DOMAIN writes[t]
    <2>1. r \in DOMAIN table /\ View(t)[r] = table[r]
      BY <1>2 DEF View
    <2>2. seq \in Nat /\ NextId \in Nat /\ NextId <= seq /\ r \in 1 .. NextId - 1
      BY <2>1, NextAtMost DEF RInv, Committed
    <2> QED BY <2>1, <2>2 DEF RInv, Committed, Good, IsTable
  <1> QED BY <1>1, <1>2

\* A write of one row, and the end of a transaction.
LEMMA WriteKept ==
  ASSUME XInv, RInv, WritesOK, NEW h \in Handlers, seq' = seq, NEW r, NEW row,
         WritesRow(h, r, row), r \in DOMAIN View(h) => (row = Gone \/ row.item \in Items)
  PROVE  WritesOK'
  <1>1. h \in Txs /\ DOMAIN writes = Txs
    BY DEF Txs, RInv, Typed
  <1>2. CASE r \in DOMAIN View(h)
    <2>1. /\ writes' = [writes EXCEPT ![h] = Written(writes[h], r, row)]
          /\ r \in Nat /\ r < seq
      BY <1>1, <1>2, RowSeen DEF WritesRow, UpsertsRow
    <2> QED BY <1>1, <1>2, <2>1 DEF WritesOK, Written
  <1>3. CASE r \notin DOMAIN View(h)
    BY <1>3 DEF WritesRow, WritesOK
  <1> QED BY <1>2, <1>3

LEMMA EndKept ==
  ASSUME RInv, WritesOK, NEW h, seq' = seq,
         writes' = writes \/ writes' = [writes EXCEPT ![h] = <<>>]
  PROVE  WritesOK'
  BY DEF WritesOK, RInv, Typed

\* The row a pending move has selected is one the transaction sees.
LEMMA MoveKept ==
  ASSUME XInv, RInv, WritesOK, NEW h \in Handlers, sel[h] = NoRow \/ pc[h] = "unequip",
         seq' = seq, NEW s, s = cmd[h].source \/ pc[h] # "unequip", NEW d, Moves(h, s, d)
  PROVE  WritesOK'
  <1>1. PICK r, item : r = Selected(h, s).row /\ item = Selected(h, s).item
    OBVIOUS
  <1>2. WritesRow(h, r, [item |-> item, slot |-> d])
    BY <1>1 DEF Moves
  <1>3. ASSUME r \in DOMAIN View(h) PROVE item \in Items
    <2>1. CASE sel[h] = NoRow
      <3>1. item = View(h)[r].item
        BY <1>1, <2>1 DEF Selected, ItemAt
      <3> QED BY <1>3, <3>1, RowSeen DEF Txs
    <2>2. CASE pc[h] = "unequip" /\ sel[h] # NoRow
      <3>1. Occupied(table, cmd[h].source) /\ sel[h] = Found(h) /\ Good(table)
        BY <2>2 DEF RInv, At, Vacates, Committed
      <3>2. ItemAt(table, cmd[h].source) \in Items
        BY <3>1, FoundRow DEF Good
      <3>3. item = Found(h).item \/ item = View(h)[r].item
        BY <1>1, <3>1 DEF Selected, ItemAt
      <3>4. View(h)[r].item \in Items
        BY <1>3, RowSeen DEF Txs
      <3> QED BY <3>2, <3>3, <3>4 DEF Found
    <2> QED BY <2>1, <2>2
  <1> QED BY <1>2, <1>3, WriteKept

LEMMA NextWrites == XInv /\ RInv /\ WritesOK /\ [Next]_vars => WritesOK'
  <1> SUFFICES ASSUME XInv, RInv, WritesOK, [Next]_vars PROVE WritesOK'
    OBVIOUS
  <1>1. CASE UNCHANGED vars
    BY <1>1, EndKept DEF vars, store
  <1>2. CASE Crash
    <2>1. writes' = [t \in Txs |-> <<>>]
      BY <1>2 DEF Crash
    <2> QED BY <2>1 DEF WritesOK
  <1>3. ASSUME NEW h \in Handlers,
               Receive(h) \/ Lock(h) \/ Locate(h) \/ Find(h) \/ Free(h) \/ Commit(h) \/ Publish(h)
               \/ Unlock(h) \/ Fail(h)
        PROVE  WritesOK'
    <2>1. seq' = seq /\ (writes' = writes \/ writes' = [writes EXCEPT ![h] = <<>>])
      BY <1>3 DEF Receive, Lock, Locate, Find, Free, Commit, Commits, Publish, Unlock, Fail,
                  RollsBack, store
    <2> QED BY <2>1, EndKept
  <1>4. ASSUME NEW h \in Handlers, Exchange(h) PROVE WritesOK'
    <2>1. sel[h] = NoRow /\ pc[h] # "unequip" /\ seq' = seq
      BY <1>4 DEF Exchange, WaitsForRow, RInv, Quiet, store
    <2>2. writes' = writes \/ \E s, d : Moves(h, s, d)
      BY <1>4 DEF Exchange, WaitsForRow
    <2> QED BY <2>1, <2>2, EndKept, MoveKept
  <1>5. ASSUME NEW h \in Handlers, Rival(h) PROVE WritesOK'
    <2>1. sel[h] = NoRow /\ pc[h] # "unequip" /\ seq' = seq
      BY <1>5 DEF Rival, RollsBack, WaitsForRow, RInv, Quiet, store
    <2>2. \/ writes' = writes \/ writes' = [writes EXCEPT ![h] = <<>>]
          \/ \E s, d : Moves(h, s, d)
      BY <1>5 DEF Rival, RollsBack, WaitsForRow
    <2> QED BY <2>1, <2>2, EndKept, MoveKept
  <1>6. ASSUME NEW h \in Handlers, Unequip(h) PROVE WritesOK'
    <2>1. CASE RollsBack(h, "absent")
      BY <2>1, EndKept DEF RollsBack
    <2>2. CASE ~RollsBack(h, "absent")
      BY <1>6, <2>2, MoveKept DEF Unequip, store
    <2> QED BY <2>1, <2>2
  <1>7. ASSUME NEW h \in Handlers, Drop(h) PROVE WritesOK'
    BY <1>7, WriteKept DEF Drop, store
  <1>8. ASSUME NEW h \in Handlers, Insert(h) PROVE WritesOK'
    <2>1. CASE RollsBack(h, "refused")
      BY <2>1, EndKept DEF RollsBack
    <2>2. CASE UpsertsRow(h, seq, [item |-> cmd[h].item, slot |-> slot[h]]) /\ seq' = seq + 1
      <3>1. cmd[h].item \in Items /\ seq \in Nat /\ h \in Txs /\ DOMAIN writes = Txs
        BY <1>8 DEF Insert, RInv, At, Remains, Builds, Committed, Txs, Typed
      <3>2. PICK row : row = [item |-> cmd[h].item, slot |-> slot[h]]
        OBVIOUS
      <3>3. writes' = [writes EXCEPT ![h] = Written(writes[h], seq, row)]
        BY <2>2, <3>2 DEF UpsertsRow
      <3>4. ASSUME NEW t \in Txs, NEW r \in DOMAIN writes'[t]
            PROVE  r \in Nat /\ r < seq' /\ (writes'[t][r] = Gone \/ writes'[t][r].item \in Items)
        <4>1. CASE r \in DOMAIN writes[t] /\ writes'[t][r] = writes[t][r]
          <5>1. r \in Nat /\ r < seq /\ (writes[t][r] = Gone \/ writes[t][r].item \in Items)
            BY <4>1 DEF WritesOK
          <5> QED BY <2>2, <3>1, <4>1, <5>1
        <4>2. CASE r = seq /\ writes'[t][r] = row
          BY <2>2, <3>1, <3>2, <4>2
        <4> QED BY <3>1, <3>3, <4>1, <4>2 DEF Written
      <3> QED BY <3>4 DEF WritesOK
    <2> QED BY <1>8, <2>1, <2>2 DEF Insert
  <1> QED BY <1>1, <1>2, <1>3, <1>4, <1>5, <1>6, <1>7, <1>8 DEF Next, Handle, Step

\* Type correctness (InventoryService.TypeOK).
THEOREM ServiceTypes == Spec => []TypeOK
  <1>1. Init => WritesOK
    BY DEF Init, WritesOK
  <1>2. XInv /\ RInv /\ WritesOK /\ [Next]_vars => WritesOK'
    BY NextWrites
  <1>3. XInv /\ RInv /\ WritesOK => TypeOK
    <2> SUFFICES ASSUME XInv, RInv, WritesOK PROVE TypeOK
      OBVIOUS
    <2>1. seq \in Nat /\ NextId \in Nat /\ NextId <= seq
      BY NextAtMost DEF RInv, Committed
    <2>2. DOMAIN table \subseteq 1 .. seq - 1 /\ table \in [DOMAIN table -> [item : Items, slot : Int]]
      BY <2>1 DEF RInv, Committed, Good, IsTable
    <2> QED BY <2>2 DEF TypeOK, XInv, WritesOK
  <1> QED BY <1>1, <1>2, <1>3, LockInvariant, RefinementInvariant, PTL DEF Spec

-----------------------------------------------------------------------------
(***************************************************************************)
(* The commands on their own, without a deletion: how far they are from    *)
(* the Unlock, and that nothing but the mutex keeps one from getting there.*)
(***************************************************************************)

\* Without a deletion, who owns a mutex is a goroutine inside.
Owners ==
  \A m \in Mutexes : owner[m] # Nobody => \E g \in Handlers : owner[m] = g /\ Holds(g)

LEMMA NextOwners == XInv /\ Owners /\ [Next]_vars => Owners'
  <1> SUFFICES ASSUME XInv, Owners, [Next]_vars PROVE Owners'
    OBVIOUS
  <1>1. CASE UNCHANGED vars
    BY <1>1 DEF vars, memory, Owners, Holds
  <1>2. CASE Crash
    BY <1>2 DEF Crash, Owners
  <1>3. ASSUME NEW h \in Handlers, Receive(h) PROVE Owners'
    <2>1. owner' = owner /\ pc' = [pc EXCEPT ![h] = "lock"] /\ ~Holds(h)
      BY <1>3 DEF Receive, GetById, Goes, Holds
    <2> QED BY <2>1 DEF Owners, Holds, XInv
  <1>4. ASSUME NEW h \in Handlers, Lock(h) PROVE Owners'
    <2>1. /\ owner' = [owner EXCEPT ![registry] = h] /\ \A g \in Handlers : ~Holds(g)
      BY <1>4, LocksGives DEF Lock, XInv, Txs
    <2>2. PICK step \in {"locate", "find", "exchange"} : pc' = [pc EXCEPT ![h] = step]
      BY <1>4 DEF Lock, Goes
    <2>3. Holds(h)'
      BY <2>2 DEF Holds, XInv
    <2> QED BY <2>1, <2>3 DEF Owners, XInv
  <1>5. ASSUME NEW h \in Handlers, Unlock(h) PROVE Owners'
    <2>1. Unlocks(h) /\ h \in Txs /\ mutexOf[h] = registry /\ registry # 0 /\ owner[registry] = h
      BY <1>5 DEF Unlock, Goes, Holds, Txs, XInv
    <2>2. owner' = [owner EXCEPT ![registry] = Nobody]
      BY <2>1, UnlocksGives
    <2> QED BY <2>2 DEF Owners, XInv
  <1>6. ASSUME NEW h \in Handlers, Works(h) PROVE Owners'
    BY <1>6 DEF Works, memory, Owners, Holds, Busy, XInv
  <1> QED BY <1>1, <1>2, <1>3, <1>4, <1>5, <1>6, InsideWorks DEF Next, Handle, Step

\* The rows a goroutine sees on its way to a free slot.
LEMMA FreeSees ==
  ASSUME XInv, RInv, NEW h \in Handlers, pc[h] = "free"
  PROVE  IsTable(View(h)) /\ Distinct(View(h))
  <1>1. At(h) /\ Good(table)
    BY DEF RInv, Committed
  <1>2. CASE Vacates(h)
    <2>1. View(h) = table
      BY <1>2, ViewUntouched DEF Untouched, Vacates
    <2> QED BY <1>1, <2>1 DEF Good
  <1>3. CASE Equips(h) /\ Exchanges(h)
    BY <1>3, ExchangeSlots DEF Exchanges, Good
  <1>4. CASE Remains(h)
    <2>1. Builds(h) /\ Creating(h) /\ Holds(h)
      BY <1>4 DEF Remains, Builds, Creating, Inside, Holds
    <2>2. NextId = seq - Len(events[h])
      BY <2>1, Alone, NextIs DEF NextOf, RInv
    <2> QED BY <2>1, <2>2, BuildsRows DEF Builds, Good
  <1> QED BY <1>1, <1>2, <1>3, <1>4 DEF At

\* While no character is deleted a command waits for nothing but the mutex, and
\* whoever has that does not wait: no row it writes is another transaction's,
\* and the loop of MinFreeSlot ends on the rows it sees.
OnlyQueues ==
  \A h \in Handlers : Waits(h) =>
    /\ pc[h] = "lock"
    /\ \E g \in Handlers : owner[mutexOf[h]] = g /\ Holds(g) /\ ~Waits(g)

THEOREM CommandsOnlyQueue == Spec => []OnlyQueues
  <1>1. Init => Owners
    BY DEF Init, Owners
  <1>2. XInv /\ RInv /\ Owners => OnlyQueues
    <2> SUFFICES ASSUME XInv, RInv, Owners PROVE OnlyQueues
      OBVIOUS
    <2>1. ASSUME NEW h \in Handlers, Waits(h) PROVE pc[h] = "lock"
      <3>1. CASE sel[h] # NoRow /\ RowLocked(h, sel[h].row) /\ Holds(h)
        BY <3>1, Alone DEF RInv
      <3>2. CASE pc[h] = "free" /\ FreeSlots(View(h)) = {}
        <4>1. IsTable(View(h)) /\ Distinct(View(h))
          BY <3>2, FreeSees
        <4>2. IsFiniteSet(DOMAIN View(h)) /\ DistinctBag(View(h))
          BY <4>1 DEF IsTable, Distinct, DistinctBag
        <4>3. \E f \in Nat \ {0} : FreeSlots(View(h)) = {f}
          BY <4>2, OneFreeSlot
        <4> QED BY <3>2, <4>3
      <3> QED BY <2>1, <3>1, <3>2 DEF Waits, Holds
    <2>2. ASSUME NEW h \in Handlers, Waits(h)
          PROVE  \E g \in Handlers : owner[mutexOf[h]] = g /\ Holds(g)
      <3>1. pc[h] = "lock" /\ ~LockFree(h)
        BY <2>1, <2>2 DEF Waits
      <3>2. owner[mutexOf[h]] # Nobody /\ mutexOf[h] \in Mutexes
        BY <3>1 DEF LockFree, XInv
      <3> QED BY <3>2 DEF Owners
    <2>3. \A g \in Handlers : Holds(g) => ~Waits(g)
      BY <2>1 DEF Holds
    <2> QED BY <2>1, <2>2, <2>3 DEF OnlyQueues
  <1> QED BY <1>1, <1>2, NextOwners, LockInvariant, RefinementInvariant, PTL DEF Spec

\* How many statements, at most, are between a goroutine and its Unlock: for
\* each unit a create has still to insert there are two.
ToInsert(h) == IF cmd[h].op = "create" THEN 2 * cmd[h].quantity ELSE 2

Left(h) == CASE pc[h] = "find" -> IF cmd[h].op = "unequip" THEN 6 ELSE 10
             [] pc[h] = "exchange" -> 10 - cmd[h].step
             [] pc[h] = "locate" -> IF cmd[h].op = "unequip" THEN 7 ELSE 4 + ToInsert(h)
             [] pc[h] = "free" -> 3 + ToInsert(h)
             [] pc[h] = "insert" -> 2 + ToInsert(h)
             [] pc[h] \in {"rival", "unequip", "drop"} -> 4
             [] pc[h] = "commit" -> 3
             [] pc[h] = "publish" -> 2
             [] pc[h] = "unlock" -> 1
             [] OTHER -> 0

Most(h) == 10 + 2 * cmd[h].quantity

\* It is inside that bound, and at the Unlock only when it gets there.
LEMMA LeftIs ==
  ASSUME XInv, RInv, NEW h \in Handlers, Holds(h)
  PROVE  /\ pc[h] \in Busy /\ cmd[h].step \in 1 .. 3 /\ cmd[h].quantity \in Nat
         /\ ToInsert(h) \in Nat /\ Left(h) \in 1 .. Most(h)
         /\ pc[h] \notin {"commit", "publish", "unlock"} => Left(h) > 3
         /\ pc[h] # "unlock" => Left(h) > 1
  <1>1. pc[h] \in Busy /\ cmd[h].step \in 1 .. 3 /\ cmd[h].quantity \in Nat
    BY DEF XInv, RInv, Typed, Cmd, Holds
  <1>2. ToInsert(h) \in Nat /\ ToInsert(h) <= 2 * cmd[h].quantity + 2
    BY <1>1 DEF ToInsert
  <1>3. pc[h] \in {"free", "insert"} => ToInsert(h) >= 2
    <2> SUFFICES ASSUME pc[h] \in {"free", "insert"} PROVE ToInsert(h) >= 2
      OBVIOUS
    <2>1. cmd[h].op = "create" => cmd[h].quantity > 0
      BY DEF RInv, At, Remains, Vacates, Equips, Takes
    <2> QED BY <1>1, <2>1 DEF ToInsert
  <1>4. Most(h) \in Nat /\ Most(h) >= 10 /\ Most(h) >= 8 + ToInsert(h)
    BY <1>1, <1>2 DEF Most
  <1> HIDE DEF ToInsert, Most
  <1>5. /\ Left(h) \in Int /\ Left(h) >= 1 /\ Left(h) <= Most(h)
        /\ pc[h] \notin {"commit", "publish", "unlock"} => Left(h) > 3
        /\ pc[h] # "unlock" => Left(h) > 1
    <2>1. CASE pc[h] = "find"
      <3>1. Left(h) \in {6, 10}
        BY <2>1 DEF Left
      <3> QED BY <1>4, <2>1, <3>1
    <2>2. CASE pc[h] = "exchange"
      <3>1. Left(h) = 10 - cmd[h].step
        BY <2>2 DEF Left
      <3> QED BY <1>1, <1>4, <2>2, <3>1
    <2>3. CASE pc[h] = "locate"
      <3>1. Left(h) \in {7, 4 + ToInsert(h)}
        BY <2>3 DEF Left
      <3> QED BY <1>2, <1>4, <2>3, <3>1
    <2>4. CASE pc[h] = "free"
      <3>1. Left(h) = 3 + ToInsert(h)
        BY <2>4 DEF Left
      <3> QED BY <1>2, <1>3, <1>4, <2>4, <3>1
    <2>5. CASE pc[h] = "insert"
      <3>1. Left(h) = 2 + ToInsert(h)
        BY <2>5 DEF Left
      <3> QED BY <1>2, <1>3, <1>4, <2>5, <3>1
    <2>6. CASE pc[h] \in {"rival", "unequip", "drop"}
      <3>1. Left(h) = 4
        BY <2>6 DEF Left
      <3> QED BY <1>4, <2>6, <3>1
    <2>7. CASE pc[h] \in {"commit", "publish", "unlock"}
      <3>1. Left(h) = IF pc[h] = "commit" THEN 3 ELSE IF pc[h] = "publish" THEN 2 ELSE 1
        BY <2>7 DEF Left
      <3> QED BY <1>4, <2>7, <3>1
    <2> QED BY <1>1, <2>1, <2>2, <2>3, <2>4, <2>5, <2>6, <2>7 DEF Busy
  <1> QED BY <1>1, <1>2, <1>4, <1>5

\* Each step of the goroutine inside leaves it fewer.
LEMMA OwnStepCounts ==
  ASSUME XInv, RInv, NEW h \in Handlers, Holds(h), Handle(h)
  PROVE  Left(h)' < Left(h)
  <1>1. /\ cmd[h].step \in 1 .. 3 /\ pc[h] \in Busy /\ DOMAIN pc = Handlers
        /\ DOMAIN cmd = Handlers /\ cmd[h] \in Cmd /\ cmd[h].quantity \in Nat
        /\ \A r : ~RowLocked(h, r)
    BY Alone DEF XInv, RInv, Typed, Cmd, Busy, Holds
  <1>2. CASE pc'[h] = "unlock" /\ pc[h] # "unlock"
    BY <1>2, LeftIs DEF Left
  <1>3. CASE pc'[h] = "commit" /\ pc[h] \notin {"commit", "publish", "unlock"}
    BY <1>3, LeftIs DEF Left
  <1>4. (\E result : RollsBack(h, result)) => pc'[h] = "unlock"
    BY <1>1 DEF RollsBack, Goes
  <1>0. CASE Locate(h)
    <2>1. pc[h] = "locate"
      BY <1>0 DEF Locate
    <2>2. CASE ~\E result : RollsBack(h, result)
      <3>1. cmd' = cmd /\ pc' = [pc EXCEPT ![h] = IF cmd[h].op = "unequip" THEN "find" ELSE "free"]
        BY <1>0, <2>2 DEF Locate, Goes, locals
      <3>2. ToInsert(h)' = ToInsert(h) /\ ToInsert(h) \in Nat
        BY <3>1, LeftIs DEF ToInsert
      <3>3. CASE cmd[h].op = "unequip"
        BY <1>1, <2>1, <3>1, <3>3 DEF Left
      <3>4. CASE cmd[h].op # "unequip"
        <4>1. Left(h) = 4 + ToInsert(h) /\ pc'[h] = "free"
          BY <1>1, <2>1, <3>1, <3>4 DEF Left
        <4> QED BY <3>2, <4>1 DEF Left
      <3> QED BY <3>3, <3>4
    <2> QED BY <1>2, <1>4, <2>1, <2>2
  <1>5. CASE Find(h)
    <2>1. pc[h] = "find" /\ cmd[h].step = 1 /\ cmd[h].op \in {"equip", "unequip", "drop"}
      BY <1>5 DEF Find, RInv, At
    <2> DEFINE found == Selected(h, cmd[h].source)
    <2>2. \/ \E result : RollsBack(h, result)
          \/ /\ cmd[h].op = "equip"
             /\ cmd' = [cmd EXCEPT ![h].item = found.item,
                                   ![h].destination = Destination(found.item)]
             /\ pc' = [pc EXCEPT ![h] = "exchange"]
          \/ /\ cmd' = cmd /\ cmd[h].op \in {"unequip", "drop"}
             /\ pc' = [pc EXCEPT ![h] = IF cmd[h].op = "drop" THEN "drop" ELSE "free"]
      BY <1>5 DEF Find, Goes
    <2> HIDE DEF found
    <2>3. CASE /\ cmd[h].op = "equip"
               /\ cmd' = [cmd EXCEPT ![h].item = found.item,
                                     ![h].destination = Destination(found.item)]
               /\ pc' = [pc EXCEPT ![h] = "exchange"]
      <3>1. pc'[h] = "exchange" /\ cmd'[h].step = 1
        BY <1>1, <2>1, <2>3 DEF Cmd
      <3> QED BY <2>1, <2>3, <3>1 DEF Left
    <2>4. CASE /\ cmd' = cmd /\ cmd[h].op \in {"unequip", "drop"}
               /\ pc' = [pc EXCEPT ![h] = IF cmd[h].op = "drop" THEN "drop" ELSE "free"]
      <3>1. CASE cmd[h].op = "drop"
        BY <1>1, <2>1, <2>4, <3>1 DEF Left
      <3>2. CASE cmd[h].op = "unequip"
        BY <1>1, <2>1, <2>4, <3>2 DEF Left, ToInsert
      <3> QED BY <2>4, <3>1, <3>2
    <2> QED BY <1>2, <1>4, <2>1, <2>2, <2>3, <2>4
  <1>6. CASE Exchange(h)
    <2>1. /\ pc[h] = "exchange"
          /\ cmd' = [cmd EXCEPT ![h].step = IF @ < 3 THEN @ + 1 ELSE 1]
          /\ pc' = [pc EXCEPT ![h] = IF cmd[h].step < 3 THEN "exchange"
                                     ELSE IF cmd[h].op = "equip" THEN "locate" ELSE "commit"]
      BY <1>1, <1>6 DEF Exchange, WaitsForRow, Goes
    <2>2. /\ cmd'[h].step = IF cmd[h].step < 3 THEN cmd[h].step + 1 ELSE 1
          /\ cmd'[h].op = cmd[h].op
      BY <1>1, <2>1 DEF Cmd
    <2>3. CASE cmd[h].step < 3
      BY <1>1, <2>1, <2>2, <2>3 DEF Left
    <2>4. CASE cmd[h].step = 3 /\ cmd[h].op = "equip"
      <3>1. pc'[h] = "locate" /\ Left(h) = 7
        BY <1>1, <2>1, <2>4 DEF Left
      <3> QED BY <2>2, <2>4, <3>1 DEF Left, ToInsert
    <2>5. CASE cmd[h].step = 3 /\ cmd[h].op # "equip"
      BY <1>1, <1>3, <2>1, <2>5
    <2> QED BY <1>1, <2>3, <2>4, <2>5
  <1>7. CASE Free(h)
    <2>1. pc[h] = "free" /\ cmd' = cmd
      BY <1>7 DEF Free
    <2>2. pc'[h] = IF cmd[h].op = "create" THEN "insert"
                   ELSE IF cmd[h].op = "equip" THEN "rival" ELSE "unequip"
      BY <1>1, <1>7 DEF Free, Goes
    <2>3. ToInsert(h)' = ToInsert(h) /\ ToInsert(h) \in Nat /\ Left(h) = 3 + ToInsert(h)
      BY <2>1, LeftIs DEF ToInsert, Left
    <2>4. CASE cmd[h].op = "create"
      BY <2>2, <2>3, <2>4 DEF Left
    <2>5. CASE cmd[h].op # "create"
      <3>1. ToInsert(h) = 2 /\ pc'[h] \in {"rival", "unequip"}
        BY <2>2, <2>5 DEF ToInsert
      <3> QED BY <2>3, <3>1 DEF Left
    <2> QED BY <2>4, <2>5
  <1>8. CASE Rival(h) \/ Unequip(h) \/ Drop(h)
    <2>1. pc[h] \in {"rival", "unequip", "drop"}
      BY <1>8 DEF Rival, Unequip, Drop
    <2>2. pc'[h] \in {"unlock", "commit"}
      BY <1>1, <1>4, <1>8 DEF Rival, Unequip, Drop, WaitsForRow, Goes
    <2> QED BY <1>2, <1>3, <2>1, <2>2
  <1>13. CASE Insert(h)
    <2>1. pc[h] = "insert" /\ cmd[h].op = "create" /\ cmd[h].quantity > 0
      BY <1>13 DEF Insert, RInv, At, Remains, Builds
    <2>2. CASE ~RollsBack(h, "refused")
      <3>1. /\ cmd' = [cmd EXCEPT ![h].quantity = @ - 1]
            /\ pc' = [pc EXCEPT ![h] = IF cmd[h].quantity > 1 THEN "free" ELSE "commit"]
        BY <1>13, <2>2 DEF Insert, Goes
      <3>2. CASE cmd[h].quantity > 1
        <4>1. pc'[h] = "free" /\ cmd'[h].op = "create" /\ cmd'[h].quantity = cmd[h].quantity - 1
          BY <1>1, <2>1, <3>1, <3>2 DEF Cmd
        <4>2. Left(h) = 2 + 2 * cmd[h].quantity
          BY <2>1 DEF Left, ToInsert
        <4>3. Left(h)' = 3 + 2 * (cmd[h].quantity - 1)
          BY <4>1 DEF Left, ToInsert
        <4> QED BY <1>1, <4>2, <4>3
      <3>3. CASE ~(cmd[h].quantity > 1)
        BY <1>1, <1>3, <2>1, <3>1, <3>3
      <3> QED BY <3>2, <3>3
    <2> QED BY <1>2, <1>4, <2>1, <2>2
  <1>9. CASE Commit(h)
    BY <1>1, <1>9 DEF Commit, Goes, Left
  <1>10. CASE Publish(h)
    BY <1>1, <1>10 DEF Publish, Goes, Left
  <1>11. CASE Unlock(h)
    BY <1>1, <1>11 DEF Unlock, Goes, Left
  <1>12. CASE Fail(h)
    <2>1. pc'[h] = "unlock" /\ pc[h] # "unlock"
      BY <1>1, <1>12 DEF Fail, Inside, Goes
    <2> QED BY <1>2, <2>1
  <1> QED BY <1>0, <1>5, <1>6, <1>7, <1>8, <1>9, <1>10, <1>11, <1>12, <1>13
          DEF Handle, Step, Receive, Lock, Holds

\* Nobody else's step leaves it more.
LEMMA OthersStepKeeps ==
  ASSUME XInv, RInv, NEW h \in Handlers, NEW g \in Handlers, g # h, Holds(h), Handle(g)
  PROVE  Left(h)' = Left(h)
  <1>1. pc[g] \in {"idle", "lock"}
    BY Alone DEF RInv
  <1>2. ~Lock(g)
    BY LocksGives DEF Lock, XInv, Txs
  <1>3. Receive(g)
    BY <1>1, <1>2 DEF Handle, Step, Locate, Find, Exchange, Free, Rival, Unequip, Drop, Insert,
                      Commit, Publish, Unlock, Fail, Inside
  <1>4. pc'[h] = pc[h] /\ cmd' = cmd
    BY <1>3 DEF Receive, Goes, locals, XInv
  <1> QED BY <1>4 DEF Left, ToInsert

\* CommandsFinish but for the scheduling: a goroutine that has the mutex is at
\* most ten of its own steps, and two more for each unit it has still to create,
\* from the Unlock, and nothing that anybody else does makes them more.
THEOREM HoldersFinish ==
  Spec => [][\A h \in Handlers : Holds(h) =>
               /\ Left(h) \in 1 .. Most(h) /\ Left(h)' <= Left(h)
               /\ Handle(h) => Left(h)' < Left(h)]_vars
  <1>1. XInv /\ RInv /\ [Next]_vars =>
          [\A h \in Handlers : Holds(h) =>
             /\ Left(h) \in 1 .. Most(h) /\ Left(h)' <= Left(h)
             /\ Handle(h) => Left(h)' < Left(h)]_vars
    <2> SUFFICES ASSUME XInv, RInv, Next, NEW h \in Handlers, Holds(h)
                 PROVE  /\ Left(h) \in 1 .. Most(h) /\ Left(h)' <= Left(h)
                        /\ Handle(h) => Left(h)' < Left(h)
      OBVIOUS
    <2>2. Left(h) \in 1 .. Most(h) /\ Left(h) \in Int /\ Left(h) >= 1
      BY LeftIs
    <2>3. Handle(h) => Left(h)' < Left(h)
      BY OwnStepCounts
    <2>4. CASE Crash
      <3>1. Left(h)' = 0
        BY <2>4 DEF Crash, Left
      <3> QED BY <2>2, <2>3, <3>1
    <2>5. CASE Handle(h)
      <3>1. XInv' /\ RInv'
        BY NextX, NextR
      <3>2. cmd'[h].step \in 1 .. 3 /\ cmd'[h].quantity \in Nat
        BY <3>1 DEF RInv, Typed, Cmd
      <3>3. Left(h)' \in Int
        BY <3>2 DEF Left, ToInsert
      <3> QED BY <2>2, <2>3, <2>5, <3>3
    <2>6. ASSUME NEW g \in Handlers, g # h, Handle(g) PROVE Left(h)' = Left(h)
      BY <2>6, OthersStepKeeps
    <2> QED BY <2>2, <2>3, <2>4, <2>5, <2>6 DEF Next
  <1> QED BY <1>1, LockInvariant, RefinementInvariant, PTL DEF Spec

-----------------------------------------------------------------------------
(***************************************************************************)
(* The deletion of a character takes part in the mutual exclusion of the   *)
(* commands, for any number of goroutines, until the registry has dropped  *)
(* the mutex.                                                              *)
(***************************************************************************)

\* The deletion has the stored mutex from GetById on, and owns it in the bag.
HasMutex ==
  /\ dpc \in {"lock", "bag"} => mutexOf[deleter] = registry /\ registry # 0
  /\ dpc = "bag" => owner[registry] = deleter

DInv == unregistered \/ (XInv /\ HasMutex)

LEMMA Names ==
  ASSUME OneDeletion
  PROVE  /\ deleter \in Txs /\ deleter \notin Handlers /\ deleter # Nobody
         /\ Txs = Handlers \cup {deleter}
  BY ServiceAssumption DEF OneDeletion, Txs

LEMMA InitDInv == InitD => DInv
  BY InitX DEF InitD, DInv, HasMutex

LEMMA QuietX == XInv /\ UNCHANGED <<memory, pc>> => XInv'
  BY DEF XInv, memory, Holds

\* A goroutine neither takes the mutex of the deletion away nor unlocks it.
LEMMA HandleSparesDeleter ==
  ASSUME OneDeletion, XInv, NEW h \in Handlers, Handle(h)
  PROVE  /\ mutexOf'[deleter] = mutexOf[deleter]
         /\ registry # 0 => /\ registry' = registry
                            /\ owner[registry] = deleter => owner'[registry] = deleter
  <1>1. h \in Txs /\ h # deleter
    BY Names
  <1>2. CASE Receive(h)
    <2>1. GetById(h)
      BY <1>2 DEF Receive
    <2> QED BY <1>1, <2>1, Names, GetByIdGives
  <1>3. CASE Lock(h)
    <2>1. Locks(h) /\ mutexOf[h] = registry /\ registry # 0
      BY <1>3 DEF Lock, XInv
    <2> QED BY <1>1, <2>1, Names, LocksGives
  <1>4. CASE Unlock(h)
    <2>1. Unlocks(h) /\ mutexOf[h] = registry /\ registry # 0 /\ owner[registry] = h
      BY <1>4 DEF Unlock, Holds, XInv, Goes
    <2> QED BY <1>1, <2>1, Names, UnlocksGives DEF XInv
  <1>5. CASE Works(h)
    BY <1>5 DEF Works, memory
  <1> QED BY <1>2, <1>3, <1>4, <1>5, InsideWorks DEF Handle, Step

\* A step of a goroutine that leaves the deletion alone.
LEMMA HandleKeeps ==
  ASSUME OneDeletion, XInv, HasMutex, NEW h \in Handlers, Handle(h), UNCHANGED dvars
  PROVE  (XInv /\ HasMutex)'
  <1>1. XInv'
    BY NextX DEF Next
  <1> QED BY <1>1, HandleSparesDeleter DEF HasMutex, dvars

\* One lemma for each step of the deletion that touches the mutex.
LEMMA GetLockKeeps ==
  ASSUME OneDeletion, XInv, GetLock
  PROVE  (XInv /\ HasMutex)'
  <1>1. GetById(deleter) /\ dpc' = "lock" /\ pc' = pc
    BY DEF GetLock, Becomes
  <1>2. \A h \in Handlers : h \in Txs \ {deleter}
    BY Names
  <1>3. XInv'
    BY <1>1, <1>2, Names, GetByIdGives DEF XInv, Holds
  <1> QED BY <1>1, <1>3, Names, GetByIdGives DEF HasMutex

LEMMA LockBagKeeps ==
  ASSUME OneDeletion, XInv, HasMutex, LockBag
  PROVE  (XInv /\ HasMutex)'
  <1>1. /\ Locks(deleter) /\ dpc' = "bag" /\ pc' = pc
        /\ mutexOf[deleter] = registry /\ registry # 0
    BY DEF LockBag, Becomes, HasMutex
  <1>2. XInv'
    BY <1>1, Names, LocksGives DEF XInv, Holds
  <1> QED BY <1>1, <1>2, Names, LocksGives DEF HasMutex, XInv

LEMMA UnlockBagKeeps ==
  ASSUME OneDeletion, XInv, HasMutex, UnlockBag
  PROVE  (XInv /\ HasMutex)'
  <1>1. /\ Unlocks(deleter) /\ dpc' = "unregister" /\ pc' = pc
        /\ mutexOf[deleter] = registry /\ registry # 0 /\ owner[registry] = deleter
    BY DEF UnlockBag, Becomes, HasMutex
  <1>2. \A h \in Handlers : ~Holds(h) /\ ~Holds(h)'
    BY <1>1, Names, UnlocksGives DEF Holds
  <1>3. XInv'
    BY <1>1, <1>2, Names, UnlocksGives DEF XInv
  <1> QED BY <1>1, <1>3 DEF HasMutex

LEMMA FailDeleteKeeps ==
  ASSUME OneDeletion, XInv, FailDelete
  PROVE  (XInv /\ HasMutex)'
  <1>1. /\ owner' = [m \in Mutexes |-> IF owner[m] = deleter THEN Nobody ELSE owner[m]]
        /\ mutexOf' = [mutexOf EXCEPT ![deleter] = 0]
        /\ registry' = registry /\ pc' = pc /\ dpc' = "idle"
    BY DEF FailDelete, Becomes
  <1>2. \A h \in Handlers : Holds(h) => owner[registry] = h /\ registry \in Mutexes
    BY DEF XInv, Holds
  <1>3. XInv'
    BY <1>1, <1>2, Names DEF XInv, Holds
  <1> QED BY <1>1, <1>3 DEF HasMutex

\* Only the end of the process forgets that a mutex was dropped, and then
\* nothing of the old registry is left.
LEMMA NextDKeeps ==
  ASSUME OneDeletion
  PROVE  DInv /\ [NextD]_allVars => DInv'
  <1> SUFFICES ASSUME DInv, [NextD]_allVars PROVE DInv'
    OBVIOUS
  <1>1. CASE CrashD
    BY <1>1, CrashX DEF CrashD, DInv, HasMutex
  <1>2. CASE unregistered /\ ~CrashD
    <2>1. unregistered'
      BY <1>2 DEF NextD, Progress, allVars, dvars, ReadBag, ReadWorn, DeleteWorn,
                  DeletesRow, GetLock, LockBag, DeleteBag, UnlockBag, Unregister,
                  CommitDelete, FailDelete, BreaksCycle
    <2> QED BY <2>1 DEF DInv
  <1>3. CASE ~unregistered /\ ~CrashD
    <2>1. XInv /\ HasMutex
      BY <1>3 DEF DInv
    <2>2. CASE UNCHANGED allVars
      BY <2>1, <2>2, QuietX DEF allVars, vars, dvars, memory, HasMutex, DInv
    <2>3. CASE \E h \in Handlers : Handle(h) /\ UNCHANGED dvars
      BY <2>1, <2>3, HandleKeeps DEF DInv
    <2>4. CASE ReadBag \/ ReadWorn
      <3>1. UNCHANGED <<memory, pc>> /\ dpc' \in {"read", "worn"}
        BY <2>4 DEF ReadBag, ReadWorn, Becomes, vars
      <3> QED BY <2>1, <3>1, QuietX DEF HasMutex, DInv
    <2>5. CASE DeleteWorn \/ DeleteBag
      <3>1. UNCHANGED <<memory, pc>> /\ dpc' = dpc
        BY <2>5 DEF DeleteWorn, DeleteBag, DeletesRow
      <3> QED BY <2>1, <3>1, QuietX DEF HasMutex, DInv, memory
    <2>6. CASE GetLock
      BY <2>1, <2>6, GetLockKeeps DEF DInv
    <2>7. CASE LockBag
      BY <2>1, <2>7, LockBagKeeps DEF DInv
    <2>8. CASE UnlockBag
      BY <2>1, <2>8, UnlockBagKeeps DEF DInv
    <2>9. CASE Unregister
      BY <2>9 DEF Unregister, DInv
    <2>10. CASE CommitDelete
      <3>1. UNCHANGED <<memory, pc>> /\ dpc' = "idle"
        BY <2>10 DEF CommitDelete, Becomes
      <3> QED BY <2>1, <3>1, QuietX DEF HasMutex, DInv
    <2>11. CASE FailDelete
      BY <2>1, <2>11, FailDeleteKeeps DEF DInv
    <2> QED BY <1>3, <2>2, <2>3, <2>4, <2>5, <2>6, <2>7, <2>8, <2>9, <2>10, <2>11
            DEF NextD, Progress, BreaksCycle, Handle
  <1> QED BY <1>1, <1>2, <1>3

\* The mutex of the deletion is the one the commands use, while none was
\* taken out of the registry.
THEOREM DeletionInvariant ==
  ASSUME OneDeletion
  PROVE  SpecD => []DInv
  BY InitDInv, NextDKeeps, PTL DEF SpecD

\* The deletion and the commands exclude one another until DeleteForCharacter:
\* from then on, a second mutex may be in use (InventoryDelete.
\* ExclusionUntilUnregistered).
THEOREM DeletionExcludes ==
  ASSUME OneDeletion
  PROVE  SpecD => []ExclusionUntilUnregistered
  <1>1. DInv => ExclusionUntilUnregistered
    BY Names DEF DInv, XInv, HasMutex, ExclusionUntilUnregistered, HoldsD
  <1> QED BY <1>1, DeletionInvariant, PTL

-----------------------------------------------------------------------------
(***************************************************************************)
(* The rows.  Nothing here needs the mutex: the row locks of the database  *)
(* and a WHERE that finds no row are enough for a deleted row to stay so.  *)
(***************************************************************************)

\* A row a transaction has written is no other transaction's, and was not
\* deleted under it: a row that is born and gone is in nobody's writes.
RowsInv ==
  /\ seq \in Nat \ {0} /\ DOMAIN writes = Txs
  /\ DOMAIN table \subseteq 1 .. seq - 1 /\ born \subseteq 1 .. seq - 1
  /\ \A t \in Txs : \A r \in DOMAIN writes[t] :
       /\ r \in 1 .. seq - 1
       /\ r \in born => r \in DOMAIN table
       /\ ~RowLocked(t, r)

Rows == <<table, born, seq, writes>>

\* The four things a step does to the rows.
Undoes(t) == writes' = [writes EXCEPT ![t] = <<>>] /\ UNCHANGED <<table, born, seq>>

WritesOne(t) ==
  /\ \E r, row : ~RowLocked(t, r) /\ WritesRow(t, r, row)
  /\ UNCHANGED <<table, born, seq>>

InsertsOne(t) == /\ \E row : UpsertsRow(t, seq, row)
                 /\ seq' = seq + 1 /\ UNCHANGED <<table, born>>

TouchesRows(t) ==
  UNCHANGED Rows \/ Undoes(t) \/ WritesOne(t) \/ InsertsOne(t)
  \/ (Commits(t) /\ UNCHANGED seq)

LEMMA LiveRows ==
  ASSUME NEW t
  PROVE  \A r : r \in DOMAIN View(t) <=>
           /\ r \in DOMAIN table \/ r \in DOMAIN writes[t]
           /\ ~(r \in DOMAIN writes[t] /\ writes[t][r] = Gone)
  BY DEF View

LEMMA UndoKeeps ==
  ASSUME RowsInv, NEW t \in Txs, Undoes(t)
  PROVE  RowsInv'
  BY DEF RowsInv, Undoes, RowLocked

LEMMA WrittenDomain ==
  ASSUME NEW w, NEW r, NEW row
  PROVE  \A x : x \in DOMAIN Written(w, r, row) <=> x \in DOMAIN w \/ x = r
  BY DEF Written

LEMMA UpsertWrites ==
  ASSUME DOMAIN writes = Txs, NEW t \in Txs, NEW r, NEW row, UpsertsRow(t, r, row)
  PROVE  /\ DOMAIN writes' = Txs
         /\ \A x : x \in DOMAIN writes'[t] <=> x \in DOMAIN writes[t] \/ x = r
         /\ \A u \in Txs : u # t => writes'[u] = writes[u]
  <1>1. writes' = [writes EXCEPT ![t] = Written(writes[t], r, row)]
    BY DEF UpsertsRow
  <1>2. writes'[t] = Written(writes[t], r, row)
    BY <1>1
  <1> QED BY <1>1, <1>2, WrittenDomain

LEMMA WriteRowKeeps ==
  ASSUME RowsInv, NEW t \in Txs, WritesOne(t)
  PROVE  RowsInv'
  <1>1. PICK r : \E row : ~RowLocked(t, r) /\ WritesRow(t, r, row)
    BY DEF WritesOne
  <1>2. PICK row : ~RowLocked(t, r) /\ WritesRow(t, r, row)
    BY <1>1
  <1>3. UNCHANGED <<table, born, seq>>
    BY DEF WritesOne
  <1>4. CASE r \notin DOMAIN View(t)
    BY <1>2, <1>3, <1>4 DEF WritesRow, RowsInv, RowLocked
  <1>5. CASE r \in DOMAIN View(t)
    <2>1. UpsertsRow(t, r, row)
      BY <1>2, <1>5 DEF WritesRow
    <2>2. r \in 1 .. seq - 1 /\ (r \in born => r \in DOMAIN table)
      BY <1>5, LiveRows DEF RowsInv
    <2> QED BY <1>2, <1>3, <2>1, <2>2, UpsertWrites DEF RowsInv, RowLocked
  <1> QED BY <1>4, <1>5

LEMMA InsertRowKeeps ==
  ASSUME RowsInv, NEW t \in Txs, InsertsOne(t)
  PROVE  RowsInv'
  <1>1. PICK row : UpsertsRow(t, seq, row)
    BY DEF InsertsOne
  <1>2. seq' = seq + 1 /\ UNCHANGED <<table, born>>
    BY DEF InsertsOne
  <1>3. \A u \in Txs : seq \notin DOMAIN writes[u]
    BY DEF RowsInv
  <1>4. seq \notin born
    BY DEF RowsInv
  <1> QED BY <1>1, <1>2, <1>3, <1>4, UpsertWrites DEF RowsInv, RowLocked

LEMMA CommitRowKeeps ==
  ASSUME RowsInv, NEW t \in Txs, Commits(t), UNCHANGED seq
  PROVE  /\ RowsInv'
         /\ \A r \in born : r \notin DOMAIN table => r \notin DOMAIN table'
  <1>1. DOMAIN table' = DOMAIN View(t) /\ born' = born \cup DOMAIN View(t)
    BY DEF Commits
  <1>2. /\ DOMAIN writes' = Txs /\ writes'[t] = <<>>
        /\ \A u \in Txs : u # t => writes'[u] = writes[u]
    BY DEF Commits, RowsInv
  <1>3. \A r : r \notin DOMAIN writes'[t]
    BY <1>2
  <1>4. DOMAIN View(t) \subseteq 1 .. seq - 1
    BY LiveRows DEF RowsInv
  <1>5. \A r \in born : r \notin DOMAIN table => r \notin DOMAIN View(t)
    BY LiveRows DEF RowsInv
  <1>6. ASSUME NEW u \in Txs, NEW r \in DOMAIN writes'[u]
        PROVE  /\ r \in 1 .. seq - 1
               /\ r \in born' => r \in DOMAIN table'
               /\ ~RowLocked(u, r)'
    <2>1. u # t /\ r \in DOMAIN writes[u]
      BY <1>2, <1>3, <1>6
    <2>2. /\ r \in 1 .. seq - 1 /\ (r \in born => r \in DOMAIN table)
          /\ ~RowLocked(u, r)
      BY <2>1 DEF RowsInv
    <2>3. r \notin DOMAIN writes[t]
      BY <2>1, <2>2 DEF RowLocked
    <2>4. r \in born' => r \in DOMAIN table'
      BY <1>1, <2>2, <2>3, LiveRows
    <2>5. ~RowLocked(u, r)'
      BY <1>2, <1>3, <2>2 DEF RowLocked
    <2> QED BY <2>2, <2>4, <2>5
  <1>7. DOMAIN table' \subseteq 1 .. seq' - 1 /\ born' \subseteq 1 .. seq' - 1
    BY <1>1, <1>4 DEF RowsInv
  <1>8. RowsInv'
    BY <1>2, <1>6, <1>7 DEF RowsInv
  <1> QED BY <1>1, <1>5, <1>8

LEMMA TouchKeeps ==
  ASSUME RowsInv, NEW t \in Txs, TouchesRows(t)
  PROVE  /\ RowsInv'
         /\ \A r \in born : r \notin DOMAIN table => r \notin DOMAIN table'
         /\ seq' >= seq
  <1>1. CASE UNCHANGED Rows
    BY <1>1 DEF Rows, RowsInv, RowLocked
  <1>2. CASE Undoes(t)
    <2>1. RowsInv'
      BY <1>2, UndoKeeps
    <2> QED BY <1>2, <2>1 DEF Undoes, RowsInv
  <1>3. CASE WritesOne(t)
    BY <1>3, WriteRowKeeps DEF WritesOne, RowsInv
  <1>4. CASE InsertsOne(t)
    BY <1>4, InsertRowKeeps DEF InsertsOne, RowsInv
  <1>5. CASE Commits(t) /\ UNCHANGED seq
    BY <1>5, CommitRowKeeps DEF RowsInv
  <1> QED BY <1>1, <1>2, <1>3, <1>4, <1>5 DEF TouchesRows

\* Each step of a goroutine is one of the four, or leaves the rows alone.
LEMMA MoveTouches ==
  ASSUME NEW h, NEW s, NEW d, Moves(h, s, d), UNCHANGED <<table, born, seq>>
  PROVE  TouchesRows(h)
  BY DEF Moves, TouchesRows, WritesOne

LEMMA RollBackTouches ==
  ASSUME NEW h, NEW result, RollsBack(h, result)
  PROVE  TouchesRows(h)
  BY DEF RollsBack, TouchesRows, Undoes

LEMMA HandleTouches ==
  ASSUME NEW h \in Handlers, Handle(h)
  PROVE  TouchesRows(h)
  <1>1. CASE Receive(h) \/ Lock(h) \/ Publish(h) \/ Unlock(h)
    BY <1>1 DEF Receive, Lock, Publish, Unlock, TouchesRows, Rows, store
  <1>11. CASE Locate(h)
    <2>1. CASE UNCHANGED <<store, writes>>
      BY <2>1 DEF TouchesRows, Rows, store
    <2>2. CASE \E result : RollsBack(h, result)
      BY <2>2, RollBackTouches
    <2> QED BY <1>11, <2>1, <2>2 DEF Locate
  <1>2. CASE Find(h)
    <2>1. CASE UNCHANGED <<store, writes>>
      BY <2>1 DEF TouchesRows, Rows, store
    <2>2. CASE \E result : RollsBack(h, result)
      BY <2>2, RollBackTouches
    <2> QED BY <1>2, <2>1, <2>2 DEF Find
  <1>3. CASE Exchange(h)
    <2>1. CASE UNCHANGED <<store, writes>>
      BY <2>1 DEF TouchesRows, Rows, store
    <2>2. CASE (\E s, d : Moves(h, s, d)) /\ UNCHANGED store
      BY <2>2, MoveTouches DEF store
    <2> QED BY <1>3, <2>1, <2>2 DEF Exchange, WaitsForRow
  <1>4. CASE Free(h)
    BY <1>4 DEF Free, TouchesRows, Rows, store
  <1>5. CASE Rival(h)
    <2>1. CASE UNCHANGED <<store, writes>>
      BY <2>1 DEF TouchesRows, Rows, store
    <2>2. CASE (\E s, d : Moves(h, s, d)) /\ UNCHANGED store
      BY <2>2, MoveTouches DEF store
    <2>3. CASE \E result : RollsBack(h, result)
      BY <2>3, RollBackTouches
    <2> QED BY <1>5, <2>1, <2>2, <2>3 DEF Rival, WaitsForRow
  <1>6. CASE Unequip(h)
    <2>1. CASE RollsBack(h, "absent")
      BY <2>1, RollBackTouches
    <2>2. CASE ~RollsBack(h, "absent")
      BY <1>6, <2>2, MoveTouches DEF Unequip, store
    <2> QED BY <2>1, <2>2
  <1>7. CASE Drop(h)
    BY <1>7 DEF Drop, TouchesRows, WritesOne, store
  <1>8. CASE Insert(h)
    <2>1. CASE RollsBack(h, "refused")
      BY <2>1, RollBackTouches
    <2>2. CASE InsertsOne(h)
      BY <2>2 DEF TouchesRows
    <2> QED BY <1>8, <2>1, <2>2 DEF Insert, InsertsOne
  <1>9. CASE Commit(h)
    BY <1>9 DEF Commit, TouchesRows
  <1>10. CASE Fail(h)
    BY <1>10 DEF Fail, TouchesRows, Undoes, store
  <1> QED BY <1>1, <1>2, <1>3, <1>4, <1>5, <1>6, <1>7, <1>8, <1>9, <1>10, <1>11 DEF Handle, Step

LEMMA DeletionTouches ==
  ASSUME ReadBag \/ ReadWorn \/ DeleteWorn \/ GetLock \/ LockBag \/ DeleteBag
         \/ UnlockBag \/ Unregister \/ CommitDelete \/ FailDelete
  PROVE  TouchesRows(deleter)
  <1>1. CASE ReadBag \/ ReadWorn \/ GetLock \/ LockBag \/ UnlockBag \/ Unregister
    BY <1>1 DEF ReadBag, ReadWorn, GetLock, LockBag, UnlockBag, Unregister,
                TouchesRows, Rows, vars, store
  <1>2. CASE DeleteWorn \/ DeleteBag
    BY <1>2 DEF DeleteWorn, DeleteBag, DeletesRow, TouchesRows, WritesOne, store
  <1>3. CASE CommitDelete
    BY <1>3 DEF CommitDelete, TouchesRows
  <1>4. CASE FailDelete
    BY <1>4 DEF FailDelete, TouchesRows, Undoes, store
  <1> QED BY <1>1, <1>2, <1>3, <1>4

LEMMA InitRows == InitD => RowsInv
  BY DEF InitD, Init, RowsInv, RowLocked

LEMMA NextRows ==
  ASSUME OneDeletion, RowsInv, [NextD]_allVars
  PROVE  /\ RowsInv'
         /\ \A r \in born : r \notin DOMAIN table => r \notin DOMAIN table'
         /\ seq' >= seq
  <1>1. CASE UNCHANGED allVars
    BY <1>1 DEF allVars, vars, store, RowsInv, RowLocked
  <1>2. CASE CrashD
    BY <1>2 DEF CrashD, Crash, store, RowsInv, RowLocked
  <1>3. CASE \E t \in Txs : TouchesRows(t)
    BY <1>3, TouchKeeps
  <1> QED BY <1>1, <1>2, <1>3, Names, HandleTouches, DeletionTouches
          DEF NextD, Progress, BreaksCycle, Handle

\* Only rows that were inserted and committed, once each, are in the table.
THEOREM RowsInvariant ==
  ASSUME OneDeletion
  PROVE  SpecD => []RowsInv
  <1>1. RowsInv /\ [NextD]_allVars => RowsInv'
    BY NextRows
  <1> QED BY InitRows, <1>1, PTL DEF SpecD

\* A row that was committed and is gone does not come back, although a command
\* found it before the deletion and writes it after: its UPDATE finds no row
\* (InventoryDelete.DeletedStaysDeleted).
THEOREM DeletedForGood ==
  ASSUME OneDeletion
  PROVE  SpecD => DeletedStaysDeleted
  <1>1. RowsInv /\ [NextD]_allVars =>
          [\A r \in 1 .. seq - 1 :
             r \in born /\ r \notin DOMAIN table => r \notin DOMAIN table']_allVars
    BY NextRows
  <1> QED BY <1>1, RowsInvariant, PTL DEF SpecD, DeletedStaysDeleted

-----------------------------------------------------------------------------
(***************************************************************************)
(* What the deletion owns and what it has read.                            *)
(***************************************************************************)

Stages == {"idle", "read", "worn", "lock", "bag", "unregister", "commit"}

\* The deletion owns at most the mutex it got, and only in the bag.  Nothing is
\* claimed of the commands' mutexes once one was dropped from the registry, but
\* by then the deletion is past the bag.
OwnsInv ==
  /\ dpc \in Stages /\ unregistered \in BOOLEAN
  /\ unregistered => dpc \in {"idle", "commit"}
  /\ DOMAIN owner = Mutexes /\ DOMAIN mutexOf = Txs
  /\ \A m \in Mutexes : owner[m] = deleter => dpc = "bag" /\ m = mutexOf[deleter]

Snapshot == bag \cup worn \subseteq 1 .. seq - 1

LEMMA InitOwns ==
  ASSUME OneDeletion
  PROVE  InitD => OwnsInv /\ Snapshot
  BY Names DEF InitD, Init, OwnsInv, Stages, Snapshot

\* No step of a goroutine makes the deletion an owner.
LEMMA HandleOwner ==
  ASSUME OneDeletion, NEW h \in Handlers, Handle(h),
         DOMAIN owner = Mutexes, DOMAIN mutexOf = Txs
  PROVE  /\ DOMAIN owner' = Mutexes /\ DOMAIN mutexOf' = Txs
         /\ \A m \in Mutexes : owner'[m] = deleter => owner[m] = deleter
         /\ mutexOf'[deleter] = mutexOf[deleter]
  <1>1. h # deleter /\ deleter # Nobody /\ deleter \in Txs
    BY Names
  <1>2. CASE Receive(h)
    BY <1>1, <1>2 DEF Receive, GetById
  <1>3. CASE Lock(h)
    BY <1>1, <1>3 DEF Lock, Locks
  <1>4. CASE Unlock(h)
    BY <1>1, <1>4 DEF Unlock, Unlocks
  <1>5. CASE UNCHANGED <<owner, mutexOf>>
    BY <1>5
  <1>6. Handle(h) => Receive(h) \/ Lock(h) \/ Unlock(h) \/ UNCHANGED <<owner, mutexOf>>
    BY DEF Handle, Step, Locate, Find, Exchange, Free, Rival, Unequip, Drop, Insert, Commit,
           Publish, Fail, RollsBack, WaitsForRow, memory, KeepsLock
  <1> QED BY <1>2, <1>3, <1>4, <1>5, <1>6

LEMMA HandleOwns ==
  ASSUME OneDeletion, OwnsInv, NEW h \in Handlers, Handle(h), UNCHANGED dvars
  PROVE  OwnsInv'
  <1>1. /\ DOMAIN owner' = Mutexes /\ DOMAIN mutexOf' = Txs
        /\ \A m \in Mutexes : owner'[m] = deleter => owner[m] = deleter
        /\ mutexOf'[deleter] = mutexOf[deleter]
    BY HandleOwner DEF OwnsInv
  <1> QED BY <1>1 DEF OwnsInv, dvars

LEMMA NextOwns ==
  ASSUME OneDeletion, OwnsInv, DInv, [NextD]_allVars
  PROVE  OwnsInv'
  <1>1. CASE UNCHANGED allVars
    BY <1>1 DEF allVars, vars, memory, dvars, OwnsInv
  <1>2. CASE CrashD
    BY <1>2, Names DEF CrashD, Crash, OwnsInv, Stages
  <1>3. CASE \E h \in Handlers : Handle(h) /\ UNCHANGED dvars
    BY <1>3, HandleOwns
  <1>4. CASE ReadBag \/ ReadWorn \/ DeleteWorn \/ DeleteBag
    BY <1>4 DEF ReadBag, ReadWorn, DeleteWorn, DeleteBag, DeletesRow, Becomes, vars,
                memory, OwnsInv, Stages
  <1>5. CASE GetLock
    BY <1>5 DEF GetLock, GetById, Becomes, OwnsInv, Stages
  <1>6. CASE LockBag
    BY <1>6 DEF LockBag, Locks, LockFree, Becomes, OwnsInv, Stages
  <1>7. CASE UnlockBag
    BY <1>7, Names DEF UnlockBag, Unlocks, Becomes, OwnsInv, Stages
  <1>8. CASE Unregister
    BY <1>8 DEF Unregister, Becomes, OwnsInv, Stages
  <1>9. CASE CommitDelete
    BY <1>9 DEF CommitDelete, memory, Becomes, OwnsInv, Stages
  <1>10. CASE FailDelete
    BY <1>10, Names DEF FailDelete, Becomes, OwnsInv, Stages
  <1> QED BY <1>1, <1>2, <1>3, <1>4, <1>5, <1>6, <1>7, <1>8, <1>9, <1>10
          DEF NextD, Progress, BreaksCycle, Handle

LEMMA NextSnapshot ==
  ASSUME OneDeletion, RowsInv, Snapshot, [NextD]_allVars
  PROVE  Snapshot'
  <1>1. seq \in Nat /\ seq' \in Nat /\ seq' >= seq
    BY NextRows DEF RowsInv
  <1>2. bag' \cup worn' \subseteq bag \cup worn \cup DOMAIN table
    BY DEF NextD, Progress, BreaksCycle, allVars, dvars, CrashD, ReadBag, ReadWorn,
           DeleteWorn, GetLock, LockBag, DeleteBag, UnlockBag, Unregister, CommitDelete,
           FailDelete
  <1> QED BY <1>1, <1>2 DEF Snapshot, RowsInv

\* The deletion owns a mutex exactly while it goes through the bag, whatever
\* became of the registry, and works on rows that exist or existed
\* (InventoryDelete.DTypeOK).
THEOREM DeletionTypes ==
  ASSUME OneDeletion
  PROVE  SpecD => []DTypeOK
  <1>1. OwnsInv /\ DInv /\ [NextD]_allVars => OwnsInv'
    BY NextOwns
  <1>2. RowsInv /\ Snapshot /\ [NextD]_allVars => Snapshot'
    BY NextSnapshot
  <1>3. OwnsInv /\ DInv /\ Snapshot => DTypeOK
    BY DEF OwnsInv, DInv, HasMutex, XInv, Snapshot, DTypeOK, Stages
  <1> QED BY <1>1, <1>2, <1>3, InitOwns, RowsInvariant, DeletionInvariant, PTL DEF SpecD

-----------------------------------------------------------------------------
(***************************************************************************)
(* Who can hang.  Whatever became of the registry, a mutex belongs to the  *)
(* one goroutine that is inside with it, at most two mutexes are in use,   *)
(* and only a transaction that is under way has written a row.             *)
(***************************************************************************)

WaitInv ==
  /\ registry \in Mutexes \cup {0}
  /\ owner \in [Mutexes -> Txs \cup {Nobody}]
  /\ mutexOf \in [Txs -> Mutexes \cup {0}]
  /\ pc \in [Handlers -> {"idle", "lock"} \cup Busy]
  /\ \A h \in Handlers : pc[h] # "idle" => mutexOf[h] \in Mutexes
  /\ \A h \in Handlers : Holds(h) => owner[mutexOf[h]] = h
  /\ \A h \in Handlers, m \in Mutexes : owner[m] = h => Holds(h) /\ mutexOf[h] = m

\* The mutex that was dropped, and the one that is stored.
TwoMutexes == \E old \in Mutexes : \A t \in Txs : mutexOf[t] \in {0, old, registry}

WritersInv ==
  /\ DOMAIN writes = Txs
  /\ \A h \in Handlers : DOMAIN writes[h] = {} \/ Inside(h)
  /\ dpc = "idle" => DOMAIN writes[deleter] = {}

\* There is a mutex for everybody, and one more.
LEMMA AnotherMutex ==
  ASSUME OneDeletion
  PROVE  {1, 2} \subseteq Mutexes
  <1>1. IsFiniteSet(Txs)
    BY ServiceAssumption, FS_Union DEF Txs
  <1>2. Cardinality(Txs) \in Nat
    BY <1>1, FS_CardinalityType
  <1>3. Cardinality(Txs) # 0
    BY <1>1, FS_EmptySet, Names
  <1> QED BY <1>2, <1>3 DEF Mutexes

LEMMA InitWaits ==
  ASSUME OneDeletion
  PROVE  InitD => WaitInv /\ TwoMutexes /\ WritersInv
  <1> SUFFICES ASSUME InitD PROVE WaitInv /\ TwoMutexes /\ WritersInv
    OBVIOUS
  <1>1. \A h \in Handlers : h # Nobody
    BY ServiceAssumption
  <1>2. WaitInv
    BY <1>1 DEF InitD, Init, WaitInv, Holds
  <1>3. TwoMutexes
    BY SomeMutex DEF InitD, Init, TwoMutexes
  <1>4. WritersInv
    BY Names DEF InitD, Init, WritersInv
  <1> QED BY <1>2, <1>3, <1>4

\* Who asks gets the stored mutex, and stores one nobody has if there is none.
LEMMA GetByIdWaits ==
  ASSUME OneDeletion, WaitInv, TwoMutexes, OwnsInv, NEW t \in Txs, GetById(t)
  PROVE  /\ registry' \in Mutexes /\ owner' = owner
         /\ mutexOf' = [mutexOf EXCEPT ![t] = registry']
         /\ TwoMutexes'
  <1>1. registry' = LoadOrStore /\ mutexOf' = [mutexOf EXCEPT ![t] = LoadOrStore] /\ owner' = owner
    BY DEF GetById
  <1>2. CASE registry # 0
    <2>1. registry' = registry
      BY <1>1, <1>2 DEF LoadOrStore
    <2> QED BY <1>1, <1>2, <2>1 DEF WaitInv, TwoMutexes
  <1>3. CASE registry = 0
    <2>1. PICK old \in Mutexes : \A u \in Txs : mutexOf[u] \in {0, old}
      BY <1>3 DEF TwoMutexes
    <2>2. PICK m \in {1, 2} : m # old
      OBVIOUS
    <2>3. m \in Mutexes /\ m # 0
      BY <2>2, AnotherMutex
    <2>4. \A u \in Txs : mutexOf[u] # m
      BY <2>1, <2>2, <2>3
    <2>5. owner[m] = Nobody
      BY <2>3, <2>4, Names DEF WaitInv, OwnsInv
    <2>6. FreshMutex \in Mutexes
      BY <1>3, <2>3, <2>4, <2>5 DEF FreshMutex
    <2>7. registry' \in Mutexes
      BY <1>1, <1>3, <2>6 DEF LoadOrStore
    <2>8. \A u \in Txs : mutexOf'[u] \in {0, old, registry'}
      BY <1>1, <2>1 DEF WaitInv
    <2> QED BY <1>1, <2>7, <2>8 DEF TwoMutexes
  <1> QED BY <1>2, <1>3

LEMMA ReceiveWaits ==
  ASSUME OneDeletion, WaitInv, TwoMutexes, OwnsInv, NEW h \in Handlers, Receive(h)
  PROVE  WaitInv' /\ TwoMutexes'
  <1>1. GetById(h) /\ h \in Txs /\ pc' = [pc EXCEPT ![h] = "lock"] /\ pc[h] = "idle"
    BY DEF Receive, Goes, Txs
  <1>2. /\ registry' \in Mutexes /\ owner' = owner
        /\ mutexOf' = [mutexOf EXCEPT ![h] = registry']
        /\ TwoMutexes'
    BY <1>1, GetByIdWaits
  <1>3. /\ owner' \in [Mutexes -> Txs \cup {Nobody}] /\ mutexOf' \in [Txs -> Mutexes \cup {0}]
        /\ pc' \in [Handlers -> {"idle", "lock"} \cup Busy]
    BY <1>1, <1>2 DEF WaitInv
  <1>4. \A g \in Handlers : g # h => pc'[g] = pc[g] /\ mutexOf'[g] = mutexOf[g]
    BY <1>1, <1>2, Names DEF WaitInv
  <1>5. pc'[h] = "lock" /\ mutexOf'[h] = registry'
    BY <1>1, <1>2 DEF WaitInv
  <1>6. \A m \in Mutexes : owner[m] # h
    BY <1>1 DEF WaitInv, Holds
  <1> QED BY <1>2, <1>3, <1>4, <1>5, <1>6 DEF WaitInv, Holds

LEMMA LockWaits ==
  ASSUME OneDeletion, WaitInv, TwoMutexes, NEW h \in Handlers, Lock(h)
  PROVE  WaitInv' /\ TwoMutexes'
  <1>1. PICK step \in {"locate", "find", "exchange"} : pc' = [pc EXCEPT ![h] = step]
    BY DEF Lock, Goes
  <1>2. /\ owner' = [owner EXCEPT ![mutexOf[h]] = h] /\ owner[mutexOf[h]] = Nobody
        /\ UNCHANGED <<registry, mutexOf>> /\ mutexOf[h] \in Mutexes /\ pc[h] = "lock"
    BY DEF Lock, Locks, LockFree, WaitInv
  <1>3. h \in Txs /\ \A g \in Handlers : g # Nobody
    BY ServiceAssumption DEF Txs
  <1>4. TwoMutexes'
    BY <1>2 DEF TwoMutexes
  <1> QED BY <1>1, <1>2, <1>3, <1>4 DEF WaitInv, Holds, Busy

LEMMA UnlockWaits ==
  ASSUME OneDeletion, WaitInv, TwoMutexes, NEW h \in Handlers, Unlock(h)
  PROVE  WaitInv' /\ TwoMutexes'
  <1>1. /\ owner' = [owner EXCEPT ![mutexOf[h]] = Nobody] /\ owner[mutexOf[h]] = h
        /\ mutexOf' = [mutexOf EXCEPT ![h] = 0] /\ registry' = registry
        /\ pc' = [pc EXCEPT ![h] = "idle"] /\ mutexOf[h] \in Mutexes
    BY DEF Unlock, Unlocks, Goes, WaitInv, Holds
  <1>2. h \in Txs /\ \A g \in Handlers : g # Nobody /\ g \in Txs
    BY ServiceAssumption DEF Txs
  <1>3. TwoMutexes'
    BY <1>1, <1>2 DEF TwoMutexes, WaitInv
  <1>4. /\ owner' \in [Mutexes -> Txs \cup {Nobody}] /\ mutexOf' \in [Txs -> Mutexes \cup {0}]
        /\ pc' \in [Handlers -> {"idle", "lock"} \cup Busy]
    BY <1>1, <1>2 DEF WaitInv
  <1>5. \A g \in Handlers : g # h => pc'[g] = pc[g] /\ mutexOf'[g] = mutexOf[g]
    BY <1>1, <1>2 DEF WaitInv
  <1>6. pc'[h] = "idle"
    BY <1>1 DEF WaitInv
  <1>7. \A m \in Mutexes : owner'[m] # h
    BY <1>1, <1>2 DEF WaitInv
  <1>8. \A m \in Mutexes : owner'[m] = IF m = mutexOf[h] THEN Nobody ELSE owner[m]
    BY <1>1 DEF WaitInv
  <1> QED BY <1>1, <1>2, <1>3, <1>4, <1>5, <1>6, <1>7, <1>8 DEF WaitInv, Holds

LEMMA HandleWaits ==
  ASSUME OneDeletion, WaitInv, TwoMutexes, OwnsInv, NEW h \in Handlers, Handle(h)
  PROVE  WaitInv' /\ TwoMutexes'
  <1>1. CASE Works(h)
    BY <1>1 DEF Works, memory, WaitInv, TwoMutexes, Holds, Busy
  <1> QED BY <1>1, ReceiveWaits, LockWaits, UnlockWaits, InsideWorks DEF Handle, Step

LEMMA NextWaits ==
  ASSUME OneDeletion, WaitInv, TwoMutexes, OwnsInv, DInv, [NextD]_allVars
  PROVE  WaitInv' /\ TwoMutexes'
  <1>0. deleter \in Txs /\ deleter # Nobody /\ \A h \in Handlers : h # deleter /\ h # Nobody
    BY Names, ServiceAssumption
  <1>1. CASE UNCHANGED <<memory, pc>>
    BY <1>1 DEF memory, WaitInv, TwoMutexes, Holds
  <1>2. CASE CrashD
    BY <1>2, <1>0, SomeMutex DEF CrashD, Crash, WaitInv, TwoMutexes, Holds
  <1>3. CASE \E h \in Handlers : Handle(h)
    BY <1>3, HandleWaits
  <1>4. CASE GetLock
    <2>1. GetById(deleter) /\ pc' = pc
      BY <1>4 DEF GetLock
    <2>2. /\ registry' \in Mutexes /\ owner' = owner
          /\ mutexOf' = [mutexOf EXCEPT ![deleter] = registry']
          /\ TwoMutexes'
      BY <1>0, <2>1, GetByIdWaits
    <2>3. \A h \in Handlers : mutexOf'[h] = mutexOf[h]
      BY <1>0, <2>2, Names DEF WaitInv
    <2>4. mutexOf' \in [Txs -> Mutexes \cup {0}]
      BY <2>2 DEF WaitInv
    <2> QED BY <2>1, <2>2, <2>3, <2>4 DEF WaitInv, Holds
  <1>5. CASE LockBag
    <2>1. /\ owner' = [owner EXCEPT ![mutexOf[deleter]] = deleter]
          /\ owner[mutexOf[deleter]] = Nobody /\ UNCHANGED <<registry, mutexOf, pc>>
      BY <1>5 DEF LockBag, Locks, LockFree
    <2> QED BY <1>0, <2>1 DEF WaitInv, TwoMutexes, Holds
  <1>6. CASE UnlockBag
    <2>1. /\ owner' = [owner EXCEPT ![mutexOf[deleter]] = Nobody]
          /\ mutexOf' = [mutexOf EXCEPT ![deleter] = 0] /\ UNCHANGED <<registry, pc>>
      BY <1>6 DEF UnlockBag, Unlocks
    <2>2. owner[mutexOf[deleter]] = deleter
      BY <1>6 DEF UnlockBag, OwnsInv, DInv, HasMutex
    <2>3. \A m \in Mutexes : owner'[m] = IF m = mutexOf[deleter] THEN Nobody ELSE owner[m]
      BY <2>1 DEF WaitInv
    <2>4. \A h \in Handlers : mutexOf'[h] = mutexOf[h]
      BY <1>0, <2>1, Names DEF WaitInv
    <2>5. /\ owner' \in [Mutexes -> Txs \cup {Nobody}] /\ mutexOf' \in [Txs -> Mutexes \cup {0}]
      BY <2>1 DEF WaitInv
    <2>6. TwoMutexes'
      BY <2>1 DEF WaitInv, TwoMutexes
    <2> QED BY <1>0, <2>1, <2>2, <2>3, <2>4, <2>5, <2>6 DEF WaitInv, Holds
  <1>7. CASE Unregister
    <2>1. registry' = 0 /\ UNCHANGED <<owner, mutexOf, pc>>
      BY <1>7 DEF Unregister
    <2>2. XInv
      BY <1>7 DEF Unregister, OwnsInv, DInv
    <2>3. TwoMutexes'
      <3>1. CASE registry = 0
        BY <2>1, <2>2, <3>1, SomeMutex DEF XInv, TwoMutexes
      <3>2. CASE registry # 0
        BY <2>1, <2>2, <3>2 DEF XInv, TwoMutexes
      <3> QED BY <3>1, <3>2
    <2> QED BY <2>1, <2>3 DEF WaitInv, Holds
  <1>8. CASE FailDelete
    <2>1. /\ owner' = [m \in Mutexes |-> IF owner[m] = deleter THEN Nobody ELSE owner[m]]
          /\ mutexOf' = [mutexOf EXCEPT ![deleter] = 0]
          /\ registry' = registry /\ pc' = pc
      BY <1>8 DEF FailDelete
    <2>2. \A h \in Handlers : mutexOf'[h] = mutexOf[h]
      BY <1>0, <2>1, Names DEF WaitInv
    <2>3. /\ owner' \in [Mutexes -> Txs \cup {Nobody}] /\ mutexOf' \in [Txs -> Mutexes \cup {0}]
      BY <2>1 DEF WaitInv
    <2>4. TwoMutexes'
      BY <2>1 DEF WaitInv, TwoMutexes
    <2> QED BY <1>0, <2>1, <2>2, <2>3, <2>4 DEF WaitInv, Holds
  <1>9. ReadBag \/ ReadWorn \/ DeleteWorn \/ DeleteBag \/ CommitDelete => UNCHANGED <<memory, pc>>
    BY DEF ReadBag, ReadWorn, DeleteWorn, DeleteBag, DeletesRow, CommitDelete, vars
  <1>10. UNCHANGED allVars => UNCHANGED <<memory, pc>>
    BY DEF allVars, vars
  <1> QED BY <1>1, <1>2, <1>3, <1>4, <1>5, <1>6, <1>7, <1>8, <1>9, <1>10
          DEF NextD, Progress, BreaksCycle, Handle

\* A step on the rows is on those of one transaction.
LEMMA TouchesOwn ==
  ASSUME DOMAIN writes = Txs, NEW t \in Txs, TouchesRows(t)
  PROVE  DOMAIN writes' = Txs /\ \A u \in Txs : u # t => writes'[u] = writes[u]
  <1>1. CASE UNCHANGED Rows
    BY <1>1 DEF Rows
  <1>2. CASE Undoes(t) \/ Commits(t)
    BY <1>2 DEF Undoes, Commits
  <1>3. CASE \E r, row : UpsertsRow(t, r, row)
    BY <1>3, UpsertWrites
  <1> QED BY <1>1, <1>2, <1>3 DEF TouchesRows, WritesOne, WritesRow, InsertsOne

\* A goroutine that leaves its transaction leaves no writes.
LEMMA HandleLeaves ==
  ASSUME OneDeletion, WaitInv, WritersInv, NEW h \in Handlers, Handle(h)
  PROVE  /\ DOMAIN writes'[h] = {} \/ Inside(h)'
         /\ \A g \in Handlers : g # h => pc'[g] = pc[g]
  <1>1. h \in Txs /\ DOMAIN pc = Handlers
    BY DEF WaitInv, Txs
  <1>2. \A f : writes' = [writes EXCEPT ![h] = <<>>] => DOMAIN writes'[h] = {}
    BY <1>1 DEF WritersInv
  <1>3. CASE Receive(h) \/ Lock(h) \/ Publish(h) \/ Unlock(h)
    <2>1. writes' = writes /\ pc[h] \in {"idle", "lock", "publish", "unlock"}
      BY <1>3 DEF Receive, Lock, Publish, Unlock
    <2>2. DOMAIN writes'[h] = {}
      BY <2>1 DEF WritersInv, Inside
    <2> QED BY <1>1, <1>3, <2>2 DEF Receive, Lock, Publish, Unlock, Goes
  <1>4. CASE \E result : RollsBack(h, result)
    BY <1>1, <1>2, <1>4 DEF RollsBack, Goes
  <1>5. CASE Commit(h) \/ Fail(h)
    BY <1>1, <1>2, <1>5 DEF Commit, Commits, Fail, Goes
  <1>6. CASE \/ pc' = pc /\ Inside(h)
             \/ \E step \in {"locate", "find", "exchange", "free", "rival", "unequip", "drop",
                         "insert", "commit"} :
                  pc' = [pc EXCEPT ![h] = step]
    BY <1>1, <1>6 DEF Inside
  <1>13. Locate(h) => \/ \E result : RollsBack(h, result)
                      \/ \E step \in {"find", "free"} : pc' = [pc EXCEPT ![h] = step]
    BY DEF Locate, Goes
  <1>7. Find(h) => \/ \E result : RollsBack(h, result)
                   \/ \E step \in {"exchange", "drop", "free"} : pc' = [pc EXCEPT ![h] = step]
    BY DEF Find, Goes
  <1>8. Exchange(h) =>
          \/ pc' = pc /\ Inside(h)
          \/ \E step \in {"exchange", "locate", "commit"} : pc' = [pc EXCEPT ![h] = step]
    BY DEF Exchange, WaitsForRow, Goes, Inside
  <1>9. Free(h) => \E step \in {"insert", "rival", "unequip"} : pc' = [pc EXCEPT ![h] = step]
    BY DEF Free, Goes
  <1>10. Rival(h) => \/ \E result : RollsBack(h, result)
                     \/ pc' = pc /\ Inside(h)
                     \/ pc' = [pc EXCEPT ![h] = "commit"]
    BY DEF Rival, WaitsForRow, Goes, Inside
  <1>11. Unequip(h) \/ Drop(h) => \/ \E result : RollsBack(h, result)
                                  \/ pc' = [pc EXCEPT ![h] = "commit"]
    BY DEF Unequip, Drop, Goes
  <1>12. Insert(h) => \/ \E result : RollsBack(h, result)
                     \/ \E step \in {"free", "commit"} : pc' = [pc EXCEPT ![h] = step]
    BY DEF Insert, Goes
  <1> QED BY <1>3, <1>4, <1>5, <1>6, <1>7, <1>8, <1>9, <1>10, <1>11, <1>12, <1>13 DEF Handle, Step

LEMMA HandleWriters ==
  ASSUME OneDeletion, WaitInv, WritersInv, NEW h \in Handlers, Handle(h), UNCHANGED dvars
  PROVE  WritersInv'
  <1>1. DOMAIN writes' = Txs /\ \A u \in Txs : u # h => writes'[u] = writes[u]
    BY Names, HandleTouches, TouchesOwn DEF WritersInv
  <1>2. \A g \in Handlers : DOMAIN writes'[g] = {} \/ Inside(g)'
    BY <1>1, HandleLeaves DEF WritersInv, Inside, Txs
  <1> QED BY <1>1, <1>2, Names DEF WritersInv, dvars

LEMMA NextWriters ==
  ASSUME OneDeletion, WaitInv, WritersInv, [NextD]_allVars
  PROVE  WritersInv'
  <1>1. CASE UNCHANGED allVars
    BY <1>1 DEF allVars, vars, dvars, WritersInv, Inside
  <1>2. CASE CrashD
    BY <1>2, Names DEF CrashD, Crash, WritersInv
  <1>3. CASE \E h \in Handlers : Handle(h) /\ UNCHANGED dvars
    BY <1>3, HandleWriters
  <1>4. CASE \/ ReadBag \/ ReadWorn \/ DeleteWorn \/ GetLock \/ LockBag \/ DeleteBag
             \/ UnlockBag \/ Unregister \/ CommitDelete \/ FailDelete
    <2>1. DOMAIN writes' = Txs /\ \A u \in Txs : u # deleter => writes'[u] = writes[u]
      BY <1>4, Names, DeletionTouches, TouchesOwn DEF WritersInv
    <2>2. pc' = pc
      BY <1>4 DEF ReadBag, ReadWorn, DeleteWorn, DeletesRow, GetLock, LockBag, DeleteBag,
                  UnlockBag, Unregister, CommitDelete, FailDelete, vars
    <2>3. \A h \in Handlers : DOMAIN writes'[h] = {} \/ Inside(h)'
      BY <2>1, <2>2, Names DEF WritersInv, Inside
    <2>4. dpc' = "idle" => DOMAIN writes'[deleter] = {}
      <3>1. CASE CommitDelete \/ FailDelete
        BY <3>1, Names DEF CommitDelete, Commits, FailDelete, WritersInv
      <3>2. ReadBag \/ ReadWorn \/ DeleteWorn \/ GetLock \/ LockBag \/ DeleteBag
            \/ UnlockBag \/ Unregister => dpc' # "idle"
        BY DEF ReadBag, ReadWorn, DeleteWorn, GetLock, LockBag, DeleteBag, UnlockBag,
               Unregister, Becomes
      <3> QED BY <1>4, <3>1, <3>2
    <2> QED BY <2>1, <2>3, <2>4 DEF WritersInv
  <1> QED BY <1>1, <1>2, <1>3, <1>4 DEF NextD, Progress, BreaksCycle, Handle

HangInv == WaitInv /\ TwoMutexes /\ WritersInv /\ OwnsInv /\ DInv

\* With nobody in the loop, who is inside waits for a row.
LEMMA InsideRowWaits ==
  ASSUME OneDeletion, Stuck, ~Spinning, NEW h \in Handlers, pc[h] \notin {"idle", "lock"}
  PROVE  \E u \in Txs : WaitsFor(h, u)
  <1>1. Waits(h)
    BY DEF Stuck
  <1>2. sel[h] # NoRow /\ RowLocked(h, sel[h].row)
    BY <1>1 DEF Waits, Spinning
  <1>3. PICK u \in Txs \ {h} : sel[h].row \in DOMAIN writes[u]
    BY <1>2 DEF RowLocked
  <1>4. WaitedRows(h) = {sel[h].row}
    BY <1>2, Names DEF WaitedRows
  <1> QED BY <1>3, <1>4 DEF WaitsFor

\* Who is waited for has written something: a goroutine inside its transaction,
\* or the deletion under way.
LEMMA WaitedForIsInside ==
  ASSUME OneDeletion, WritersInv, NEW t, NEW u \in Txs, WaitsFor(t, u)
  PROVE  /\ u # t
         /\ u # deleter => u \in Handlers /\ Inside(u) /\ pc[u] \notin {"idle", "lock"}
         /\ u = deleter => dpc # "idle"
  <1>1. u # t /\ DOMAIN writes[u] # {}
    BY DEF WaitsFor
  <1> QED BY <1>1, Names DEF WritersInv, Inside

\* Three goroutines inside are at most two, because there are two mutexes.
LEMMA AtMostTwo ==
  ASSUME OneDeletion, WaitInv, TwoMutexes,
         NEW f \in Handlers, NEW g \in Handlers, NEW h \in Handlers,
         Holds(f), Holds(g), Holds(h)
  PROVE  f = g \/ g = h \/ f = h
  <1>1. PICK old : \A t \in Txs : mutexOf[t] \in {0, old, registry}
    BY DEF TwoMutexes
  <1>2. \A k \in {f, g, h} : /\ owner[mutexOf[k]] = k
                             /\ mutexOf[k] \in {old, registry}
    BY <1>1, SomeMutex DEF WaitInv, Holds, Txs
  <1> QED BY <1>2

\* Who is inside while none was dropped is alone.
LEMMA OneInside ==
  ASSUME OneDeletion, DInv, ~unregistered, NEW g \in Handlers, NEW h \in Handlers,
         Holds(g), Holds(h)
  PROVE  g = h /\ dpc # "bag"
  BY Names DEF DInv, XInv, HasMutex

LEMMA HangInvSays ==
  ASSUME OneDeletion, HangInv
  PROVE  StuckOnlyIf
  <1> SUFFICES ASSUME Hangs, Stuck, ~Entangled, ~Spinning PROVE FALSE
    BY DEF StuckOnlyIf
  <1> USE DEF HangInv
  <1>1. \A u \in Handlers : ~(RowCycle(u) /\ Inside(u))
    BY DEF Stuck
  <1>2. \A u \in Handlers, v \in Txs : ~(Inside(u) /\ WaitsFor(u, v) /\ WaitsFor(v, u))
    BY <1>1 DEF RowCycle
  <1>3. \A h \in Handlers : Holds(h) => \E u \in Txs : WaitsFor(h, u)
    BY InsideRowWaits DEF Holds
  <1>4. dpc \in {"idle", "lock", "worn", "bag"}
    BY DEF Stuck, DeletionWaits
  <1>5. dpc # "idle" => ~unregistered
    BY <1>4 DEF OwnsInv
  <1>6. \A h \in Handlers, u \in Txs :
          WaitsFor(h, u) => u # h /\ (u # deleter => u \in Handlers /\ Holds(u) /\ Inside(u))
    BY WaitedForIsInside DEF Holds
  \* While nothing was dropped and the deletion is under way: who is inside is
  \* alone, so that it can only wait for the deletion.
  <1>7. ASSUME dpc # "idle", NEW h \in Handlers, Holds(h)
        PROVE  WaitsFor(h, deleter) /\ dpc # "bag"
    BY <1>3, <1>5, <1>6, <1>7, OneInside
  <1>8. CASE dpc = "bag" \/ dpc = "worn"
    <2>1. PICK r \in WaitedRows(deleter) : RowLocked(deleter, r)
      BY <1>8 DEF Stuck, DeletionWaits
    <2>2. PICK u \in Txs \ {deleter} : r \in DOMAIN writes[u]
      BY <2>1 DEF RowLocked
    <2>3. WaitsFor(deleter, u)
      BY <2>1, <2>2 DEF WaitsFor
    <2>4. u \in Handlers /\ Inside(u) /\ Holds(u)
      BY <2>2, <2>3, WaitedForIsInside DEF Holds
    <2>5. WaitsFor(u, deleter)
      BY <1>7, <1>8, <2>4
    <2> QED BY <1>2, <2>3, <2>4, <2>5, Names
  <1>9. CASE dpc = "lock"
    <2>1. owner[mutexOf[deleter]] # Nobody /\ mutexOf[deleter] \in Mutexes
      BY <1>5, <1>9, SomeMutex DEF Stuck, DeletionWaits, LockFree, DInv, HasMutex, XInv
    <2>2. owner[mutexOf[deleter]] # deleter
      BY <1>9, <2>1 DEF OwnsInv
    <2>3. PICK h \in Handlers : owner[mutexOf[deleter]] = h
      BY <2>1, <2>2, Names DEF WaitInv
    <2>4. WaitsFor(h, deleter)
      BY <1>7, <1>9, <2>1, <2>3 DEF WaitInv
    <2> QED BY <1>9, <2>3, <2>4 DEF Entangled
  \* With no deletion under way: of the two that may be inside, each waits for
  \* the other.
  <1>10. CASE dpc = "idle"
    <2>1. PICK g \in Handlers : pc[g] # "idle"
      BY DEF Hangs
    <2>2. \E h \in Handlers : Holds(h)
      <3>1. CASE pc[g] # "lock"
        BY <2>1, <3>1 DEF Holds
      <3>2. CASE pc[g] = "lock"
        <4>1. owner[mutexOf[g]] # Nobody /\ mutexOf[g] \in Mutexes
          BY <2>1, <3>2 DEF Stuck, Waits, LockFree, WaitInv
        <4>2. owner[mutexOf[g]] # deleter
          BY <1>10, <4>1 DEF OwnsInv
        <4> QED BY <4>1, <4>2, Names DEF WaitInv
      <3> QED BY <3>1, <3>2
    <2>3. PICK h \in Handlers : Holds(h)
      BY <2>2
    <2>4. \A k \in Handlers, u \in Txs :
            WaitsFor(k, u) => u # k /\ u \in Handlers /\ Holds(u) /\ Inside(u)
      BY <1>6, <1>10, WaitedForIsInside
    <2>5. PICK u \in Handlers : WaitsFor(h, u) /\ u # h /\ Holds(u) /\ Inside(u)
      BY <1>3, <2>3, <2>4
    <2>6. PICK v \in Handlers : WaitsFor(u, v) /\ v # u /\ Holds(v)
      BY <1>3, <2>4, <2>5
    <2>7. v = h
      BY <2>3, <2>5, <2>6, AtMostTwo
    <2> QED BY <1>2, <2>5, <2>6, <2>7, Names
  <1> QED BY <1>4, <1>8, <1>9, <1>10

\* A command hangs only on a deletion that has the row it waits for and asks for
\* the mutex it holds, or in the loop of MinFreeSlot: any number of commands,
\* failures and crashes, and a mutex that was dropped and replaced while one was
\* inside, make no other deadlock that the database would not break
\* (InventoryDelete.StuckOnlyIf, the part of HangsOnlyIf without ENABLED).
THEOREM DeletionHangs ==
  ASSUME OneDeletion
  PROVE  SpecD => []StuckOnlyIf
  <1>1. InitD => HangInv
    BY InitWaits, InitOwns, InitDInv DEF HangInv
  <1>2. HangInv /\ [NextD]_allVars => HangInv'
    BY NextWaits, NextWriters, NextOwns, NextDKeeps DEF HangInv
  <1>3. HangInv => StuckOnlyIf
    BY HangInvSays
  <1> QED BY <1>1, <1>2, <1>3, PTL DEF SpecD
=============================================================================
