-------------------------- MODULE InventoryDelete ---------------------------
(***************************************************************************)
(* character.Delete beside the commands of InventoryService: one database  *)
(* transaction around the snapshot of the character, the rows worn, the    *)
(* rows in the bag (under the inventory's mutex), the inventory's row, the *)
(* registry entry and the character's row.  The other four inventories     *)
(* are deleted the same way and hold none of what is modelled here.        *)
(***************************************************************************)
EXTENDS InventoryService

CONSTANT deleter

\* The deletion is the one transaction that is not a command's.
OneDeletion == Others = {deleter}

VARIABLES dpc,           \* where the deletion is
          bag, worn,     \* ids in its snapshot
          unregistered   \* history: a mutex was taken out of this registry

dvars == <<dpc, bag, worn, unregistered>>
allVars == <<vars, dvars>>

InitD == /\ Init
         /\ dpc = "idle" /\ bag = {} /\ worn = {}
         /\ unregistered = FALSE

Becomes(step) == dpc' = step

\* The inventories are read first, then the equipment: two statements.
\* Bound: no deletion is begun once one has got as far as the registry.
ReadBag == /\ dpc = "idle" /\ inventory /\ ~unregistered
           /\ bag' = {r \in DOMAIN table : table[r].slot > 0}
           /\ Becomes("read")
           /\ UNCHANGED <<vars, worn, unregistered>>

\* FoldEquipable keeps slots below -100 apart (cash), and equipment.Delete
\* does not go through those.
ReadWorn == /\ dpc = "read"
            /\ worn' = {r \in DOMAIN table : table[r].slot \in -99 .. -1}
            /\ Becomes("worn")
            /\ UNCHANGED <<vars, bag, unregistered>>

\* DeleteByReferenceId on one row of the snapshot, waiting for its row lock.
DeletesRow(r) ==
  /\ ~RowLocked(deleter, r)
  /\ WritesRow(deleter, r, Gone)
  /\ UNCHANGED <<store, memory, pc, locals, consumer, unregistered>>

\* equipment.Delete: without the inventory's mutex.
DeleteWorn == /\ dpc = "worn"
              /\ \E r \in worn : DeletesRow(r) /\ worn' = worn \ {r}
              /\ UNCHANGED <<dpc, bag>>

\* DeleteInventory: the mutex, the rows of the bag, the inventory's row.
GetLock == /\ dpc = "worn" /\ worn = {}
           /\ GetById(deleter)
           /\ Becomes("lock")
           /\ UNCHANGED <<store, pc, locals, writes, consumer, bag, worn,
                          unregistered>>

LockBag == /\ dpc = "lock"
           /\ Locks(deleter)
           /\ Becomes("bag")
           /\ UNCHANGED <<store, pc, locals, writes, consumer, bag, worn,
                          unregistered>>

DeleteBag == /\ dpc = "bag"
             /\ \E r \in bag : DeletesRow(r) /\ bag' = bag \ {r}
             /\ UNCHANGED <<dpc, worn>>

\* The deferred Unlock of DeleteInventory, before the transaction commits.
UnlockBag == /\ dpc = "bag" /\ bag = {}
             /\ Unlocks(deleter)
             /\ Becomes("unregister")
             /\ UNCHANGED <<store, pc, locals, writes, consumer, bag, worn,
                            unregistered>>

\* DeleteForCharacter
Unregister == /\ dpc = "unregister"
              /\ registry' = 0
              /\ unregistered' = TRUE
              /\ Becomes("commit")
              /\ UNCHANGED <<store, owner, mutexOf, pc, locals, writes, consumer,
                             bag, worn>>

\* The character's row, and the commit.
CommitDelete == /\ dpc = "commit"
                /\ Commits(deleter)
                /\ inventory' = FALSE
                /\ missed' = TRUE
                /\ Becomes("idle")
                /\ UNCHANGED <<seq, last, memory, pc, locals, screen, bag, worn,
                               unregistered>>

\* A step fails: rolled back, the mutex released, the registry left as it is.
FailDelete ==
  /\ dpc # "idle"
  /\ writes' = [writes EXCEPT ![deleter] = <<>>]
  /\ owner' = [m \in Mutexes |-> IF owner[m] = deleter THEN Nobody ELSE owner[m]]
  /\ mutexOf' = [mutexOf EXCEPT ![deleter] = 0]
  /\ bag' = {} /\ worn' = {}
  /\ Becomes("idle")
  /\ UNCHANGED <<store, registry, pc, locals, consumer, unregistered>>

\* Transactions that wait for one another's rows: PostgreSQL fails one.
WaitedRows(t) ==
  IF t # deleter THEN (IF sel[t] = NoRow THEN {} ELSE {sel[t].row})
  ELSE CASE dpc = "worn" -> worn [] dpc = "bag" -> bag [] OTHER -> {}

WaitsFor(t, u) == t # u /\ WaitedRows(t) \cap DOMAIN writes[u] # {}

RowCycle(t) == \/ \E u \in Txs : WaitsFor(t, u) /\ WaitsFor(u, t)
               \/ \E u, v \in Txs : WaitsFor(t, u) /\ WaitsFor(u, v) /\ WaitsFor(v, t)

BreaksCycle == \E h \in Handlers : RowCycle(h) /\ Fail(h) /\ UNCHANGED dvars

CrashD == /\ Crash
          /\ dpc' = "idle" /\ bag' = {} /\ worn' = {}
          /\ unregistered' = FALSE

\* What moves on its own once it is under way.
Progress == \/ \E h \in Handlers : (Lock(h) \/ Step(h)) /\ UNCHANGED dvars
            \/ ReadWorn \/ DeleteWorn \/ GetLock \/ LockBag \/ DeleteBag
            \/ UnlockBag \/ Unregister \/ CommitDelete
            \/ BreaksCycle

NextD == \/ \E h \in Handlers : (Receive(h) \/ Fail(h)) /\ UNCHANGED dvars
         \/ ReadBag \/ FailDelete \/ CrashD
         \/ Progress

SpecD == InitD /\ [][NextD]_allVars

-----------------------------------------------------------------------------
\* The deletion works on rows it has read, and is the owner of a mutex exactly
\* while it goes through the bag.
DTypeOK == /\ dpc \in {"idle", "read", "worn", "lock", "bag", "unregister", "commit"}
           /\ bag \cup worn \subseteq 1 .. seq - 1
           /\ unregistered \in BOOLEAN
           /\ (\E m \in Mutexes : owner[m] = deleter) <=> dpc = "bag"

\* One goroutine at a time is in the inventory, the deletion included, as long
\* as no mutex was taken out of the registry (lock_registry.go:33).
HoldsD(t) == IF t = deleter THEN dpc = "bag" ELSE Holds(t)

ExclusionUntilUnregistered ==
  ~unregistered => \A t, u \in Txs : HoldsD(t) /\ HoldsD(u) => t = u

\* A row the deletion has removed does not come back, although a command found
\* it before and writes it after.
DeletedStaysDeleted ==
  [][\A r \in 1 .. seq - 1 :
       r \in born /\ r \notin DOMAIN table => r \notin DOMAIN table']_allVars

\* The deletion has the row lock of a worn item and waits for the mutex of a
\* goroutine that waits for the row: no detector sees a cycle of both kinds.
Entangled ==
  \E h \in Handlers : /\ dpc = "lock" /\ owner[mutexOf[deleter]] = h
                      /\ WaitsFor(h, deleter)

\* MinFreeSlot goes round on two rows in one slot (module Slottable).
Spinning == \E h \in Handlers : pc[h] = "free" /\ FreeSlots(View(h)) = {}

\* What a goroutine waits for: a mutex that is locked, a row that another
\* transaction has written, or the free slot of such a loop.
Waits(h) ==
  \/ pc[h] = "lock" /\ ~LockFree(h)
  \/ /\ pc[h] \in {"exchange", "rival", "unequip", "drop"}
     /\ sel[h] # NoRow /\ RowLocked(h, sel[h].row)
  \/ pc[h] = "free" /\ FreeSlots(View(h)) = {}

DeletionWaits ==
  \/ dpc = "lock" /\ ~LockFree(deleter)
  \/ /\ dpc \in {"worn", "bag"} /\ WaitedRows(deleter) # {}
     /\ \A r \in WaitedRows(deleter) : RowLocked(deleter, r)

\* Everybody who is under way waits, and the database sees no cycle to break.
Stuck == /\ \A h \in Handlers : pc[h] = "idle" \/ Waits(h)
         /\ dpc = "idle" \/ DeletionWaits
         /\ \A h \in Handlers : ~(RowCycle(h) /\ Inside(h))

Hangs == \E h \in Handlers : pc[h] # "idle"

StuckOnlyIf == Hangs /\ Stuck => Entangled \/ Spinning

\* A command hangs for one of these two reasons and no other: whenever one is
\* under way, nothing can move exactly when everybody waits, and then there is
\* such a cycle or such a loop.
HangsOnlyIf == (Hangs => (~ENABLED Progress <=> Stuck)) /\ StuckOnlyIf
=============================================================================
