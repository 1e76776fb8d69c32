# A TLA+ development of atlas-character

The service keeps the characters of a game and what they own: it answers REST
requests, consumes commands and session events from Kafka, writes PostgreSQL
through gorm, asks two other services about items (their statistics, their
equipment slots), and publishes what it changed. This directory models its core
logic, checks it with TLC on small instances and proves the theorems that matter
most with TLAPS. All paths below are under `src/atlas.com/character/`.

## 1. Inventory of the system

| component | state | operations | works with |
|---|---|---|---|
| commands on equipables (`inventory/processor.go`) | rows of `equipables`; a positive slot is in the bag, a negative one is worn | create, equip, unequip, move, drop | locks, database, events, statistics and information services |
| commands on items (`inventory/processor.go`, `inventory/item/`) | rows of `items` with a quantity | create (fills stacks, then opens new ones), move, drop of a quantity | locks, database, events |
| free slot search (`slottable/`) | a loop over the sorted slots | `GetNextFreeSlot`, `MinFreeSlot` | create, equip, unequip |
| destination of an item (`equipment/processor.go`) | none | `GetEquipmentDestination` | information and statistics services |
| inventory locks (`inventory/lock_registry.go`) | a `sync.Map` of mutexes by character and type | `GetById`, `DeleteForCharacter` | every command, character deletion |
| inventory events (`inventory/producer.go`) | messages of the current command | published after the commit, the mutex still held | consumers outside this repository |
| character deletion (`character/processor.go`, `Delete`) | one transaction over the equipment, five inventories, the registry, the character | reads a snapshot, deletes row by row | locks, database, statistics service |
| character creation (`Create`, `IsValidName`) | rows of `characters` and `inventory` | name check, insert, created event | database, events |
| session (`session/consumer.go`, `Login`, `Logout`, `ChangeMap`) | `map_id` of a character | announces; saves the map, positions at a portal, announces | database, portal service, temporal registry |
| temporal registry (`character/temporal_data.go`) | position and stance by character, a mutex by character made on demand | `Update`, `UpdatePosition`, `UpdateStance`, `GetById` | movement, map changes |
| movement (`Move`, `FoldMovementSummary`) | none of its own | reads the stance, folds the elements, updates, relays | temporal registry |
| equipment view (`FoldEquipable`, `equipment/model.go`) | none | places worn rows in positions, cash apart | deletion, REST |
| requests (`character/resource.go`, `InventoryModelDecorator`) | what a handler has read so far | reads a character with its inventories, deletes one | database, statistics service |
| statistics client (`equipable/statistics/`) | the statistics of each equipable, in another service, by reference id | create, read, delete | create, deletion, views |
| REST, JSON models, Kafka and database glue, tracing, teardown | | parsing, rendering, start and stop | |

What is hard here:

* **Concurrency.** Kafka handlers and HTTP handlers are goroutines. Commands on one
  inventory exclude one another by a mutex of this process only; the database has no
  unique index on slots (the `unique` tags of `inventory/entity.go` are not gorm tags).
  The deletion of a character takes row locks *before* the mutexes, and gives the
  mutexes back before its transaction commits.
* **Many statements, errors ignored.** An exchange is three updates through a parking slot
  (-32768); their errors are dropped. Only the surrounding transaction makes a command whole.
* **Order.** Events are published after the commit. A consumer that applies them needs
  them in the order of the commits.
* **Failure.** Any statement, the other services, the producer or the process may fail. What the
  statistics service was told inside a transaction is not undone by its rollback. The decorator of a
  character drops the errors it meets.
* **Numbers.** Slots are `int16`, quantities `uint32`, a dropped quantity `int16`; gorm leaves
  zero fields out of a query by struct.

What makes the components correct: rows never share a slot and never stay parked; a
command changes the rows it names and no others; creates and drops are exact; an equip
puts an item where it belongs and parts an overall from a bottom; commands behave as if run one at
a time and whole; the events tell every change in order; the search for a free slot
returns, and returns the first one; a deletion is whole, takes only what is its character's, and what it removes stays removed;
a request reads what is its character's and shows it where it is; the statistics service and the
rows agree but for known reasons; no command hangs, but for known reasons. `PROJECT.json` lists the hazards at their lines,
each with the properties that cover it.

## 2. The modules

| module | models | composes |
|---|---|---|
| `SlotTable` | a table of rows and the statements on slots: find by slot, move, exchange, delete, free slots | |
| `EquipTable` | the catalogue (overalls, cash, items with no listed slot), destinations, inserts | `SlotTable` |
| `EquipInventory` | the equip inventory, every command one step: the **abstract specification** | `EquipTable` |
| `EventReplay` | a consumer of the inventory events (outside the repository) | `SlotTable` |
| `EquipEvents` | what the events of `EquipInventory` tell | `EquipInventory`, `EventReplay` |
| `Slottable` | the loop of `MinFreeSlot`, one iteration a step | |
| `ItemInventory` | one stackable inventory, every command one step | `EventReplay` |
| `InventoryService` | the commands of `EquipInventory` as goroutines run them, statement by statement: mutexes, transactions, events, failures, crash | `EquipTable`, `EventReplay`; implements `EquipInventory` |
| `InventoryDelete` | character deletion beside those goroutines | `InventoryService` |
| `EquipmentView` | the filters, positions, fold and answer that make rows a view | `SlotTable` |
| `CharacterRequests` | GET and DELETE of characters of one tenant, statement by statement, beside commands on equipables, and the statistics service | `EquipmentView` |
| `TemporalRegistry` | the positions in memory, the locks made on demand, the goroutines of a view, a map change and a movement | |
| `CharacterLifecycle` | the rows of characters and inventories, and the status topic: create, login, logout, map change, delete, statement by statement | |
| `TableProofs` | lemmas on tables of rows: moves, exchanges, free slots, deletes, inserts | `EquipTable`, `TLAPS` |
| `EquipInventoryProofs`, `SlottableProofs`, `ItemInventoryProofs`, `TemporalProofs`, `LifecycleProofs`, `RequestsProofs` | the theorems on the module of that name (`CharacterRequests` for the last; the first has those on `EquipEvents` too) | that module, `TLAPS` |
| `ServiceProofs` | the theorems on `InventoryService` (mutex, refinement), and on `InventoryDelete` from those | `InventoryDelete`, `TableProofs` |
| `MCEquip`, `MCItems`, `MCService`, `MCDelete`, `MCRequests`, `MCSlottable`, `MCTemporal`, `MCLifecycle` | values for the constants, views | |

How state and actions correspond to the code:

* A table is a function from row ids to `[item, slot]` (and `quantity`). `First` orders by id,
  so `RowAt` is the lowest id with that slot. Tenants, capacities (never enforced by the code)
  and statistics are left out; `ReferenceId` is taken to be unique and not zero, so that a delete
  by reference is a delete of the row.
* In `EquipInventory`, `last` is the last command with its result and events: what the log
  and the topic show of it. No action reads it. Each command is one action with a disjunct for
  each way out: source absent, a service refusing, a rival slot empty, success.
  `Rival` is the worn slot an item competes with: an overall with the bottom (`Item is an
  overall...`, 326), a bottom with an overall in the top slot (335). A create that fails may have taken ids: the
  sequence does not roll back.
* In `ItemInventory`, the stacks are filled in any order: the query has no `ORDER BY` and the rows
  are mapped in parallel. `Word` is 2^32 and sums are taken modulo `Word`, as `CreateAsset` does
  before it caps them. `Found` is the query by struct: slot 0 matches every row. Any command may fail and roll back, a
  create with some ids taken.
* In `InventoryService`, `pc` says where each goroutine is: `Receive` (get the mutex from the
  registry), `Lock`, `Find` (the source and its destination), three `Exchange` steps, `Free`
  (the rows, for a free slot), `Rival`, `Unequip`, `Drop` or `Insert`, `Commit`, `Publish`, `Unlock`.
  `Locate` reads the inventory's row: first in a create and in an unequip, after the exchange in an equip.
  An unequip computes its free slot whether it found a row or not, and fails after that, as the arguments of
  `moveFromSlotToSlot` are evaluated (420). A create of several units goes from `Insert` back to `Free` for
  each (`CreateAsset`, 252-261), all in one transaction: a refusal or an error at a later unit undoes
  those before it, and their ids are lost. A transaction sees what is committed and its own writes (READ
  COMMITTED); a row with an uncommitted write of another is locked and the statement waits for it,
  then writes the row it had selected. `Fail` is an error of a statement: PostgreSQL aborts
  the transaction, so even an error the exchange ignores undoes the whole command. A panic
  has the same effect (gorm rolls back, the deferred `Unlock` runs). `Crash` loses
  goroutines, mutexes and open transactions. The command of a goroutine is drawn when it takes
  the mutex: nothing of it matters before. As an implementation of `EquipInventory` its table is the committed one and
  its next id is that of the sequence, except that the rows of a create that were inserted and not committed have not had
  theirs yet (`NextId`).
* In `InventoryDelete`, `bag` and `worn` are the two parts of the snapshot, read by two
  statements. `BreaksCycle` is PostgreSQL's deadlock detector, which sees row locks only.
* In `EquipmentView`, a row stands for itself. `Place` is the branch of `FoldEquipable` that picks the
  setter: above -100 the `Equipable` of the slot, otherwise the `CashEquipable` a hundred above. The setters of
  `equipment/model.go` and `PositionFromType` are one function of the position; `Foldable` says where there
  is one. The rows are mapped in parallel, so of two rows in one place either may be set last.
* In `CharacterRequests`, `pc` says which statement a handler makes next. `Find` is `GetById`;
  `ReadInventories`, `ReadBag` and `ReadWorn` are the three queries of the decorator, each of what is committed when it
  runs; `Respond` ends a GET. A DELETE goes on: `DeleteStatistics` and `DeleteRow` for each worn row of the
  snapshot, `LockBag`, the same for each row of the bag, `DeleteInventory` (`deleteByType`), `Commit` (the
  character's row, and all of it at once). `Selects` is the query by struct: an id of 0 selects everything.
  `FailRead` is an error that the decorator drops; the transaction is aborted all the same, so
  `Executes` stops every statement after it, but not the requests to the other service. `Fail` is every
  way out with an error; the end of the process is `Fail` of everybody and `FailCreate`. The commands are there for what they
  do to a request, one step each (two for a create, whose statistics exist before its row is committed).
  `touched`, `removed`, `undone` and `left` are histories; no action reads them.
* In `TemporalRegistry`, `lockCharacter` is `Lookup` (the unguarded read of the map of locks),
  `Create` (only if nothing was found) and `Acquire`; `unlockCharacter` is `Release`, which looks
  the lock up *again* and so may give back one it does not hold. A writer reads (`Access`) and stores
  (`Store`) in one critical section; a movement is a read, `FoldMovementSummary` over its elements, and
  then a second critical section. A lock object is known by the goroutine that made it (`made`
  keeps them all). A Go map written beside another access, and an unlock of what is not locked,
  *may* end the process: `Fatal` says when, and `Restart` begins again with nothing in memory.
* In `CharacterLifecycle`, a creation is `Check` (`IsValidName` and the level, outside the
  transaction), `Insert`, five times `CreateInventory`, `Commit`; a map change is `Find`, `Save`,
  `Portal`, `Announce`, in the order of its operators, and all of them use the model that `Find` read.
  Every step has its failure. `Save` of a character that is gone updates no row and is no
  error. `told` is what a consumer of the status topic believes; `doubt` (history) holds the
  characters of which it may be wrong: an event was lost or never sent, or two handlers of one
  character overlapped. A deletion is one step here.

## 3. What the runs check

| run | instance | question | properties |
|---|---|---|---|
| `equip_core` | top, bottom, overall, cash hat, an item with no listed slot; at most 3 rows; moves between any slots, worn ones and slot 0 included | are single commands right, whatever was moved before? | `SlotsUnique`, `StraysOnlyByMove`, `MeetsOnlyByMove`, `EquipPutsOn`, `EventsTellTheChange` |
| `slottable` | all sorted sequences of up to 5 slots from -1 to 4, 4 the largest slot | does the search return, and what? | `ReturnsFirstFree`, `SpinsOnlyOnDuplicate`, `DistinctReturns` |
| `items` | 2 items, stacks of at most 3, a word of 16, at most 3 rows | are quantities exact? | `CreateGivesWhatWasAsked`, `DropTakesWhatWasAsked`, `OnlyNamedRows`, `SlotsUnique`, `EventsTellTheChange` |
| `service` | 2 goroutines, overall and bottom, creates of one or two units, at most 2 rows ever inserted | do interleaved commands look atomic and in order? | `MutualExclusion`, `Implements`, `ScreenShowsTable`, `CommandsFinish` |
| `delete` | a deletion beside 2 goroutines, 1 item | what does the deletion do to commands, and they to it? | `ExclusionUntilUnregistered`, `HangsOnlyIf`, `DeletedStaysDeleted` |
| `requests` | 2 handlers that read and delete character 1 of 2; slots 1, -5 and -105; 2 rows | what does a request read, show and leave, and do the two services agree? | `ShowsWhereItIs`, `ReadsOthersOnlyIf`, `LeavesOnlyIf`, `DifferOnlyIf` |
| `temporal` | 2 goroutines; one character moves (2 movements) and uses a portal, another is viewed | what do the per-character locks guarantee, and when? | `OneLockExcludes`, `DiesOnlyIf`, `PortalKeepsStance`, `TasksFinish` |
| `lifecycle` | 2 goroutines, one name in two spellings, 2 maps, at most 2 characters | names, inventories, and the topic, under races, failures and a crash | `TwinsMissedEachOther`, `FiveInventories`, `TopicKnowsTheMap`, `MapChangesChain` |

Each has its type invariant too. Four more runs show where the code does not do what it says:

| run | violated | what happens |
|---|---|---|
| `equip_bottom_alone` | `BottomNeedsNoTop` | a bottom cannot be equipped while nothing is worn on top (338-342: only `notOverall` is tolerated, not record not found) |
| `equip_worn_together` | `OverallExcludesBottom` | a move command names worn slots as well, so it puts an overall in the top slot over a bottom (593: no check; the equip command takes the bottom off, 326) |
| `items_slot_zero` | `OnlyNamedRows` | a command naming slot 0 moves or drops the first row |
| `requests_twice` | `TakesOnlyItsOwn` | of two deletions of a character at once, the second finds no inventories; the inventory's id is then 0, gorm leaves it out, and the equipment that every other character of the tenant wears is deleted |

Bounds, and why they are enough:

* `slottable` has one row more than there are slots, so that the candidate wraps.
* `MaxId`, `MaxQuantity`: every command involves at most three rows (the item, what is in its slot, the
  rival), and three rows may be any of the five items of `equip_core`. The two units a create asks for are the least
  that can fail in between. `equip_core` has slot 0, too, where a row is neither in the bag nor
  worn, and where an equip puts an item with no listed slot (`ErrorProvider(nil)` yields 0 and no error); in `service` moves stay in the bag, since its commands are compared with those of
  `EquipInventory` whatever the slots mean (the theorem has no such bound). Two items are the least with
  which a stack of the wrong item can be changed; stacks of 3 in a word of 16 make a request
  fill one stack and open two, and wrap.
* Two goroutines and a deletion give every pair of actors that can meet; a third goroutine would
  only wait on the same mutex. `ExclusionUntilUnregistered` needs three owners to be in question
  and has them.
* No deletion is begun after one has reached the registry (`ReadBag`), and `delete` has no cash item:
  it is about locks. What a deletion leaves behind, cash equipment included, is the question of `requests`.
* `requests` has two characters because it takes another one to have somebody else's rows; only the first is asked
  for. Slots 1, -5 and -105 are the bag, a position and the cash place over it, so that rows can be in all three of
  the kinds that are treated differently. Two rows are what an exchange needs and what it takes for one to be deleted and
  one missed. Slot 0 is in the properties and not in the run (it doubles its time; a row there is shown nowhere and
  outlives its character); nor are slots that are no position, where the fold panics and every request fails, and the id 0,
  which no character has.
* Two goroutines are enough to make two locks for one character, and the second character shows the
  race on the maps, which all characters share. The movements are one that names no
  stance (it writes back the one it read) and one that names two.
* `lifecycle` has a malformed name and a level out of bounds beside the valid ones. Two characters are the
  least that can share a name; two maps the least between which a character can be.
* The views drop history variables and the locals a goroutine will not read again.
  `FutureView` and `RowsView` say why two states they identify have the same future.

Fairness. Only `service`, `slottable` and `temporal` assume any. `Slottable`: the loop runs on a goroutine, which
Go keeps scheduling (`WF`). `InventoryService`: a goroutine that has the mutex keeps going (`WF` of its
steps), and `sync.RWMutex` hands itself to a waiter that starves (`SF` of `Lock`). Commands need not
arrive and nothing need fail or succeed. `TemporalRegistry`: the same two, for steps and for `Acquire`;
tasks need not come and the process need not end. `InventoryDelete` assumes none: `HangsOnlyIf` says
in which states *nothing* can move on, and its run switches TLC's deadlock check off because the system
really may stop there. Its first half is that nothing can move (`ENABLED`) exactly when everybody under way waits
and the database sees no cycle (`Stuck`); its second, `StuckOnlyIf`, that there are only two ways to be stuck: `Entangled` (the deletion has a worn row's lock and waits for the mutex,
a command has the mutex and waits for the row) and `Spinning`
(two rows in one slot, possible once the registry has given out a second mutex). Dropping either
disjunct makes TLC find the other.

## 4. What is proved

For every catalogue, every set of command slots and every number of rows (`EquipInventoryProofs`):

* `TypeCorrect`, `SlotsStayUnique`, `NothingStaysParked`: `Spec => []TypeOK`, `[]SlotsUnique`,
  `[]NoneParked`. The inductive invariant is their conjunction (`IInv`), and it must be: an exchange
  through the parking slot is the transposition of two slots only if no row is parked
  beforehand and the slots are distinct. The lemmas show that a move of a row to an unoccupied
  slot keeps slots distinct, that `Swap` is that transposition, and that `FreeSlots` holds only
  unoccupied slots; then there is one step for each command.
* `RowsStrayOnlyByMove` (`StraysOnlyByMove`), `OverallMeetsBottomOnlyByMove` (`MeetsOnlyByMove`), `EquipsPutOn`
  (`EquipPutsOn`). Move commands name any slot, so neither "worn rows are where they belong" nor "an overall and a
  bottom are not worn together" is an invariant of the code (`equip_worn_together` is the trace); what holds is
  that only a move command, or the equip of a row that one left astray, makes it so (an unlisted item belongs nowhere,
  and its equip is the one other way to be astray), and that a
  completed equip of an overall or a bottom ends it. The exchange of an equip is that of two slots of a table with distinct slots and
  nothing parked, so every row of the outcome is the item in its own slot (`There`), what it displaced in the slot it came
  from, the rival in the bag (`Yields`), or where it was (`PutOn`, `WornIsPutOn`); `StepRows` says the same of every
  command, and the three properties follow by cases on where a row was.
* `EventsTell`: `EventsTellTheChange` of `EquipEvents`: a consumer that applies the events of a command
  in order has the rows that the command left. An exchange writes three times and publishes two
  events; they tell the same change because the parking slot was empty before and is after.

For every width of the slot and every input (`SlottableProofs`): `LoopInvariant`, and from it
`FirstFreeReturned` (what is returned is the first free slot, every smaller one has exactly one
row). The invariant says that the items behind the loop are below the candidate, fill every slot of the bag below
it and share none, and that the candidate is at most one more than their number, so that it has
not wrapped while there are fewer rows than slots. `LoopTypes` is its `TypeOK`. With more rows than slots the candidate does wrap.
What is kept then is `AheadInvariant`: on rows without a duplicate the next item
is not behind the candidate, for the candidate wraps only after the largest slot, and that row was the last. From it
come `SpinNeedsDuplicate` (`SpinsOnlyOnDuplicate`: the loop goes round for ever only on a
duplicate, however many rows there are) and `DistinctAdvances`, that each iteration on other rows returns or passes an item.

For any items, stack sizes, words and number of stacks (`ItemInventoryProofs`):

* With no hypothesis, `RowsInvariant` (the ids were given out, no stack is over the maximum) and `StackTypes` from it.
* Under `NoSlotZero` (no command names slot 0), `SlotsInvariant` (slots distinct, none parked), `StacksApart`
  (`SlotsUnique`) and `OthersUntouched` (`OnlyNamedRows`). A query by slot finds the row of that slot
  only then, and `items_slot_zero` is the run of a command that does name it. A create puts each new stack in a
  slot that `FreeSlots` says is free when the stacks before it are in the table.
* With no hypothesis, `CreatesExactly` (`CreateGivesWhatWasAsked`) and `DropsExactly` (`DropTakesWhatWasAsked`): the sums of
  quantities. `Held` is a fold, and a fold over a set is the value at that set of a chosen function on
  its subsets: such a function is shown to exist (`SumsExist`) and not to depend on the set it was chosen for (`SumWithin`), so a
  sum may be taken with any row first (`SumLess`) and changes by what one row changes (`SumChanges`). Then each stack takes what the request no
  longer has, exactly if the uint32 sum cannot wrap and to the word if it can (`StackAdds`), and the new
  rows hold what is left (`PortionsAdd`). A negative drop is an int16, far above -2^32, so its uint32 is more than any
  stack (`ModNear`).
* Under `NoSlotZero`, `EventsTell` (`EventsTellTheChange`). `Leads` says that a list of events leads a consumer from one picture to
  another; lists that lead on from each other lead on together (`LeadsOn`). The updates lead from the table
  before to the one with its stacks filled, one filled stack at a time (`UpdatesLead`), and the additions from there to the
  table after, one new row at a time (`AddsLead`).

For any number of goroutines, any characters and any tasks (`TemporalProofs`): `RegistryInvariant`, and
from it `WriterIsAlone` (`OneLockExcludes`) and `DeathHasAReason` (`DiesOnlyIf`). The
invariant says that a goroutine waits for, or is inside, a lock that was made; that while a character
has had only one, that one is the stored one; and that it then has as many readers as goroutines read inside it,
and a writer exactly if one writes, alone. So the lock given back is the one
taken, until a second one is made: that is what the `OneLock` of both properties says. `TasksInvariant` adds what
a movement carries from one critical section to the other (the position and stance that `Fold`, a recursive function
over the elements, makes of those done so far), and from it come `RegistryTypes` and `PortalKeeps`
(`PortalKeepsStance`, an action property). `MovementsWriteTheirEnd` says what becomes of the stance that a movement reads in one
section and writes in the next: if any element names a stance, the two folds from different stances agree from that
element on (`NamedStanceWins`), so the read makes no difference; if none does, the character
is put where the movement began, with the stance that was read (`UnnamedStanceStays`), the only one that can be stale.
`WaitersHaveACause` (whoever waits for the one lock of a character waits for somebody inside who can go on)
and `TasksRunOut` (a task is at most twelve of its own steps from its end, and each counts one off) are
`TasksFinish` without the scheduling.

For any number of goroutines, names, maps and characters (`LifecycleProofs`): `LifecycleInvariant`, and from it
`TwinsOnlyByRace` (`TwinsMissedEachOther`) and `AlwaysFiveInventories` (`FiveInventories`). Beside
the types, the invariant says that the id of an open creation is fresh and no other's (the sequence
does not roll back), and that whoever a name check *saw* has another name, up to spelling. `TopicInvariant` goes on from there: handlers that are
`alone` with a character exclude one another (`Alone`), have read its row as it is (`Read`), and the topic has a
character that is not in doubt on the map of its row, or a handler is about to announce that map (`Topic`). From it
come `TypeCorrect`, `ConsumersKnowTheMap` (`TopicKnowsTheMap`) and `ChangesChain` (`MapChangesChain`).

For any number of goroutines (`ServiceProofs`): `LockInvariant`, and from it `OneGoroutineInside`
(`MutualExclusion`). Whoever asked for a mutex has the stored one, only that one is ever locked, and whoever is inside
owns it. That there is a mutex to store follows from there being finitely many goroutines.

From the same lock invariant, for any number of goroutines, items and slots: `ServiceImplements`, that the interleaved
commands implement `EquipInventory` (`Implements`). `RefinementInvariant` (`RInv`) says how far each goroutine is
in terms of the committed rows: nothing is written (`Untouched`), or the first two moves of an exchange are
(`Parked`, `Halfway`), or the exchange is whole (`Exchanges`), and at the commit what the transaction sees and has
collected is the outcome of one whole command (`Whole`); only a goroutine inside has
written at all (`Quiet`). Since nobody else is inside, the committed rows stay what they were when it took the mutex, so
every step before the commit is a stutter and the commit is the command. A transaction that
fails or dies is a stutter too, unless its inserts have taken ids: that is a create that was refused and has used them up.
The mapping gives the sequence back only until the create commits (`NextId`). A create of several
units is followed by `Builds`: what the transaction has written is the rows of the units done so far, each in a slot
that was free when those before it were in the table, and the events are one for each.
From `RInv` also come `ScreenIsTable` (`ScreenShowsTable`: whenever nobody is between a commit and its last event, a consumer
of the topic has the committed rows) and `ServiceTypes`. What `CommandsFinish` needs besides scheduling is proved as well:
by `CommandsOnlyQueue` a command waits for the mutex only, whose holder never waits (no row it writes has another's lock, and
among rows in distinct slots the search finds a free one: `OneFreeSlot`, by the pigeonhole principle of `SomeSlotFree`), and by
`HoldersFinish` the holder is at most ten of its own steps from `Unlock`, and two more for each unit it has still to create,
each of which counts one off.

With one deletion beside them (`OneDeletion`, a hypothesis of these theorems): `DeletionInvariant` says of it what the lock
invariant says of a command, until it takes the mutex out of the registry, and `DeletionExcludes` is
`ExclusionUntilUnregistered`. `DeletedForGood` (`DeletedStaysDeleted`) needs no mutex at all, which matters, since the deletion gives
its back before it commits: `RowsInvariant` says that the rows a transaction has written are locked by it
and by no other, and that an update writes the rows its `WHERE` still finds, so that a statement that waited for
the deletion's lock writes nothing. `DeletionTypes` adds what each goroutine owns (`OwnsInv`). `DeletionHangs` is
`StuckOnlyIf`: there are no stuck states but `Entangled` and `Spinning` ones. Its invariant `HangInv` adds three
facts: a mutex is owned exactly by whoever is inside with it (`WaitInv`), the mutexes anybody knows are the
stored one and at most one that was dropped (`TwoMutexes`), and only those inside have written rows (`WritersInv`).
So with the deletion under way one other at most is inside (`OneInside`) and, if it waits, waits for a row
of the deletion: that is `Entangled`, or a cycle of rows, which the database breaks (`RowCycle`). After the deletion at most
two are inside (`AtMostTwo`), one with each mutex, and if both wait they wait for each other's rows, a cycle of rows again.

For any number of handlers, characters and rows (`RequestsProofs`): `RequestsInvariant`, and from it
`OthersOnlyAfterDeletion` (`ReadsOthersOnlyIf`) and `ServicesDifferOnlySo` (`DifferOnlyIf`). A row is
nowhere before the statistics service gave out its id (`Given`); the rows of an open create are nowhere else
(`Apart`); a deletion goes on only with rows whose statistics it has deleted (`Told`); and what a request knows of its
character is true until the character is deleted (`Knows`). `PlacesInvariant` follows each row that a request has
read: unless the commands have touched it since, it is where the request saw it, and a whole set of queries has seen every row that
stayed (`SeesAll`). With `SnapshotsInvariant` that gives `AnswersAreTrue` (`ShowsWhereItIs`) and
`DeletionLeaves` (`LeavesOnlyIf`: the five reasons for which a row may outlive its character). `RequestTypes` is `TypeOK`.

The proofs assume the named assumptions of the modules: the catalogue lists real positions,
no overall is listed for the bottom, no command names the parking slot, a stack is smaller than the word and a drop within it (200, 2^32 and int16 in
the code), goroutines are finitely many
and are none of the names the model keeps for others. Two theorem hypotheses say more and are written
in the statements they are needed for: `NoSlotZero` (the run `items` satisfies it, and the code does not enforce it:
`items_slot_zero` is what happens without it), and `OneDeletion`.

The library's induction theorems take an operator as a parameter, which no prover here can instantiate. Where a proof
is by induction over numbers (the elements of a movement, the stacks of a create, the events of a command, the size of a set that is summed), it takes the
least number for which the claim fails (`NatLeast`: a set of numbers that is not empty has a least member). A recursive
function is a choice of a function that satisfies its equation, so that there is one is proved first, by the same induction.

`SlotsStayUnique` and `DistinctReturns` together say that, run one at a time, commands never make the
search for a free slot spin; `ServiceImplements` carries that to interleaved commands (`RInv` has it as `Good`).

Only model-checked: everything under fairness (`CommandsFinish`, `DistinctReturns`, `TasksFinish`), of which the theorems above
give all but the scheduling, and of `HangsOnlyIf` the equivalence of `~ENABLED Progress` and `Stuck` (its other half
is `DeletionHangs`). Neither fairness nor `ENABLED` is within the prover's reach. Every other property of a passing
run is a theorem.

## 5. Assumptions

One process serves an inventory: a mutex of another process excludes nobody here. PostgreSQL runs at READ
COMMITTED and aborts a transaction in which a statement has failed. No command names the
parking slot (a client that named -32768 would reach a parked row; none is parked between commands).
Quantities asked for are 32 bits wide, dropped ones 16. Each message and each request is handled by a
goroutine of its own, so two messages about one character may overlap. Ids of characters come from a
sequence and begin at 1, and so do the ids that the statistics service gives out.

## 6. Not modelled, and the plan

Not modelled: REST parsing and rendering, JSON and gorm entities, tracing, logging, configuration,
connecting and migrating, the constants of jobs and items. None has state that the properties could be about.

Done, in this order: `SlotTable`, `EquipTable`, `EquipInventory` and its proofs (the most important
behaviour), `Slottable` and its proofs, `ItemInventory`, `InventoryService` as an implementation of
`EquipInventory`, `InventoryDelete`, `TemporalRegistry` and `CharacterLifecycle` with their proofs, `EquipmentView` and
`CharacterRequests`.

Next:

1. The queries that list characters (by account, map and name): a list is decorated by parallel goroutines, and world 0
   or map 0 is left out of the query by map.
2. The deletion of `CharacterLifecycle` refined to the steps of `CharacterRequests`.
