------------------------ MODULE CharacterLifecycle ------------------------
(***************************************************************************)
(* The rows of characters and of their inventories, from creation to       *)
(* deletion, and the character status topic: Create with IsValidName,      *)
(* Login, Logout, ChangeMap (character/processor.go), as goroutines run    *)
(* them, statement by statement.  What a deletion does row by row is in    *)
(* InventoryDelete; here it is the one step its commit is.  The position   *)
(* at the portal is in TemporalRegistry.                                   *)
(***************************************************************************)
EXTENDS Integers

CONSTANTS Handlers,      \* goroutines that handle requests, commands and events
          Names,         \* names that are asked for
          WellFormed,    \* those in which the pattern of a name occurs somewhere
          Lower,         \* LOWER(name)
          Levels,        \* levels that are asked for
          Maps,
          MaxId,         \* bound: characters ever inserted
          None           \* no map

ASSUME LifecycleAssumption ==
  /\ WellFormed \subseteq Names /\ Lower \in [Names -> Names]
  /\ Levels \subseteq Nat /\ None \notin Maps /\ MaxId \in Nat

VARIABLES
  characters,   \* committed rows: name and map of each character
  inventories,  \* committed rows: the types of inventory of each character
  seq,          \* the id sequence: it does not roll back
  knew,         \* history: the characters the name check of each one saw
  pc,           \* where each goroutine is
  job,          \* what it was asked to do
  row,          \* the row it has read, or has inserted and not committed
  saw,          \* the characters its name check saw
  alone,        \* history: nobody else has worked on its character meanwhile
  told,         \* the map a consumer of the topic has each character on
  doubt         \* history: characters of which the topic may be wrong

tables == <<characters, inventories, seq, knew>>
locals == <<job, row, saw, alone>>
topic == <<told, doubt>>
vars == <<tables, pc, locals, topic>>

Ids == 1 .. MaxId
Types == 1 .. 5   \* equip, use, setup, etc, cash

Asks(op, id, name, level, map) ==
  [op |-> op, id |-> id, name |-> name, level |-> level, map |-> map]

NoJob == Asks("none", 0, None, 0, None)

Jobs == {Asks("create", 0, n, l, m) : n \in Names, l \in Levels, m \in Maps}
        \cup {Asks("map", i, None, 0, m) : i \in Ids, m \in Maps}
        \cup {Asks(op, i, None, 0, None) : op \in {"login", "logout", "delete"}, i \in Ids}

Row(name, map, types) == [name |-> name, map |-> map, types |-> types]

NoRow == Row(None, None, {})

Init == /\ characters = <<>> /\ inventories = <<>> /\ seq = 1 /\ knew = <<>>
        /\ pc = [h \in Handlers |-> "idle"]
        /\ job = [h \in Handlers |-> NoJob]
        /\ row = [h \in Handlers |-> NoRow]
        /\ saw = [h \in Handlers |-> {}]
        /\ alone = [h \in Handlers |-> FALSE]
        /\ told = [i \in Ids |-> None]
        /\ doubt = {}

-----------------------------------------------------------------------------
\* A table with the row of one more character.
With(t, id, r) == [i \in DOMAIN t \cup {id} |-> IF i = id THEN r ELSE t[i]]

Goes(h, step) == pc' = [pc EXCEPT ![h] = step]

\* The handler returns.
Ends(h) == /\ Goes(h, "idle")
           /\ job' = [job EXCEPT ![h] = NoJob]
           /\ row' = [row EXCEPT ![h] = NoRow]
           /\ saw' = [saw EXCEPT ![h] = {}]
           /\ alone' = [alone EXCEPT ![h] = FALSE]

\* A request, a command or a session event reaches a goroutine.  A login and a
\* logout come from session events, of a channel only: others are ignored.
Begin(h) ==
  /\ pc[h] = "idle"
  /\ \E j \in Jobs :
       /\ job' = [job EXCEPT ![h] = j]
       /\ Goes(h, CASE j.op = "create" -> "check"
                    [] j.op = "delete" -> "delete"
                    [] OTHER -> "find")
  /\ UNCHANGED <<tables, row, saw, alone, topic>>

-----------------------------------------------------------------------------
\* IsValidName: the name has the form of a name and no character has it in
\* any spelling.  A failed query is an invalid name too.
SameSpelling(n, m) == n = m

SameName(n, m) == Lower[n] = Lower[m]

Taken(name) == \E i \in DOMAIN characters : SameName(characters[i].name, name)

ValidIfFree(j) == ~Taken(j.name) /\ j.level \in 1 .. 200

Valid(j) == j.name \in WellFormed /\ ~Taken(j.name) /\ j.level \in 1 .. 200

\* The check is outside the transaction.
Check(h) ==
  /\ pc[h] = "check"
  /\ \/ Ends(h) /\ UNCHANGED <<tables, topic>>
     \/ /\ Valid(job[h]) /\ seq <= MaxId
        /\ saw' = [saw EXCEPT ![h] = DOMAIN characters]
        /\ Goes(h, "insert")
        /\ UNCHANGED <<tables, job, row, alone, topic>>

Insert(h) ==
  /\ pc[h] = "insert" /\ seq <= MaxId
  /\ seq' = seq + 1
  /\ job' = [job EXCEPT ![h].id = seq]
  /\ row' = [row EXCEPT ![h] = Row(job[h].name, job[h].map, {})]
  /\ Goes(h, "inventories")
  /\ UNCHANGED <<characters, inventories, knew, saw, alone, topic>>

\* inventory.Create: the five in order, in the transaction of the character.
NextType(h) == CHOOSE t \in Types \ row[h].types : \A u \in Types \ row[h].types : t <= u

StoresInventoryAtOnce(h) ==
  /\ row' = [row EXCEPT ![h].types = @ \cup {NextType(h)}]
  /\ inventories' = With(inventories, job[h].id, row[h].types \cup {NextType(h)})

StoresInventory(h) == /\ row' = [row EXCEPT ![h].types = @ \cup {NextType(h)}]
                      /\ UNCHANGED inventories

CreateInventory(h) ==
  /\ pc[h] = "inventories"
  /\ StoresInventory(h)
  /\ Goes(h, IF row'[h].types = Types THEN "commit" ELSE "inventories")
  /\ UNCHANGED <<characters, seq, knew, job, saw, alone, topic>>

\* The created event follows the commit.  It names no map, and the request
\* fails if it cannot be published, though the character is there.
Commit(h) ==
  /\ pc[h] = "commit"
  /\ characters' = With(characters, job[h].id, [name |-> row[h].name, map |-> row[h].map])
  /\ inventories' = With(inventories, job[h].id, row[h].types)
  /\ knew' = With(knew, job[h].id, saw[h])
  /\ Ends(h)
  /\ UNCHANGED <<seq, topic>>

\* A statement of the transaction, or its commit, fails: all is rolled back.
FailCreate(h) == /\ pc[h] \in {"insert", "inventories", "commit"}
                 /\ Ends(h)
                 /\ UNCHANGED <<tables, topic>>

-----------------------------------------------------------------------------
\* Delete: the character and its inventories, if it is there and nothing fails.
Delete(h) ==
  LET others == DOMAIN characters \ {job[h].id} IN
  /\ pc[h] = "delete"
  /\ \/ UNCHANGED tables
     \/ /\ characters' = [i \in others |-> characters[i]]
        /\ inventories' = [i \in DOMAIN inventories \ {job[h].id} |-> inventories[i]]
        /\ knew' = [i \in others |-> knew[i]]
        /\ UNCHANGED seq
  /\ Ends(h)
  /\ UNCHANGED topic

-----------------------------------------------------------------------------
\* Login, Logout and ChangeMap read the character first.
Works(h, id) == pc[h] \in {"save", "portal", "announce"} /\ job[h].id = id

Find(h) ==
  LET id == job[h].id
      others == {g \in Handlers : Works(g, id)}
  IN /\ pc[h] = "find"
     /\ \/ Ends(h) /\ UNCHANGED <<tables, topic>>
        \/ /\ id \in DOMAIN characters
           /\ row' = [row EXCEPT ![h] = Row(characters[id].name, characters[id].map, {})]
           /\ alone' = [g \in Handlers |-> IF g = h THEN others = {}
                                           ELSE alone[g] /\ g \notin others]
           /\ Goes(h, IF job[h].op = "map" THEN "save" ELSE "announce")
           /\ UNCHANGED <<tables, job, saw, topic>>

\* The model passed on to the later operators is the one read before the change.
Rereads(h) == /\ row' = [row EXCEPT ![h].map = job[h].map]
              /\ UNCHANGED <<job, saw, alone>>

KeepsModel(h) == UNCHANGED locals

\* SetMapId: no row is updated if the character is gone, and no error returned.
Save(h) ==
  LET id == job[h].id IN
  /\ pc[h] = "save"
  /\ \/ Ends(h) /\ UNCHANGED <<tables, topic>>
     \/ /\ characters' = [i \in DOMAIN characters |->
                            IF i = id THEN [characters[i] EXCEPT !.map = job[h].map]
                            ELSE characters[i]]
        /\ Goes(h, "portal") /\ KeepsModel(h)
        /\ UNCHANGED <<inventories, seq, knew, topic>>

\* The portal's position; without it, the change is neither undone nor told.
Portal(h) ==
  /\ pc[h] = "portal"
  /\ \/ Goes(h, "announce") /\ UNCHANGED <<tables, locals, topic>>
     \/ /\ doubt' = doubt \cup {job[h].id}
        /\ Ends(h)
        /\ UNCHANGED <<tables, told>>

\* What the event makes a consumer believe.  A map change tells the map read
\* at the start as the one left; a logout leaves the character on no map.
TellsRead(h) == IF job[h].op = "logout" THEN None ELSE row[h].map

Tells(h) == IF job[h].op = "logout" THEN None
            ELSE IF job[h].op = "map" THEN job[h].map ELSE row[h].map

Leaves(h) == row[h].map

\* A message that is lost, or one of a goroutine that was not alone, leaves the
\* topic in doubt; one of a goroutine that was alone ends the doubt.
Announce(h) ==
  LET id == job[h].id IN
  /\ pc[h] = "announce"
  /\ \/ /\ told' = [told EXCEPT ![id] = Tells(h)]
        /\ doubt' = IF alone[h] THEN doubt \ {id} ELSE doubt \cup {id}
     \/ UNCHANGED told /\ doubt' = doubt \cup {id}
  /\ Ends(h)
  /\ UNCHANGED tables

-----------------------------------------------------------------------------
\* The process dies: goroutines and open transactions are gone.
Crash ==
  /\ pc' = [h \in Handlers |-> "idle"]
  /\ job' = [h \in Handlers |-> NoJob]
  /\ row' = [h \in Handlers |-> NoRow]
  /\ saw' = [h \in Handlers |-> {}]
  /\ alone' = [h \in Handlers |-> FALSE]
  /\ doubt' = doubt \cup {i \in Ids : \E h \in Handlers : Works(h, i)}
  /\ UNCHANGED <<tables, told>>

Handle(h) == \/ Begin(h)
             \/ Check(h) \/ Insert(h) \/ CreateInventory(h) \/ Commit(h) \/ FailCreate(h)
             \/ Delete(h)
             \/ Find(h) \/ Save(h) \/ Portal(h) \/ Announce(h)

Next == Crash \/ \E h \in Handlers : Handle(h)

Spec == Init /\ [][Next]_vars

-----------------------------------------------------------------------------
TypeOK ==
  /\ DOMAIN characters \subseteq 1 .. seq - 1
  /\ characters \in [DOMAIN characters -> [name : WellFormed, map : Maps]]
  /\ knew \in [DOMAIN characters -> SUBSET Ids]
  /\ told \in [Ids -> Maps \cup {None}] /\ doubt \subseteq Ids

\* Two characters share a name, in whatever spelling, only if neither was there
\* when the other's name was checked: both checks came before both commits.
TwinsMissedEachOther ==
  \A i, j \in DOMAIN characters :
    i # j /\ Lower[characters[i].name] = Lower[characters[j].name] =>
      i \notin knew[j] /\ j \notin knew[i]

\* Every character has its five inventories, and no others are left behind,
\* whatever failed on the way.
FiveInventories == inventories = [i \in DOMAIN characters |-> Types]

\* Whoever follows the topic has each character on the map that is saved,
\* unless an event is missing or two handlers overlapped, and has it again
\* after the next event of a handler that was alone.
TopicKnowsTheMap ==
  \A i \in DOMAIN characters \ doubt :
    (\A h \in Handlers : ~Works(h, i)) => told[i] \in {None, characters[i].map}

\* A map change of a handler that was alone tells as the map left the one the
\* topic had the character on.
MapChangesChain ==
  [][\A h \in Handlers :
       LET i == job[h].id IN
       pc[h] = "announce" /\ job[h].op = "map" /\ alone[h] /\ i \notin doubt
         /\ told[i] # None /\ told'[i] # told[i] =>
         Leaves(h) = told[i]]_vars
=============================================================================
