------------------------- MODULE TemporalRegistry -------------------------
(***************************************************************************)
(* The temporal registry (character/temporal_data.go): position and stance *)
(* of the characters, in memory, and its three users: the REST view reads, *)
(* a map change writes the position of the portal, a movement reads the    *)
(* stance and then, in a second critical section, writes what it has       *)
(* folded (character/processor.go).  The lock of a character is made by    *)
(* the first goroutine that misses it; the two maps are read and written   *)
(* as Go maps are, where a write beside another access may end the process.*)
(***************************************************************************)
EXTENDS Integers, FiniteSets, Sequences

CONSTANTS Handlers,      \* goroutines that handle requests and messages
          Characters,
          Positions,     \* pairs of coordinates
          Origin,        \* (0, 0)
          Stances,       \* what a byte of stance can be, 0 included
          Requests,      \* the tasks that requests and messages give, by character
          None           \* nil, and no lock

ASSUME TemporalAssumption ==
  /\ IsFiniteSet(Handlers) /\ None \notin Handlers
  /\ Origin \in Positions /\ 0 \in Stances

VARIABLES
  characterLocks,  \* the lock stored for each character: who made it
  made,            \* history: the locks made for each character
  locks,           \* the state of each lock object
  data,            \* what the registry holds of each character
  pc,              \* where each goroutine is
  who,             \* the character it serves
  task,            \* what it was asked to do
  mode,            \* is it to read or to write
  mine,            \* the lock object it has looked up
  seen             \* what it has read of the character

memory == <<characterLocks, made, locks, data>>
vars == <<memory, pc, who, task, mode, mine, seen>>

-----------------------------------------------------------------------------
\* temporalData and its constructors.
temporalData == [position : Positions, stance : Stances]

Unset == [position |-> Origin, stance |-> 0]

Known(d) == IF d = None THEN Unset ELSE d

UpdatePositionAnew(d, to) == [Unset EXCEPT !.position = to.position]

UpdatePosition(d, to) == [Known(d) EXCEPT !.position = to.position]

Update(d, to) == to

\* FoldMovementSummary on the elements of a movement.
FoldMovementSummary(ms, e) ==
  IF e.type = "NORMAL" THEN [position |-> e.position, stance |-> e.action]
  ELSE IF e.type \in {"JUMP", "TELEPORT", "START_FALL_DOWN"}
       THEN [ms EXCEPT !.stance = e.action]
       ELSE ms

\* model.Fold: the summary after each element.
Fold(ms, elements) ==
  LET after[k \in 0 .. Len(elements)] ==
        IF k = 0 THEN ms ELSE FoldMovementSummary(after[k - 1], elements[k])
  IN after[Len(elements)]

\* A summary that begins with no stance instead of the current one.
SummaryOfNoStance(m, stance) ==
  Fold([position |-> m.start, stance |-> None], m.elements)

Summary(m, stance) == Fold([position |-> m.start, stance |-> stance], m.elements)

Stay == [start |-> Origin, elements |-> <<>>]

Asks(op, m, to) == [op |-> op, movement |-> m, to |-> to]

Show == Asks("show", Stay, Unset)

Move(m) == Asks("move", m, Unset)

Portal(p) == Asks("portal", Stay, [position |-> p, stance |-> 0])

NoTask == Asks("none", Stay, Unset)

Element == [type : STRING, position : Positions, action : Stances]

Task == [op : {"show", "move", "portal", "none"},
         movement : [start : Positions, elements : Seq(Element)], to : temporalData]

ASSUME RequestsAssumption == \A c \in Characters : Requests[c] \subseteq Task

Free == [writer |-> FALSE, readers |-> 0]

Init == /\ characterLocks = [c \in Characters |-> None]
        /\ made = [c \in Characters |-> {}]
        /\ locks = [c \in Characters |-> [k \in Handlers |-> Free]]
        /\ data = [c \in Characters |-> None]
        /\ pc = [h \in Handlers |-> "idle"]
        /\ who = [h \in Handlers |-> None]
        /\ task = [h \in Handlers |-> NoTask]
        /\ mode = [h \in Handlers |-> "read"]
        /\ mine = [h \in Handlers |-> None]
        /\ seen = [h \in Handlers |-> None]

-----------------------------------------------------------------------------
Goes(h, step) == pc' = [pc EXCEPT ![h] = step]

\* A message or a request is handed to a goroutine.  A map change begins with
\* its write, the others with a read.
Start(h) ==
  /\ pc[h] = "idle"
  /\ \E c \in Characters : \E t \in Requests[c] :
       /\ who' = [who EXCEPT ![h] = c]
       /\ task' = [task EXCEPT ![h] = t]
       /\ mode' = [mode EXCEPT ![h] = IF t.op = "portal" THEN "write" ELSE "read"]
  /\ Goes(h, "lookup")
  /\ UNCHANGED <<memory, mine, seen>>

\* lockCharacter, readLockCharacter: the map of locks is read unguarded.
Lookup(h) ==
  /\ pc[h] = "lookup"
  /\ mine' = [mine EXCEPT ![h] = characterLocks[who[h]]]
  /\ Goes(h, IF characterLocks[who[h]] = None THEN "create" ELSE "acquire")
  /\ UNCHANGED <<memory, who, task, mode, seen>>

\* A lock is made and stored under r.mutex, over one that may have appeared.
Create(h) ==
  /\ pc[h] = "create"
  /\ characterLocks' = [characterLocks EXCEPT ![who[h]] = h]
  /\ made' = [made EXCEPT ![who[h]] = @ \cup {h}]
  /\ mine' = [mine EXCEPT ![h] = h]
  /\ Goes(h, "acquire")
  /\ UNCHANGED <<locks, data, who, task, mode, seen>>

\* Lock or RLock on the object looked up.
HeldByOneReader(m, l) == IF m = "write" THEN [l EXCEPT !.writer = TRUE]
                         ELSE [l EXCEPT !.readers = 1]

Held(m, l) == IF m = "write" THEN [l EXCEPT !.writer = TRUE]
              ELSE [l EXCEPT !.readers = @ + 1]

AvailableToAll(m, l) == ~l.writer

Available(m, l) == ~l.writer /\ (m = "write" => l.readers = 0)

Acquire(h) ==
  LET l == locks[who[h]][mine[h]] IN
  /\ pc[h] = "acquire"
  /\ Available(mode[h], l)
  /\ locks' = [locks EXCEPT ![who[h]][mine[h]] = Held(mode[h], l)]
  /\ Goes(h, "access")
  /\ UNCHANGED <<characterLocks, made, data, who, task, mode, mine, seen>>

\* The value is read, by writers too.
Access(h) ==
  /\ pc[h] = "access"
  /\ seen' = [seen EXCEPT ![h] = data[who[h]]]
  /\ Goes(h, IF mode[h] = "write" THEN "store" ELSE "release")
  /\ UNCHANGED <<memory, who, task, mode, mine>>

\* UpdatePosition of a map change, Update of a movement.
Store(h) ==
  /\ pc[h] = "store"
  /\ data' = [data EXCEPT ![who[h]] =
                IF task[h].op = "portal" THEN UpdatePosition(seen[h], task[h].to)
                ELSE Update(seen[h], task[h].to)]
  /\ Goes(h, "release")
  /\ UNCHANGED <<characterLocks, made, locks, who, task, mode, mine, seen>>

\* unlockCharacter, readUnlockCharacter: the lock stored by now is the one
\* given back.  A movement that has read the stance folds, and goes on to write.
Stored(h) == locks[who[h]][characterLocks[who[h]]]

Releasable(h) == IF mode[h] = "write" THEN Stored(h).writer ELSE Stored(h).readers > 0

StaysReleased(m, l) == l

Released(m, l) == IF m = "write" THEN [l EXCEPT !.writer = FALSE]
                  ELSE [l EXCEPT !.readers = @ - 1]

Folds(h) == task[h].op = "move" /\ mode[h] = "read"

Release(h) ==
  /\ pc[h] = "release" /\ Releasable(h)
  /\ locks' = [locks EXCEPT ![who[h]][characterLocks[who[h]]] = Released(mode[h], @)]
  /\ mine' = [mine EXCEPT ![h] = None]
  /\ seen' = [seen EXCEPT ![h] = None]
  /\ IF Folds(h)
     THEN /\ task' = [task EXCEPT ![h].to = Summary(task[h].movement, Known(seen[h]).stance)]
          /\ mode' = [mode EXCEPT ![h] = "write"]
          /\ Goes(h, "lookup") /\ UNCHANGED who
     ELSE /\ who' = [who EXCEPT ![h] = None]
          /\ task' = [task EXCEPT ![h] = NoTask]
          /\ mode' = [mode EXCEPT ![h] = "read"]
          /\ Goes(h, "idle")
  /\ UNCHANGED <<characterLocks, made, data>>

-----------------------------------------------------------------------------
\* What the Go runtime ends the process for: a map written beside another
\* access (it may, or may not, notice) and a mutex unlocked that is not locked.
Creates(h) == pc[h] = "create"
ReadsLocks(h) == pc[h] \in {"lookup", "release"}
ReadsData(h) == pc[h] = "access"
WritesData(h) == pc[h] = "store"

LocksRace == \E g, h \in Handlers : Creates(g) /\ ReadsLocks(h)

DataRace == \E g, h \in Handlers :
              g # h /\ WritesData(g) /\ (ReadsData(h) \/ WritesData(h))

BadUnlock == \E h \in Handlers : pc[h] = "release" /\ ~Releasable(h)

Fatal == LocksRace \/ DataRace \/ BadUnlock

\* The process ends, for that or because it is stopped.  The registry is in
\* memory only: the next process begins with an empty one.
Restart ==
  /\ characterLocks' = [c \in Characters |-> None]
  /\ made' = [c \in Characters |-> {}]
  /\ locks' = [c \in Characters |-> [k \in Handlers |-> Free]]
  /\ data' = [c \in Characters |-> None]
  /\ pc' = [h \in Handlers |-> "idle"]
  /\ who' = [h \in Handlers |-> None]
  /\ task' = [h \in Handlers |-> NoTask]
  /\ mode' = [h \in Handlers |-> "read"]
  /\ mine' = [h \in Handlers |-> None]
  /\ seen' = [h \in Handlers |-> None]

Step(h) == Lookup(h) \/ Create(h) \/ Access(h) \/ Store(h) \/ Release(h)

Next == Restart \/ \E h \in Handlers : Start(h) \/ Step(h) \/ Acquire(h)

\* Goroutines keep running, and a sync.RWMutex starves neither readers nor
\* writers.  Requests need not come, and the process need not die.
Fairness == \A h \in Handlers : WF_vars(Step(h)) /\ SF_vars(Acquire(h))

Spec == Init /\ [][Next]_vars /\ Fairness

-----------------------------------------------------------------------------
TypeOK ==
  /\ characterLocks \in [Characters -> Handlers \cup {None}]
  /\ made \in [Characters -> SUBSET Handlers]
  /\ locks \in [Characters -> [Handlers -> [writer : BOOLEAN, readers : Nat]]]
  /\ data \in [Characters -> temporalData \cup {None}]
  /\ pc \in [Handlers -> {"idle", "lookup", "create", "acquire", "access", "store",
                          "release"}]
  /\ mode \in [Handlers -> {"read", "write"}]
  /\ mine \in [Handlers -> Handlers \cup {None}]
  /\ seen \in [Handlers -> temporalData \cup {None}]
  /\ who \in [Handlers -> Characters \cup {None}]
  /\ \A h \in Handlers : pc[h] # "idle" => who[h] \in Characters

\* At most one lock was made for the character since the process started.
OneLock(c) == \A g, h \in made[c] : g = h

\* While a character has one lock, a goroutine that writes it is alone with it.
Inside(h) == pc[h] \in {"access", "store", "release"}

OneLockExcludes ==
  \A g, h \in Handlers :
    g # h /\ Inside(g) /\ Inside(h) /\ who[g] = who[h] /\ OneLock(who[g]) =>
      mode[g] = "read" /\ mode[h] = "read"

\* The process dies of its registry only while a lock is being made, when two
\* were made for one character, or when goroutines of two characters are in
\* the map of the data at once.  A character whose lock exists, alone, is safe.
DiesOnlyIf ==
  Fatal =>
    \/ \E h \in Handlers : Creates(h)
    \/ \E c \in Characters : ~OneLock(c)
    \/ \E g, h \in Handlers : Inside(g) /\ Inside(h) /\ who[g] # who[h]

\* A map change writes the position and leaves the stance as it is then: with
\* one lock, no movement comes between its read and its write.
PortalKeepsStance ==
  [][\A h \in Handlers :
       WritesData(h) /\ ~WritesData(h)' /\ ~Restart /\ task[h].op = "portal"
         /\ OneLock(who[h]) =>
         data'[who[h]].stance = Known(data[who[h]]).stance]_vars

\* With one lock for its character a task that waits for the lock ends, if
\* the process does not.  With two, the lock it waits for may never be given back.
TasksFinish ==
  \A h \in Handlers :
    pc[h] = "acquire" ~> IF pc[h] = "idle" THEN TRUE ELSE ~OneLock(who[h])
=============================================================================
