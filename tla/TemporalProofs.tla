--------------------------- MODULE TemporalProofs ---------------------------
(***************************************************************************)
(* For any number of goroutines and characters: as long as one lock was    *)
(* made for a character, that lock excludes writers from readers and from  *)
(* one another, and giving it back is safe.                                *)
(*                                                                         *)
(* The lock given back is the one stored by then, not the one taken, so    *)
(* exclusion rests on the two being the same: what a goroutine has looked  *)
(* up was made for its character (LooksUpMade), and of those there is one. *)
(* The count in the lock is then the number of readers inside (Counts).    *)
(***************************************************************************)
EXTENDS TemporalRegistry, FiniteSetTheorems, TLAPS

Readers(c) == {h \in Handlers : Inside(h) /\ who[h] = c /\ mode[h] = "read"}

Writers(c) == {h \in Handlers : Inside(h) /\ who[h] = c /\ mode[h] = "write"}

Shape ==
  /\ characterLocks \in [Characters -> Handlers \cup {None}]
  /\ made \in [Characters -> SUBSET Handlers]
  /\ locks \in [Characters -> [Handlers -> [writer : BOOLEAN, readers : Nat]]]
  /\ pc \in [Handlers -> {"idle", "lookup", "create", "acquire", "access", "store",
                          "release"}]
  /\ who \in [Handlers -> Characters \cup {None}]
  /\ mode \in [Handlers -> {"read", "write"}]
  /\ mine \in [Handlers -> Handlers \cup {None}]
  /\ \A h \in Handlers : pc[h] # "idle" => who[h] \in Characters
  /\ \A h \in Handlers : pc[h] = "store" => mode[h] = "write"

StoresMade ==
  \A c \in Characters :
    \/ characterLocks[c] = None /\ made[c] = {}
    \/ characterLocks[c] \in made[c]

HasLock(h) == pc[h] \in {"acquire", "access", "store", "release"}

LooksUpMade == \A h \in Handlers : HasLock(h) => mine[h] \in made[who[h]]

NewIsFree ==
  \A c \in Characters : \A k \in Handlers : k \notin made[c] => locks[c][k] = Free

Counts(c, l) ==
  /\ l.readers = Cardinality(Readers(c))
  /\ l.writer <=> Writers(c) # {}
  /\ Writers(c) # {} => Readers(c) = {}
  /\ \A g, h \in Writers(c) : g = h

OneLockCounts ==
  \A c \in Characters : OneLock(c) => \A k \in made[c] : Counts(c, locks[c][k])

IInv == Shape /\ StoresMade /\ LooksUpMade /\ NewIsFree /\ OneLockCounts

-----------------------------------------------------------------------------
(* A set of goroutines, with one more and with one less. *)
LEMMA SetsOfHandlers ==
  ASSUME NEW S \in SUBSET Handlers, NEW h \in Handlers
  PROVE /\ IsFiniteSet(S) /\ Cardinality(S) \in Nat
        /\ Cardinality(S) = 0 <=> S = {}
        /\ h \notin S => Cardinality(S \cup {h}) = Cardinality(S) + 1
        /\ h \in S => Cardinality(S \ {h}) = Cardinality(S) - 1
<1>1. IsFiniteSet(S)
  BY TemporalAssumption, FS_Subset
<1>2. Cardinality(S) \in Nat
  BY <1>1, FS_CardinalityType
<1>3. Cardinality(S) = 0 <=> S = {}
  BY <1>1, FS_EmptySet
<1>4. h \notin S => Cardinality(S \cup {h}) = Cardinality(S) + 1
  BY <1>1, FS_AddElement
<1>5. h \in S => Cardinality(S \ {h}) = Cardinality(S) - 1
  BY <1>1, FS_RemoveElement
<1> QED BY <1>1, <1>2, <1>3, <1>4, <1>5

(* A lock taken, and one given back, is a lock. *)
LEMMA HeldAndReleased ==
  ASSUME NEW l \in [writer : BOOLEAN, readers : Nat], NEW m
  PROVE /\ Held(m, l) \in [writer : BOOLEAN, readers : Nat]
        /\ (m = "write" \/ l.readers > 0) =>
             Released(m, l) \in [writer : BOOLEAN, readers : Nat]
<1>1. CASE m = "write"
  BY <1>1 DEF Held, Released
<1>2. CASE m # "write"
  <2>1. l.readers \in Nat /\ l.readers + 1 \in Nat
    OBVIOUS
  <2>2. l.readers > 0 => l.readers - 1 \in Nat
    BY <2>1
  <2> QED BY <1>2, <2>1, <2>2 DEF Held, Released
<1> QED BY <1>1, <1>2

(* Nobody is inside for a character that has no lock yet. *)
LEMMA NobodyInsideUnmade ==
  ASSUME IInv, NEW c \in Characters, made[c] = {}
  PROVE Readers(c) = {} /\ Writers(c) = {}
BY DEF IInv, LooksUpMade, HasLock, Readers, Writers, Inside

(* With one lock made, whoever is inside has taken the lock that is stored. *)
LEMMA TakesTheStored ==
  ASSUME IInv, NEW h \in Handlers, HasLock(h), OneLock(who[h])
  PROVE /\ who[h] \in Characters
        /\ mine[h] = characterLocks[who[h]] /\ mine[h] \in made[who[h]]
        /\ mine[h] \in Handlers
        /\ Counts(who[h], locks[who[h]][mine[h]])
<1>1. who[h] \in Characters /\ mine[h] \in made[who[h]]
  BY DEF IInv, Shape, LooksUpMade, HasLock
<1>2. characterLocks[who[h]] \in made[who[h]]
  BY <1>1 DEF IInv, StoresMade
<1>3. mine[h] = characterLocks[who[h]]
  BY <1>1, <1>2 DEF OneLock
<1>4. mine[h] \in Handlers
  BY <1>1 DEF IInv, Shape
<1> QED BY <1>1, <1>3, <1>4 DEF IInv, OneLockCounts

LEMMA InitInv == ASSUME Init PROVE IInv
<1>1. Shape /\ StoresMade /\ LooksUpMade /\ NewIsFree
  BY DEF Init, Shape, StoresMade, LooksUpMade, HasLock, NewIsFree, Free
<1>2. OneLockCounts
  BY DEF Init, OneLockCounts
<1> QED BY <1>1, <1>2 DEF IInv

(* A restart is a fresh start. *)
LEMMA RestartInv == ASSUME Restart PROVE IInv'
<1>1. Shape' /\ StoresMade' /\ LooksUpMade' /\ NewIsFree'
  BY DEF Restart, Shape, StoresMade, LooksUpMade, HasLock, NewIsFree, Free
<1>2. OneLockCounts'
  BY DEF Restart, OneLockCounts
<1> QED BY <1>1, <1>2 DEF IInv

-----------------------------------------------------------------------------
(* The locks count the same goroutines as long as those inside stay inside. *)
LEMMA InsideUnchanged ==
  ASSUME IInv, locks' = locks,
         \A h \in Handlers : Inside(h)' <=> Inside(h),
         \A h \in Handlers : Inside(h) => who'[h] = who[h] /\ mode'[h] = mode[h],
         NEW c \in Characters, OneLock(c), NEW k \in made[c]
  PROVE Counts(c, locks[c][k])'
<1>1. Readers(c)' = Readers(c) /\ Writers(c)' = Writers(c)
  BY DEF Readers, Writers
<1>2. Counts(c, locks[c][k])
  BY DEF IInv, OneLockCounts
<1> QED BY <1>1, <1>2 DEF Counts

LEMMA StartInv == ASSUME IInv, NEW h \in Handlers, Start(h) PROVE IInv'
<1> USE DEF Start, Goes, memory
<1>1. Shape'
  BY DEF IInv, Shape
<1>2. StoresMade' /\ NewIsFree'
  BY DEF IInv, StoresMade, NewIsFree
<1>3. LooksUpMade'
  BY DEF IInv, Shape, LooksUpMade, HasLock
<1>4. OneLockCounts'
  <2>1. \A g \in Handlers : Inside(g)' <=> Inside(g)
    BY DEF IInv, Shape, Inside
  <2>2. \A g \in Handlers : Inside(g) => who'[g] = who[g] /\ mode'[g] = mode[g]
    BY DEF IInv, Shape, Inside
  <2> QED BY <2>1, <2>2, InsideUnchanged DEF OneLockCounts, OneLock
<1> QED BY <1>1, <1>2, <1>3, <1>4 DEF IInv

LEMMA LookupInv == ASSUME IInv, NEW h \in Handlers, Lookup(h) PROVE IInv'
<1> USE DEF Lookup, Goes, memory
<1>1. Shape'
  BY DEF IInv, Shape
<1>2. StoresMade' /\ NewIsFree'
  BY DEF IInv, StoresMade, NewIsFree
<1>3. LooksUpMade'
  BY DEF IInv, Shape, StoresMade, LooksUpMade, HasLock
<1>4. OneLockCounts'
  <2>1. \A g \in Handlers : Inside(g)' <=> Inside(g)
    BY DEF IInv, Shape, Inside
  <2> QED BY <2>1, InsideUnchanged DEF OneLockCounts, OneLock
<1> QED BY <1>1, <1>2, <1>3, <1>4 DEF IInv

LEMMA AccessInv == ASSUME IInv, NEW h \in Handlers, Access(h) PROVE IInv'
<1> USE DEF Access, Goes, memory
<1>1. Shape'
  BY DEF IInv, Shape
<1>2. StoresMade' /\ NewIsFree'
  BY DEF IInv, StoresMade, NewIsFree
<1>3. LooksUpMade'
  BY DEF IInv, Shape, LooksUpMade, HasLock
<1>4. OneLockCounts'
  <2>1. \A g \in Handlers : Inside(g)' <=> Inside(g)
    BY DEF IInv, Shape, Inside
  <2> QED BY <2>1, InsideUnchanged DEF OneLockCounts, OneLock
<1> QED BY <1>1, <1>2, <1>3, <1>4 DEF IInv

LEMMA StoreInv == ASSUME IInv, NEW h \in Handlers, Store(h) PROVE IInv'
<1> USE DEF Store, Goes
<1>1. Shape'
  BY DEF IInv, Shape
<1>2. StoresMade' /\ NewIsFree'
  BY DEF IInv, StoresMade, NewIsFree
<1>3. LooksUpMade'
  BY DEF IInv, Shape, LooksUpMade, HasLock
<1>4. OneLockCounts'
  <2>1. \A g \in Handlers : Inside(g)' <=> Inside(g)
    BY DEF IInv, Shape, Inside
  <2> QED BY <2>1, InsideUnchanged DEF OneLockCounts, OneLock
<1> QED BY <1>1, <1>2, <1>3, <1>4 DEF IInv

(* A first lock is free and nobody is inside; after a second, nothing is     *)
(* claimed of the character.                                               *)
LEMMA CreateInv == ASSUME IInv, NEW h \in Handlers, Create(h) PROVE IInv'
<1> USE DEF Create, Goes
<1>0. who[h] \in Characters
  BY DEF IInv, Shape
<1>1. Shape'
  BY <1>0 DEF IInv, Shape
<1>2. StoresMade'
  BY <1>0 DEF IInv, Shape, StoresMade
<1>3. NewIsFree'
  BY <1>0 DEF IInv, Shape, NewIsFree
<1>4. LooksUpMade'
  BY <1>0 DEF IInv, Shape, LooksUpMade, HasLock
<1>5. ASSUME NEW c \in Characters, OneLock(c)', NEW k \in made'[c]
      PROVE Counts(c, locks[c][k])'
  <2>1. \A g \in Handlers : Inside(g)' <=> Inside(g)
    BY DEF IInv, Shape, Inside
  <2>2. Readers(c)' = Readers(c) /\ Writers(c)' = Writers(c)
    BY <2>1 DEF Readers, Writers
  <2>3. CASE k \in made[c]
    <3>1. OneLock(c)
      BY <1>0, <1>5 DEF IInv, Shape, OneLock
    <3> QED BY <2>1, <2>3, <3>1, InsideUnchanged
  <2>4. CASE k \notin made[c]
    <3>1. made[c] = {} /\ k \in Handlers
      BY <1>0, <1>5, <2>4 DEF IInv, Shape, OneLock
    <3>2. locks[c][k] = Free
      BY <2>4, <3>1 DEF IInv, NewIsFree
    <3>3. Readers(c) = {} /\ Writers(c) = {}
      BY <3>1, NobodyInsideUnmade
    <3>4. Cardinality({}) = 0
      BY FS_EmptySet
    <3> QED BY <2>2, <3>2, <3>3, <3>4 DEF Counts, Free
  <2> QED BY <2>3, <2>4
<1>6. OneLockCounts'
  BY <1>5 DEF OneLockCounts
<1> QED BY <1>1, <1>2, <1>3, <1>4, <1>6 DEF IInv

(* The goroutine that gets the lock joins the readers, or is alone.         *)
LEMMA AcquireInv == ASSUME IInv, NEW h \in Handlers, Acquire(h) PROVE IInv'
<1> USE DEF Acquire, Goes
<1>0. who[h] \in Characters /\ mine[h] \in made[who[h]] /\ mine[h] \in Handlers
  BY DEF IInv, Shape, LooksUpMade, HasLock
<1>1. Shape'
  <2>1. Held(mode[h], locks[who[h]][mine[h]]) \in [writer : BOOLEAN, readers : Nat]
    <3>1. locks[who[h]][mine[h]] \in [writer : BOOLEAN, readers : Nat]
      BY <1>0 DEF IInv, Shape
    <3> QED BY <3>1, HeldAndReleased
  <2>2. locks' \in [Characters -> [Handlers -> [writer : BOOLEAN, readers : Nat]]]
    BY <1>0, <2>1 DEF IInv, Shape
  <2> QED BY <2>2 DEF IInv, Shape
<1>2. StoresMade'
  BY DEF IInv, StoresMade
<1>3. NewIsFree'
  BY <1>0 DEF IInv, Shape, NewIsFree
<1>4. LooksUpMade'
  BY DEF IInv, Shape, LooksUpMade, HasLock
<1>5. /\ Inside(h)' /\ ~Inside(h)
      /\ \A g \in Handlers \ {h} : Inside(g)' <=> Inside(g)
  BY DEF IInv, Shape, Inside
<1>6. ASSUME NEW c \in Characters, OneLock(c)', NEW k \in made'[c]
      PROVE Counts(c, locks[c][k])'
  <2>0. OneLock(c) /\ k \in made[c]
    BY <1>6 DEF OneLock
  <2>1. Counts(c, locks[c][k])
    BY <2>0 DEF IInv, OneLockCounts
  <2>2. CASE c # who[h]
    <3>1. Readers(c)' = Readers(c) /\ Writers(c)' = Writers(c)
      BY <1>5, <2>2 DEF Readers, Writers
    <3>2. locks'[c][k] = locks[c][k]
      BY <2>2
    <3> QED BY <2>1, <3>1, <3>2 DEF Counts
  <2>3. CASE c = who[h] /\ mode[h] = "read"
    <3>1. k = mine[h]
      BY <1>0, <2>0, <2>3 DEF OneLock
    <3>2. locks'[c][k] = [locks[c][k] EXCEPT !.readers = @ + 1] /\ ~locks[c][k].writer
      BY <1>0, <2>3, <3>1 DEF IInv, Shape, Held, Available
    <3>3. Readers(c)' = Readers(c) \cup {h} /\ Writers(c)' = Writers(c)
      BY <1>5, <2>3 DEF Readers, Writers
    <3>4. h \notin Readers(c)
      BY <1>5 DEF Readers
    <3>5. Cardinality(Readers(c) \cup {h}) = Cardinality(Readers(c)) + 1
      BY <3>4, SetsOfHandlers DEF Readers
    <3>6. locks[c][k] \in [writer : BOOLEAN, readers : Nat]
      BY <1>0, <2>3, <3>1 DEF IInv, Shape
    <3>7. Writers(c) = {} /\ locks[c][k].readers = Cardinality(Readers(c))
      BY <2>1, <3>2 DEF Counts
    <3>8. /\ locks'[c][k].readers = Cardinality(Readers(c)')
          /\ ~locks'[c][k].writer
      BY <3>2, <3>3, <3>5, <3>6, <3>7
    <3> QED BY <3>3, <3>7, <3>8 DEF Counts
  <2>4. CASE c = who[h] /\ mode[h] = "write"
    <3>1. k = mine[h]
      BY <1>0, <2>0, <2>4 DEF OneLock
    <3>2. /\ locks'[c][k] = [locks[c][k] EXCEPT !.writer = TRUE]
          /\ ~locks[c][k].writer /\ locks[c][k].readers = 0
      BY <1>0, <2>4, <3>1 DEF IInv, Shape, Held, Available
    <3>3. Readers(c)' = Readers(c) /\ Writers(c)' = Writers(c) \cup {h}
      BY <1>5, <2>4 DEF Readers, Writers
    <3>4. Readers(c) = {} /\ Writers(c) = {}
      BY <2>1, <3>2, SetsOfHandlers DEF Counts, Readers
    <3>5. locks[c][k] \in [writer : BOOLEAN, readers : Nat]
      BY <1>0, <2>4, <3>1 DEF IInv, Shape
    <3>6. locks'[c][k].readers = 0 /\ locks'[c][k].writer
      BY <3>2, <3>5
    <3>7. Cardinality({}) = 0
      BY FS_EmptySet
    <3> QED BY <3>3, <3>4, <3>6, <3>7 DEF Counts
  <2> QED BY <2>2, <2>3, <2>4 DEF IInv, Shape
<1>7. OneLockCounts'
  BY <1>6 DEF OneLockCounts
<1> QED BY <1>1, <1>2, <1>3, <1>4, <1>7 DEF IInv

(* The goroutine that gives the lock back leaves those inside.  Were there  *)
(* more locks than one, it might give back another's.                      *)
LEMMA ReleaseInv == ASSUME IInv, NEW h \in Handlers, Release(h) PROVE IInv'
<1> USE DEF Release, Goes
<1>0. /\ who[h] \in Characters /\ mine[h] \in made[who[h]]
      /\ characterLocks[who[h]] \in made[who[h]] /\ characterLocks[who[h]] \in Handlers
  BY DEF IInv, Shape, StoresMade, LooksUpMade, HasLock
<1>1. Shape'
  <2>1. Released(mode[h], Stored(h)) \in [writer : BOOLEAN, readers : Nat]
    <3>1. Stored(h) \in [writer : BOOLEAN, readers : Nat]
      BY <1>0 DEF IInv, Shape, Stored
    <3> QED BY <3>1, HeldAndReleased DEF Releasable
  <2>2. locks' \in [Characters -> [Handlers -> [writer : BOOLEAN, readers : Nat]]]
    BY <1>0, <2>1 DEF IInv, Shape, Stored
  <2>3. /\ pc' \in [Handlers -> {"idle", "lookup", "create", "acquire", "access", "store",
                                 "release"}]
        /\ who' \in [Handlers -> Characters \cup {None}]
        /\ mode' \in [Handlers -> {"read", "write"}]
        /\ mine' \in [Handlers -> Handlers \cup {None}]
    BY DEF IInv, Shape
  <2>4. \A g \in Handlers : /\ pc'[g] # "idle" => who'[g] \in Characters
                            /\ pc'[g] = "store" => mode'[g] = "write"
    BY <1>0 DEF IInv, Shape
  <2> QED BY <2>2, <2>3, <2>4 DEF IInv, Shape
<1>2. StoresMade'
  BY DEF IInv, StoresMade
<1>3. NewIsFree'
  BY <1>0 DEF IInv, Shape, NewIsFree
<1>4. LooksUpMade'
  BY DEF IInv, Shape, LooksUpMade, HasLock
<1>5. /\ Inside(h) /\ ~Inside(h)'
      /\ \A g \in Handlers \ {h} :
           /\ Inside(g)' <=> Inside(g)
           /\ who'[g] = who[g] /\ mode'[g] = mode[g]
  BY DEF IInv, Shape, Inside
<1>6. ASSUME NEW c \in Characters, OneLock(c)', NEW k \in made'[c]
      PROVE Counts(c, locks[c][k])'
  <2>0. OneLock(c) /\ k \in made[c]
    BY <1>6 DEF OneLock
  <2>1. Counts(c, locks[c][k])
    BY <2>0 DEF IInv, OneLockCounts
  <2>2. CASE c # who[h]
    <3>1. Readers(c)' = Readers(c) /\ Writers(c)' = Writers(c)
      BY <1>5, <2>2 DEF Readers, Writers
    <3>2. locks'[c][k] = locks[c][k]
      BY <2>2
    <3> QED BY <2>1, <3>1, <3>2 DEF Counts
  <2>3. CASE c = who[h] /\ mode[h] = "read"
    <3>1. k = characterLocks[c]
      BY <1>0, <2>0, <2>3 DEF OneLock
    <3>2. locks'[c][k] = [locks[c][k] EXCEPT !.readers = @ - 1]
      BY <1>0, <2>3, <3>1 DEF IInv, Shape, Released
    <3>3. /\ h \in Readers(c)
          /\ Readers(c)' = Readers(c) \ {h} /\ Writers(c)' = Writers(c)
      BY <1>5, <2>3 DEF Readers, Writers
    <3>4. Cardinality(Readers(c) \ {h}) = Cardinality(Readers(c)) - 1
      BY <3>3, SetsOfHandlers DEF Readers
    <3>5. locks[c][k] \in [writer : BOOLEAN, readers : Nat]
      BY <1>0, <2>3, <3>1 DEF IInv, Shape
    <3>6. /\ Writers(c) = {} /\ locks[c][k].readers = Cardinality(Readers(c))
          /\ ~locks[c][k].writer
      BY <2>1, <3>3 DEF Counts
    <3>7. locks'[c][k].readers = Cardinality(Readers(c)') /\ ~locks'[c][k].writer
      BY <3>2, <3>3, <3>4, <3>5, <3>6
    <3> QED BY <3>3, <3>6, <3>7 DEF Counts
  <2>4. CASE c = who[h] /\ mode[h] = "write"
    <3>1. k = characterLocks[c]
      BY <1>0, <2>0, <2>4 DEF OneLock
    <3>2. locks'[c][k] = [locks[c][k] EXCEPT !.writer = FALSE]
      BY <1>0, <2>4, <3>1 DEF IInv, Shape, Released
    <3>3. h \in Writers(c) /\ Readers(c)' = Readers(c)
      BY <1>5, <2>4 DEF Readers, Writers
    <3>4. Writers(c)' = Writers(c) \ {h}
      BY <1>5, <2>4 DEF Writers
    <3>5. Writers(c)' = {} /\ Readers(c) = {} /\ locks[c][k].readers = Cardinality(Readers(c))
      BY <2>1, <3>3, <3>4 DEF Counts
    <3>6. locks[c][k] \in [writer : BOOLEAN, readers : Nat]
      BY <1>0, <2>4, <3>1 DEF IInv, Shape
    <3>7. locks'[c][k].readers = locks[c][k].readers /\ ~locks'[c][k].writer
      BY <3>2, <3>6
    <3> QED BY <3>3, <3>5, <3>7 DEF Counts
  <2> QED BY <2>2, <2>3, <2>4 DEF IInv, Shape
<1>7. OneLockCounts'
  BY <1>6 DEF OneLockCounts
<1> QED BY <1>1, <1>2, <1>3, <1>4, <1>7 DEF IInv

LEMMA StutterInv == ASSUME IInv, UNCHANGED vars PROVE IInv'
<1>1. Shape' /\ StoresMade' /\ LooksUpMade' /\ NewIsFree'
  BY DEF IInv, vars, memory, Shape, StoresMade, LooksUpMade, HasLock, NewIsFree
<1>2. \A h \in Handlers : (Inside(h)' <=> Inside(h)) /\ who'[h] = who[h] /\ mode'[h] = mode[h]
  BY DEF vars, Inside
<1>3. OneLockCounts'
  BY <1>2, InsideUnchanged DEF vars, memory, OneLockCounts, OneLock
<1> QED BY <1>1, <1>3 DEF IInv

-----------------------------------------------------------------------------
(* The strengthening of OneLockExcludes and DiesOnlyIf: each character that *)
(* has one lock has, in it, the count of the goroutines inside.             *)
THEOREM RegistryInvariant == Spec => []IInv
<1>1. Init => IInv
  BY InitInv
<1>2. IInv /\ [Next]_vars => IInv'
  <2> SUFFICES ASSUME IInv, [Next]_vars PROVE IInv'
    OBVIOUS
  <2>1. ASSUME NEW h \in Handlers, Start(h) \/ Step(h) \/ Acquire(h)
        PROVE IInv'
    BY <2>1, StartInv, LookupInv, CreateInv, AccessInv, StoreInv, ReleaseInv, AcquireInv
       DEF Step
  <2>2. CASE Restart
    BY <2>2, RestartInv
  <2>3. CASE UNCHANGED vars
    BY <2>3, StutterInv
  <2> QED BY <2>1, <2>2, <2>3 DEF Next
<1> QED BY <1>1, <1>2, PTL DEF Spec

LEMMA InvExcludes == IInv => OneLockExcludes
<1> SUFFICES ASSUME IInv, NEW g \in Handlers, NEW h \in Handlers, g # h,
                    Inside(g), Inside(h), who[g] = who[h], OneLock(who[g])
             PROVE mode[g] = "read" /\ mode[h] = "read"
  BY DEF OneLockExcludes
<1>1. Counts(who[g], locks[who[g]][mine[g]])
  BY TakesTheStored DEF HasLock, Inside
<1>2. \A i \in {g, h} : i \in Readers(who[g]) \/ i \in Writers(who[g])
  BY DEF IInv, Shape, Readers, Writers
<1>3. Writers(who[g]) = {}
  BY <1>1, <1>2 DEF Counts, Readers, Writers
<1> QED BY <1>2, <1>3 DEF Readers

(* While one lock was made for a character, a goroutine that writes the     *)
(* character is alone with it, however many goroutines there are.           *)
THEOREM WriterIsAlone == Spec => []OneLockExcludes
BY InvExcludes, RegistryInvariant, PTL

(* The process dies of its registry only for one of three reasons, however  *)
(* many goroutines and characters there are: a lock is being made, a        *)
(* character has two, or goroutines of two characters meet in the data.     *)
THEOREM DeathHasAReason == Spec => []DiesOnlyIf
<1>1. IInv /\ OneLockExcludes => DiesOnlyIf
  <2> SUFFICES ASSUME IInv, OneLockExcludes, Fatal,
                      \A h \in Handlers : ~Creates(h),
                      \A c \in Characters : OneLock(c),
                      \A g, h \in Handlers : Inside(g) /\ Inside(h) => who[g] = who[h]
               PROVE FALSE
    BY DEF DiesOnlyIf
  <2>1. CASE LocksRace
    BY <2>1 DEF LocksRace
  <2>2. CASE DataRace
    <3>1. PICK g \in Handlers, h \in Handlers :
            g # h /\ WritesData(g) /\ (ReadsData(h) \/ WritesData(h))
      BY <2>2 DEF DataRace
    <3>2. Inside(g) /\ Inside(h) /\ mode[g] = "write" /\ who[g] \in Characters
      BY <3>1 DEF IInv, Shape, Inside, WritesData, ReadsData
    <3> QED BY <3>1, <3>2 DEF OneLockExcludes
  <2>3. CASE BadUnlock
    <3>1. PICK h \in Handlers : pc[h] = "release" /\ ~Releasable(h)
      BY <2>3 DEF BadUnlock
    <3>2. HasLock(h) /\ Inside(h) /\ who[h] \in Characters
      BY <3>1 DEF IInv, Shape, HasLock, Inside
    <3>3. Counts(who[h], Stored(h))
      BY <3>2, TakesTheStored DEF Stored
    <3>4. CASE mode[h] = "write"
      BY <3>1, <3>2, <3>3, <3>4 DEF Releasable, Counts, Writers
    <3>5. CASE mode[h] = "read"
      <4>1. h \in Readers(who[h])
        BY <3>2, <3>5 DEF Readers
      <4>2. Cardinality(Readers(who[h])) \in Nat /\ Cardinality(Readers(who[h])) # 0
        BY <4>1, SetsOfHandlers DEF Readers
      <4> QED BY <3>1, <3>3, <3>5, <4>2 DEF Releasable, Counts
    <3> QED BY <3>4, <3>5 DEF IInv, Shape
  <2> QED BY <2>1, <2>2, <2>3 DEF Fatal
<1> QED BY <1>1, RegistryInvariant, WriterIsAlone, PTL

-----------------------------------------------------------------------------
(* A non-empty set of naturals has a least element. *)
LEMMA LeastOf ==
  ASSUME NEW R, NEW S, IsWellFoundedOn(R, S), \A x, y \in S : x < y => <<x, y>> \in R,
         NEW T, T \subseteq S, T # {}
  PROVE \E m \in T : \A k \in T : ~ (k < m)
<1>1. PICK m \in T : \A k \in T : ~ (<<k, m>> \in R)
  BY ONLY IsWellFoundedOn(R, S), T \subseteq S, T # {}, WFMin, Zenon
<1>2. ASSUME NEW k \in T PROVE ~ (k < m)
  BY <1>1
<1> QED BY <1>2

LEMMA NatLeast ==
  ASSUME NEW T, T \subseteq Nat, T # {}
  PROVE \E m \in T : \A k \in T : m <= k
<1>1. \A x, y \in Nat : x < y => <<x, y>> \in OpToRel(<, Nat)
  BY DEF OpToRel
<1>2. \E m \in T : \A k \in T : ~ (k < m)
  BY <1>1, NatLessThanWellFounded, LeastOf
<1> QED BY <1>2

LEMMA FoldMovementSummaryTypes ==
  ASSUME NEW ms \in temporalData, NEW e \in Element
  PROVE FoldMovementSummary(ms, e) \in temporalData
BY DEF FoldMovementSummary, temporalData, Element

(* The summaries after each of the first n elements. *)
Summarises(f, ms, elements, n) ==
  /\ f \in [0 .. n -> temporalData]
  /\ f = [k \in 0 .. n |-> IF k = 0 THEN ms ELSE FoldMovementSummary(f[k - 1], elements[k])]

LEMMA OneMoreSummary ==
  ASSUME NEW ms \in temporalData, NEW n \in Nat, NEW elements,
         \A k \in 1 .. n + 1 : elements[k] \in Element,
         NEW f, Summarises(f, ms, elements, n)
  PROVE \E g : Summarises(g, ms, elements, n + 1)
<1> DEFINE last == FoldMovementSummary(f[n], elements[n + 1])
           g == [k \in 0 .. n + 1 |-> IF k = n + 1 THEN last ELSE f[k]]
<1>1. last \in temporalData
  <2>1. f[n] \in temporalData /\ elements[n + 1] \in Element
    BY DEF Summarises
  <2> QED BY <2>1, FoldMovementSummaryTypes
<1> HIDE DEF last
<1>2. g \in [0 .. n + 1 -> temporalData]
  BY <1>1 DEF Summarises
<1>3. ASSUME NEW k \in 0 .. n + 1
      PROVE g[k] = IF k = 0 THEN ms ELSE FoldMovementSummary(g[k - 1], elements[k])
  <2>1. CASE k = n + 1
    <3>1. k # 0 /\ k - 1 = n /\ n \in 0 .. n + 1 /\ n # n + 1
      BY <2>1
    <3>2. g[k] = last /\ g[k - 1] = f[n]
      BY <2>1, <3>1
    <3> QED BY <2>1, <3>1, <3>2 DEF last
  <2>2. CASE k # n + 1
    <3>1. k \in 0 .. n /\ g[k] = f[k]
      BY <2>2
    <3>2. k # 0 => k - 1 \in 0 .. n /\ k - 1 \in 0 .. n + 1 /\ g[k - 1] = f[k - 1]
      BY <3>1
    <3>3. f[k] = IF k = 0 THEN ms ELSE FoldMovementSummary(f[k - 1], elements[k])
      BY <3>1 DEF Summarises
    <3> QED BY <3>1, <3>2, <3>3
  <2> QED BY <2>1, <2>2
<1>4. g = [k \in 0 .. n + 1 |-> IF k = 0 THEN ms ELSE FoldMovementSummary(g[k - 1], elements[k])]
  BY <1>3
<1> HIDE DEF g
<1>5. Summarises(g, ms, elements, n + 1)
  BY <1>2, <1>4 DEF Summarises
<1> QED BY <1>5

LEMMA SummariesExist ==
  ASSUME NEW ms \in temporalData, NEW elements \in Seq(Element)
  PROVE \E f : Summarises(f, ms, elements, Len(elements))
<1> DEFINE T == {n \in 0 .. Len(elements) : ~ \E f : Summarises(f, ms, elements, n)}
<1>1. Len(elements) \in Nat /\ \A k \in 1 .. Len(elements) : elements[k] \in Element
  OBVIOUS
<1>2. SUFFICES ASSUME T # {} PROVE FALSE
  BY <1>1
<1>3. PICK n \in T : \A k \in T : n <= k
  <2>1. T \subseteq Nat
    BY <1>1
  <2> HIDE DEF T
  <2> QED BY <1>2, <2>1, NatLeast
<1>4. n # 0
  <2>1. Summarises([k \in 0 .. 0 |-> ms], ms, elements, 0)
    BY DEF Summarises
  <2> QED BY <2>1
<1>5. n - 1 \in Nat /\ n - 1 \in 0 .. Len(elements) /\ n \in Nat /\ n <= Len(elements)
  BY <1>1, <1>4
<1>6. PICK f : Summarises(f, ms, elements, n - 1)
  BY <1>3, <1>5
<1>7. \E g : Summarises(g, ms, elements, (n - 1) + 1)
  BY <1>1, <1>5, <1>6, OneMoreSummary
<1>8. (n - 1) + 1 = n
  BY <1>5
<1> QED BY <1>3, <1>7, <1>8

(* The fold of a movement of any length is the last of its summaries. *)
LEMMA FoldSteps ==
  ASSUME NEW ms \in temporalData, NEW elements \in Seq(Element)
  PROVE \E f : /\ Summarises(f, ms, elements, Len(elements))
               /\ Fold(ms, elements) = f[Len(elements)]
<1> DEFINE n == Len(elements)
           F(f) == f = [k \in 0 .. n |->
                          IF k = 0 THEN ms ELSE FoldMovementSummary(f[k - 1], elements[k])]
           f == CHOOSE g : F(g)
<1>1. n \in Nat /\ \A k \in 1 .. n : elements[k] \in Element
  OBVIOUS
<1>2. Fold(ms, elements) = f[n]
  BY DEF Fold
<1>3. F(f)
  <2>1. \E g : F(g)
    BY SummariesExist DEF Summarises
  <2> HIDE DEF F
  <2> QED BY <2>1
<1> HIDE DEF f
<1>4. \A k \in 0 .. n : f[k] \in temporalData
  <2> DEFINE T == {k \in 0 .. n : f[k] \notin temporalData}
  <2>1. SUFFICES ASSUME T # {} PROVE FALSE
    OBVIOUS
  <2>2. PICK m \in T : \A k \in T : m <= k
    <3>1. T \subseteq Nat
      BY <1>1
    <3> HIDE DEF T
    <3> QED BY <2>1, <3>1, NatLeast
  <2>3. m # 0
    BY <1>1, <1>3, <2>2
  <2>4. m \in 1 .. n /\ m - 1 \in 0 .. n /\ f[m - 1] \in temporalData
    BY <1>1, <2>2, <2>3
  <2>5. f[m] = FoldMovementSummary(f[m - 1], elements[m])
    BY <1>3, <2>3, <2>4
  <2> QED BY <1>1, <2>2, <2>4, <2>5, FoldMovementSummaryTypes
<1>5. Summarises(f, ms, elements, n)
  BY <1>3, <1>4 DEF Summarises
<1> QED BY <1>2, <1>5

(* What it is folded to is a position and a stance. *)
LEMMA FoldTypes ==
  ASSUME NEW ms \in temporalData, NEW elements \in Seq(Element)
  PROVE Fold(ms, elements) \in temporalData
BY FoldSteps DEF Summarises

(* Elements that give the character a stance.  FoldMovementSummary passes    *)
(* over the others: a flying block, a change of statistics.                  *)
NamesStance(e) == e.type \in {"NORMAL", "JUMP", "TELEPORT", "START_FALL_DOWN"}

(* A movement that names a stance folds to the same whatever stance it is    *)
(* begun with: that the stance is read in a section before the one that      *)
(* writes it (Move, updateTemporal) makes no difference to it.               *)
LEMMA NamedStanceWins ==
  ASSUME NEW ms \in temporalData, NEW mt \in temporalData,
         ms.position = mt.position, NEW elements \in Seq(Element),
         NEW i \in 1 .. Len(elements), NamesStance(elements[i])
  PROVE Fold(ms, elements) = Fold(mt, elements)
<1> DEFINE n == Len(elements)
<1>1. n \in Nat /\ \A k \in 1 .. n : elements[k] \in Element
  OBVIOUS
<1>2. PICK f : Summarises(f, ms, elements, n) /\ Fold(ms, elements) = f[n]
  BY FoldSteps
<1>3. PICK g : Summarises(g, mt, elements, n) /\ Fold(mt, elements) = g[n]
  BY FoldSteps
<1> DEFINE Agree(k) == f[k].position = g[k].position /\ (i <= k => f[k] = g[k])
           T == {k \in 0 .. n : ~Agree(k)}
<1>4. T = {}
  <2>1. SUFFICES ASSUME T # {} PROVE FALSE
    OBVIOUS
  <2>2. PICK m \in T : \A k \in T : m <= k
    <3>1. T \subseteq Nat
      BY <1>1
    <3> HIDE DEF T
    <3> QED BY <2>1, <3>1, NatLeast
  <2>3. m # 0
    BY <1>2, <1>3, <2>2 DEF Summarises
  <2>4. m \in 1 .. n /\ m - 1 \in 0 .. n /\ ~ (m <= m - 1)
    BY <1>1, <2>2, <2>3
  <2>5. Agree(m - 1)
    BY <2>2, <2>4
  <2>6. PICK e \in Element : e = elements[m]
    BY <1>1, <2>4
  <2>7. PICK d1 \in temporalData : d1 = f[m - 1]
    BY <1>2, <2>4 DEF Summarises
  <2>8. PICK d2 \in temporalData : d2 = g[m - 1]
    BY <1>3, <2>4 DEF Summarises
  <2>9. f[m] = FoldMovementSummary(d1, e) /\ g[m] = FoldMovementSummary(d2, e)
    <3>1. f[m] = FoldMovementSummary(f[m - 1], elements[m])
      BY <1>2, <2>3, <2>4 DEF Summarises
    <3>2. g[m] = FoldMovementSummary(g[m - 1], elements[m])
      BY <1>3, <2>3, <2>4 DEF Summarises
    <3> QED BY <2>6, <2>7, <2>8, <3>1, <3>2
  <2>10. d1.position = d2.position /\ (i <= m - 1 => d1 = d2)
    BY <2>5, <2>7, <2>8
  <2>11. f[m].position = g[m].position
    BY <2>9, <2>10 DEF FoldMovementSummary, temporalData, Element
  <2>12. CASE i <= m - 1
    BY <2>2, <2>9, <2>10, <2>12
  <2>13. CASE i = m
    <3>1. NamesStance(e)
      BY <2>6, <2>13
    <3>2. f[m] = g[m]
      BY <2>9, <2>10, <3>1 DEF FoldMovementSummary, NamesStance, temporalData, Element
    <3> QED BY <2>2, <2>11, <3>2
  <2>14. CASE ~ (i <= m)
    BY <2>2, <2>11, <2>14
  <2>15. i \in Nat /\ m \in Nat
    BY <1>1, <2>2
  <2> QED BY <2>12, <2>13, <2>14, <2>15
<1>5. n \in 0 .. n /\ i <= n
  BY <1>1
<1>6. Agree(n)
  BY <1>4, <1>5
<1> QED BY <1>2, <1>3, <1>5, <1>6

(* One that names none leaves the character where the movement begins, with  *)
(* the stance it was begun with: that one may be stale when it is written.   *)
LEMMA UnnamedStanceStays ==
  ASSUME NEW ms \in temporalData, NEW elements \in Seq(Element),
         \A i \in 1 .. Len(elements) : ~NamesStance(elements[i])
  PROVE Fold(ms, elements) = ms
<1> DEFINE n == Len(elements)
<1>1. n \in Nat
  OBVIOUS
<1>2. PICK f : Summarises(f, ms, elements, n) /\ Fold(ms, elements) = f[n]
  BY FoldSteps
<1> DEFINE T == {k \in 0 .. n : f[k] # ms}
<1>3. T = {}
  <2>1. SUFFICES ASSUME T # {} PROVE FALSE
    OBVIOUS
  <2>2. PICK m \in T : \A k \in T : m <= k
    <3>1. T \subseteq Nat
      BY <1>1
    <3> HIDE DEF T
    <3> QED BY <2>1, <3>1, NatLeast
  <2>3. m # 0
    BY <1>2, <2>2 DEF Summarises
  <2>4. m \in 1 .. n /\ m - 1 \in 0 .. n /\ ~ (m <= m - 1)
    BY <1>1, <2>2, <2>3
  <2>5. f[m - 1] = ms
    BY <2>2, <2>4
  <2>6. f[m] = FoldMovementSummary(f[m - 1], elements[m])
    BY <1>2, <2>3, <2>4 DEF Summarises
  <2>7. ~NamesStance(elements[m])
    BY <2>4
  <2> QED BY <2>2, <2>5, <2>6, <2>7 DEF FoldMovementSummary, NamesStance
<1> QED BY <1>1, <1>2, <1>3

-----------------------------------------------------------------------------
(* What is kept of a character, and what a goroutine has read of it.  With   *)
(* one lock, what a writer has read is what is there until it stores.        *)
TasksOK ==
  /\ task \in [Handlers -> Task]
  /\ data \in [Characters -> temporalData \cup {None}]
  /\ seen \in [Handlers -> temporalData \cup {None}]

SeesStored ==
  \A h \in Handlers : pc[h] = "store" /\ OneLock(who[h]) => seen[h] = data[who[h]]

TInv == IInv /\ TasksOK /\ SeesStored

LEMMA KnownTypes ==
  /\ Unset \in temporalData /\ NoTask \in Task
  /\ \A d \in temporalData \cup {None} : Known(d) \in temporalData
<1>1. Unset \in temporalData
  BY TemporalAssumption DEF Unset, temporalData
<1>2. <<>> \in Seq(Element)
  OBVIOUS
<1> QED BY <1>1, <1>2, TemporalAssumption DEF Known, NoTask, Asks, Stay, Task

LEMMA SummaryTypes ==
  ASSUME NEW t \in Task, NEW d \in temporalData \cup {None}
  PROVE Summary(t.movement, Known(d).stance) \in temporalData
<1>1. PICK stance \in Stances : stance = Known(d).stance
  BY KnownTypes DEF temporalData
<1>2. PICK elements \in Seq(Element) : elements = t.movement.elements
  BY DEF Task
<1>3. PICK ms \in temporalData : ms = [position |-> t.movement.start, stance |-> stance]
  BY DEF Task, temporalData
<1> QED BY <1>1, <1>2, <1>3, FoldTypes DEF Summary

LEMMA InitTasks == Init => TasksOK /\ SeesStored
BY KnownTypes DEF Init, TasksOK, SeesStored

LEMMA StoreTypes ==
  ASSUME TInv, NEW h \in Handlers, Store(h)
  PROVE data' \in [Characters -> temporalData \cup {None}]
<1>1. task[h].to \in temporalData
  BY DEF TInv, TasksOK, Task
<1>2. UpdatePosition(seen[h], task[h].to) \in temporalData
  <2>1. PICK d \in temporalData, to \in temporalData : d = Known(seen[h]) /\ to = task[h].to
    BY <1>1, KnownTypes DEF TInv, TasksOK
  <2>2. [d EXCEPT !.position = to.position] \in temporalData
    BY DEF temporalData
  <2> QED BY <2>1, <2>2 DEF UpdatePosition
<1> QED BY <1>1, <1>2 DEF TInv, TasksOK, Store, Update

LEMMA NextTasks ==
  ASSUME TInv, [Next]_vars
  PROVE TasksOK'
<1> USE DEF TInv, TasksOK
<1>1. CASE UNCHANGED vars
  BY <1>1 DEF vars, memory
<1>2. CASE Restart
  BY <1>2, KnownTypes DEF Restart
<1>3. ASSUME NEW h \in Handlers, Start(h) PROVE TasksOK'
  <2>1. PICK c \in Characters : \E t \in Requests[c] : task' = [task EXCEPT ![h] = t]
    BY <1>3 DEF Start
  <2>2. PICK t \in Requests[c] : task' = [task EXCEPT ![h] = t]
    BY <2>1
  <2>3. t \in Task
    BY RequestsAssumption
  <2> QED BY <1>3, <2>2, <2>3 DEF Start, memory
<1>4. ASSUME NEW h \in Handlers, Lookup(h) \/ Create(h) \/ Acquire(h) PROVE TasksOK'
  BY <1>4 DEF Lookup, Create, Acquire, memory
<1>5. ASSUME NEW h \in Handlers, Access(h) PROVE TasksOK'
  <2>1. who[h] \in Characters
    BY <1>5 DEF Access, IInv, Shape
  <2> QED BY <1>5, <2>1 DEF Access, memory
<1>6. ASSUME NEW h \in Handlers, Store(h) PROVE TasksOK'
  BY <1>6, StoreTypes DEF Store
<1>7. ASSUME NEW h \in Handlers, Release(h) PROVE TasksOK'
  <2>1. UNCHANGED data /\ seen' = [seen EXCEPT ![h] = None]
    BY <1>7 DEF Release
  <2>2. task' \in [Handlers -> Task]
    <3>1. CASE Folds(h)
      <4>1. PICK to \in temporalData : to = Summary(task[h].movement, Known(seen[h]).stance)
        BY SummaryTypes
      <4>2. task' = [task EXCEPT ![h].to = to]
        BY <1>7, <3>1, <4>1 DEF Release
      <4> QED BY <4>2 DEF Task
    <3>2. CASE ~Folds(h)
      BY <1>7, <3>2, KnownTypes DEF Release
    <3> QED BY <3>1, <3>2
  <2> QED BY <2>1, <2>2
<1> QED BY <1>1, <1>2, <1>3, <1>4, <1>5, <1>6, <1>7 DEF Next, Step

(* Only a goroutine that stores changes what is kept, and that of one        *)
(* character: no other that has read the same with the lock is about to.     *)
LEMMA NextSees ==
  ASSUME TInv, [Next]_vars
  PROVE SeesStored'
<1> USE DEF TInv, IInv, Shape
<1>1. CASE UNCHANGED vars
  BY <1>1 DEF vars, memory, SeesStored, OneLock
<1>2. CASE Restart
  BY <1>2 DEF Restart, SeesStored
<1>3. ASSUME NEW h \in Handlers, Start(h) \/ Lookup(h) \/ Create(h) \/ Acquire(h) \/ Release(h)
      PROVE SeesStored'
  <2>1. /\ data' = data /\ \A c \in Characters : OneLock(c)' => OneLock(c)
        /\ pc'[h] # "store"
        /\ \A g \in Handlers \ {h} : pc'[g] = pc[g] /\ seen'[g] = seen[g] /\ who'[g] = who[g]
    <3>1. CASE Create(h)
      BY <3>1 DEF Create, Goes, OneLock
    <3>2. CASE Release(h)
      BY <3>2 DEF Release, Goes, OneLock, TasksOK
    <3>3. CASE Start(h) \/ Lookup(h) \/ Acquire(h)
      BY <3>3 DEF Start, Lookup, Acquire, Goes, OneLock, memory
    <3> QED BY <1>3, <3>1, <3>2, <3>3
  <2> QED BY <2>1 DEF SeesStored
<1>4. ASSUME NEW h \in Handlers, Access(h) PROVE SeesStored'
  BY <1>4 DEF Access, Goes, memory, SeesStored, OneLock, TasksOK
<1>5. ASSUME NEW h \in Handlers, Store(h) PROVE SeesStored'
  <2>1. ASSUME NEW g \in Handlers, pc'[g] = "store", OneLock(who[g])' PROVE seen[g] = data'[who[g]]
    <3>1. g # h /\ pc[g] = "store" /\ who'[g] = who[g] /\ OneLock(who[g])
      BY <1>5, <2>1 DEF Store, Goes, OneLock
    <3>2. who[g] # who[h]
      BY <1>5, <3>1, InvExcludes DEF OneLockExcludes, Inside, Store
    <3> QED BY <1>5, <3>1, <3>2 DEF Store, SeesStored
  <2> QED BY <1>5, <2>1 DEF Store, SeesStored
<1> QED BY <1>1, <1>2, <1>3, <1>4, <1>5 DEF Next, Step

THEOREM TasksInvariant == Spec => []TInv
<1>1. Init => TInv
  BY InitInv, InitTasks DEF TInv
<1>2. TInv /\ IInv' /\ [Next]_vars => TInv'
  BY NextTasks, NextSees DEF TInv
<1> QED BY <1>1, <1>2, RegistryInvariant, PTL DEF Spec

(* What the registry keeps of a character is a position and a stance, after  *)
(* movements of any length, and a lock is never given back below zero.      *)
THEOREM RegistryTypes == Spec => []TypeOK
<1>1. TInv => TypeOK
  BY DEF TInv, IInv, Shape, TasksOK, TypeOK
<1> QED BY <1>1, TasksInvariant, PTL

(* With one lock, the position that a map change writes goes with the stance *)
(* the character has at that moment (UpdatePosition).                        *)
THEOREM PortalKeeps == Spec => PortalKeepsStance
<1>1. TInv /\ [Next]_vars =>
        [\A h \in Handlers :
           WritesData(h) /\ ~WritesData(h)' /\ ~Restart /\ task[h].op = "portal"
             /\ OneLock(who[h]) =>
             data'[who[h]].stance = Known(data[who[h]]).stance]_vars
  <2> SUFFICES ASSUME TInv, Next, NEW h \in Handlers, WritesData(h), ~WritesData(h)', ~Restart,
                      task[h].op = "portal", OneLock(who[h])
               PROVE data'[who[h]].stance = Known(data[who[h]]).stance
    OBVIOUS
  <2> USE DEF TInv, IInv, Shape
  <2>1. PICK g \in Handlers : Start(g) \/ Step(g) \/ Acquire(g)
    BY DEF Next
  <2>2. pc[h] = "store" /\ pc'[h] # "store" /\ who[h] \in Characters
    BY DEF WritesData
  <2>3. g = h
    BY <2>1, <2>2 DEF Start, Step, Acquire, Lookup, Create, Access, Store, Release, Goes
  <2>4. Store(h)
    BY <2>1, <2>2, <2>3 DEF Start, Step, Acquire, Lookup, Create, Access, Release
  <2>5. seen[h] = data[who[h]]
    BY <2>2 DEF SeesStored
  <2>6. PICK d \in temporalData : d = Known(data[who[h]])
    BY <2>2, KnownTypes DEF TasksOK
  <2>7. data'[who[h]] = [d EXCEPT !.position = task[h].to.position]
    BY <2>2, <2>4, <2>5, <2>6 DEF Store, UpdatePosition, TasksOK
  <2> QED BY <2>6, <2>7 DEF temporalData
<1> QED BY <1>1, TasksInvariant, PTL DEF Spec, PortalKeepsStance

-----------------------------------------------------------------------------
(* What a movement is about to write is its fold, from some stance. *)
FoldsItsMovement ==
  \A h \in Handlers : task[h].op = "move" /\ mode[h] = "write" =>
    \E stance \in Stances : task[h].to = Summary(task[h].movement, stance)

LEMMA NextFolds ==
  ASSUME TInv, FoldsItsMovement, [Next]_vars
  PROVE FoldsItsMovement'
<1> USE DEF TInv, TasksOK, IInv, Shape, FoldsItsMovement
<1>1. CASE UNCHANGED vars
  BY <1>1 DEF vars, memory, Summary
<1>2. CASE Restart
  BY <1>2 DEF Restart
<1>3. ASSUME NEW h \in Handlers, Lookup(h) \/ Create(h) \/ Acquire(h) \/ Access(h) \/ Store(h)
      PROVE FoldsItsMovement'
  <2>1. UNCHANGED <<task, mode>>
    BY <1>3 DEF Lookup, Create, Acquire, Access, Store, memory
  <2> QED BY <2>1
<1>4. ASSUME NEW h \in Handlers, Start(h)
      PROVE FoldsItsMovement'
  <2>1. \E c \in Characters : \E t \in Requests[c] :
          /\ task' = [task EXCEPT ![h] = t]
          /\ mode' = [mode EXCEPT ![h] = IF t.op = "portal" THEN "write" ELSE "read"]
    BY <1>4 DEF Start
  <2>2. ASSUME NEW g \in Handlers, (task[g].op = "move" /\ mode[g] = "write")'
        PROVE g # h /\ task'[g] = task[g] /\ mode'[g] = mode[g]
    BY <2>1, <2>2
  <2> QED BY <2>2
<1>5. ASSUME NEW h \in Handlers, Release(h)
      PROVE FoldsItsMovement'
  <2> SUFFICES ASSUME NEW g \in Handlers, (task[g].op = "move" /\ mode[g] = "write")'
               PROVE \E stance \in Stances : task'[g].to = Summary(task'[g].movement, stance)
    OBVIOUS
  <2>1. CASE g # h
    <3>1. task'[g] = task[g] /\ mode'[g] = mode[g]
      BY <1>5, <2>1 DEF Release
    <3> QED BY <3>1
  <2>2. CASE g = h
    <3>1. Folds(h)
      BY <1>5, <2>2 DEF Release
    <3>2. PICK stance \in Stances : stance = Known(seen[h]).stance
      BY KnownTypes DEF temporalData
    <3>3. task' = [task EXCEPT ![h].to = Summary(task[h].movement, stance)]
      BY <1>5, <3>1, <3>2 DEF Release
    <3>4. task'[h].to = Summary(task[h].movement, stance) /\ task'[h].movement = task[h].movement
      BY <3>3 DEF Task
    <3> QED BY <2>2, <3>4
  <2> QED BY <2>1, <2>2
<1> QED BY <1>1, <1>2, <1>3, <1>4, <1>5 DEF Next, Step

NamesAStance(m) == \E i \in 1 .. Len(m.elements) : NamesStance(m.elements[i])

(* A movement that names a stance writes its own end, the same whatever the  *)
(* stance was when Move read it.  One that names none writes where it began, *)
(* and some stance: that is the only case in which the stance read before    *)
(* the fold and written after it, in two critical sections, can be stale.    *)
MovementWrites ==
  [][\A h \in Handlers :
       WritesData(h) /\ ~WritesData(h)' /\ ~Restart /\ task[h].op = "move" =>
         LET m == task[h].movement
             written == data'[who[h]]
         IN IF NamesAStance(m)
            THEN \A stance \in Stances : written = Summary(m, stance)
            ELSE written.position = m.start /\ written.stance \in Stances]_vars

THEOREM MovementsWriteTheirEnd == Spec => MovementWrites
<1>1. Init => FoldsItsMovement
  BY DEF Init, FoldsItsMovement
<1>2. TInv /\ FoldsItsMovement /\ [Next]_vars => FoldsItsMovement'
  BY NextFolds
<1>3. TInv /\ FoldsItsMovement /\ [Next]_vars =>
        [\A h \in Handlers :
           WritesData(h) /\ ~WritesData(h)' /\ ~Restart /\ task[h].op = "move" =>
             LET m == task[h].movement
                 written == data'[who[h]]
             IN IF NamesAStance(m)
                THEN \A stance \in Stances : written = Summary(m, stance)
                ELSE written.position = m.start /\ written.stance \in Stances]_vars
  <2> SUFFICES ASSUME TInv, FoldsItsMovement, Next, NEW h \in Handlers, WritesData(h),
                      ~WritesData(h)', ~Restart, task[h].op = "move"
               PROVE IF NamesAStance(task[h].movement)
                     THEN \A stance \in Stances :
                            data'[who[h]] = Summary(task[h].movement, stance)
                     ELSE /\ data'[who[h]].position = task[h].movement.start
                          /\ data'[who[h]].stance \in Stances
    OBVIOUS
  <2> USE DEF TInv, TasksOK, IInv, Shape
  <2>1. PICK g \in Handlers : Start(g) \/ Step(g) \/ Acquire(g)
    BY DEF Next
  <2>2. pc[h] = "store" /\ pc'[h] # "store" /\ who[h] \in Characters /\ mode[h] = "write"
    BY DEF WritesData
  <2>3. Store(h)
    BY <2>1, <2>2 DEF Start, Step, Acquire, Lookup, Create, Access, Store, Release, Goes
  <2>4. data'[who[h]] = task[h].to
    BY <2>2, <2>3 DEF Store, Update
  <2>5. PICK read \in Stances : task[h].to = Summary(task[h].movement, read)
    BY <2>2 DEF FoldsItsMovement
  <2>6. PICK elements \in Seq(Element) : elements = task[h].movement.elements
    BY DEF Task
  <2>7. PICK start \in Positions : start = task[h].movement.start
    BY DEF Task
  <2>8. \A stance \in Stances :
          /\ [position |-> start, stance |-> stance] \in temporalData
          /\ Summary(task[h].movement, stance)
               = Fold([position |-> start, stance |-> stance], elements)
    BY <2>6, <2>7 DEF Summary, temporalData
  <2>9. CASE NamesAStance(task[h].movement)
    <3>1. PICK i \in 1 .. Len(elements) : NamesStance(elements[i])
      BY <2>6, <2>9 DEF NamesAStance
    <3>2. ASSUME NEW stance \in Stances
          PROVE Summary(task[h].movement, read) = Summary(task[h].movement, stance)
      <4> DEFINE ms == [position |-> start, stance |-> read]
                 mt == [position |-> start, stance |-> stance]
      <4>1. ms \in temporalData /\ mt \in temporalData /\ ms.position = mt.position
        BY <2>8
      <4> HIDE DEF ms, mt
      <4>2. Fold(ms, elements) = Fold(mt, elements)
        BY <3>1, <4>1, NamedStanceWins
      <4> QED BY <2>8, <4>2 DEF ms, mt
    <3> QED BY <2>4, <2>5, <2>9, <3>2
  <2>10. CASE ~NamesAStance(task[h].movement)
    <3>1. \A i \in 1 .. Len(elements) : ~NamesStance(elements[i])
      BY <2>6, <2>10 DEF NamesAStance
    <3>2. Fold([position |-> start, stance |-> read], elements)
            = [position |-> start, stance |-> read]
      BY <2>8, <3>1, UnnamedStanceStays
    <3> QED BY <2>4, <2>5, <2>7, <2>8, <2>10, <3>2
  <2> QED BY <2>9, <2>10
<1> QED BY <1>1, <1>2, <1>3, TasksInvariant, PTL DEF Spec, MovementWrites

-----------------------------------------------------------------------------
(* Who cannot have the lock it has looked up. *)
Waits(h) == pc[h] = "acquire" /\ ~Available(mode[h], locks[who[h]][mine[h]])

(* Whoever waits for the one lock of a character waits for another that is   *)
(* inside, and that one waits for nothing: it can go on, and give the lock   *)
(* back when it comes to that.                                               *)
WaitsForInside ==
  \A h \in Handlers : Waits(h) /\ OneLock(who[h]) =>
    \E g \in Handlers : /\ g # h /\ Inside(g) /\ who[g] = who[h]
                        /\ pc[g] = "release" => Releasable(g)

LEMMA InvReleasable ==
  ASSUME IInv, NEW h \in Handlers, pc[h] = "release", OneLock(who[h])
  PROVE Releasable(h)
<1>1. HasLock(h) /\ Inside(h) /\ who[h] \in Characters
  BY DEF IInv, Shape, HasLock, Inside
<1>2. Counts(who[h], Stored(h))
  BY <1>1, TakesTheStored DEF Stored
<1>3. CASE mode[h] = "write"
  BY <1>1, <1>2, <1>3 DEF Releasable, Counts, Writers
<1>4. CASE mode[h] = "read"
  <2>1. h \in Readers(who[h])
    BY <1>1, <1>4 DEF Readers
  <2>2. Cardinality(Readers(who[h])) \in Nat /\ Cardinality(Readers(who[h])) # 0
    BY <2>1, SetsOfHandlers DEF Readers
  <2> QED BY <1>2, <1>4, <2>2 DEF Releasable, Counts
<1> QED BY <1>3, <1>4 DEF IInv, Shape

(* With one lock for its character, a task waits for nobody who cannot go on *)
(* (the reason for TemporalRegistry.TasksFinish, but for the scheduling).    *)
THEOREM WaitersHaveACause == Spec => []WaitsForInside
<1>1. IInv => WaitsForInside
  <2> SUFFICES ASSUME IInv, NEW h \in Handlers, Waits(h), OneLock(who[h])
               PROVE \E g \in Handlers : /\ g # h /\ Inside(g) /\ who[g] = who[h]
                                         /\ pc[g] = "release" => Releasable(g)
    BY DEF WaitsForInside
  <2>1. pc[h] = "acquire" /\ HasLock(h) /\ ~Inside(h)
    BY DEF Waits, HasLock, Inside
  <2>2. Counts(who[h], locks[who[h]][mine[h]])
    BY <2>1, TakesTheStored
  <2>3. Readers(who[h]) # {} \/ Writers(who[h]) # {}
    <3>1. Cardinality(Readers(who[h])) = 0 <=> Readers(who[h]) = {}
      BY SetsOfHandlers, <2>1 DEF Readers
    <3> QED BY <2>2, <3>1 DEF Waits, Available, Counts
  <2>4. PICK g \in Handlers : Inside(g) /\ who[g] = who[h]
    BY <2>3 DEF Readers, Writers
  <2>5. g # h
    BY <2>1, <2>4
  <2> QED BY <2>4, <2>5, InvReleasable
<1> QED BY <1>1, RegistryInvariant, PTL

(* How many steps, at most, a task has before it: a movement takes the lock  *)
(* twice, to read the stance and to write what it has folded.                *)
Left(h) == (CASE pc[h] = "lookup" -> 6
              [] pc[h] = "create" -> 5
              [] pc[h] = "acquire" -> 4
              [] pc[h] = "access" -> 3
              [] pc[h] = "store" -> 2
              [] pc[h] = "release" -> 1
              [] OTHER -> 0)
           + (IF pc[h] # "idle" /\ Folds(h) THEN 6 ELSE 0)

LEMMA OwnStepCounts ==
  ASSUME IInv, DOMAIN task = Handlers, NEW h \in Handlers, Step(h) \/ Acquire(h)
  PROVE Left(h)' < Left(h)
<1>1. DOMAIN pc = Handlers /\ DOMAIN mode = Handlers
  BY DEF IInv, Shape
<1>2. CASE Lookup(h) \/ Create(h) \/ Acquire(h) \/ Access(h) \/ Store(h)
  <2>1. task' = task /\ mode' = mode
    BY <1>2 DEF Lookup, Create, Acquire, Access, Store
  <2>2. Folds(h)' = Folds(h)
    BY <2>1 DEF Folds
  <2>3. \/ pc[h] = "lookup" /\ pc'[h] \in {"create", "acquire"}
        \/ pc[h] = "create" /\ pc'[h] = "acquire"
        \/ pc[h] = "acquire" /\ pc'[h] = "access"
        \/ pc[h] = "access" /\ pc'[h] \in {"store", "release"}
        \/ pc[h] = "store" /\ pc'[h] = "release"
    BY <1>1, <1>2 DEF Lookup, Create, Acquire, Access, Store, Goes
  <2> QED BY <2>2, <2>3 DEF Left
<1>3. CASE Release(h) /\ Folds(h)
  <2>1. pc[h] = "release" /\ pc'[h] = "lookup" /\ mode'[h] = "write"
    BY <1>1, <1>3 DEF Release, Goes
  <2>2. ~Folds(h)'
    BY <2>1 DEF Folds
  <2> QED BY <1>3, <2>1, <2>2 DEF Left
<1>4. CASE Release(h) /\ ~Folds(h)
  <2>1. pc[h] = "release" /\ pc'[h] = "idle"
    BY <1>1, <1>4 DEF Release, Goes
  <2> QED BY <1>4, <2>1 DEF Left
<1> QED BY <1>2, <1>3, <1>4 DEF Step

(* A task is at most twelve of its own steps from its end, and nothing that  *)
(* anybody else does makes them more: of TasksFinish only the scheduling is  *)
(* left.                                                                     *)
THEOREM TasksRunOut ==
  Spec => [][\A h \in Handlers : pc[h] # "idle" =>
               /\ Left(h) \in 1 .. 12 /\ Left(h)' <= Left(h)
               /\ Step(h) \/ Acquire(h) => Left(h)' < Left(h)]_vars
<1>1. TInv /\ [Next]_vars =>
        [\A h \in Handlers : pc[h] # "idle" =>
           /\ Left(h) \in 1 .. 12 /\ Left(h)' <= Left(h)
           /\ Step(h) \/ Acquire(h) => Left(h)' < Left(h)]_vars
  <2> SUFFICES ASSUME TInv, Next, NEW h \in Handlers, pc[h] # "idle"
               PROVE /\ Left(h) \in 1 .. 12 /\ Left(h)' <= Left(h)
                     /\ Step(h) \/ Acquire(h) => Left(h)' < Left(h)
    OBVIOUS
  <2>1. IInv /\ DOMAIN task = Handlers
    BY DEF TInv, TasksOK
  <2>2. Left(h) \in 1 .. 12
    BY <2>1 DEF IInv, Shape, Left
  <2>3. Step(h) \/ Acquire(h) => Left(h)' < Left(h)
    BY <2>1, OwnStepCounts
  <2>4. Left(h)' \in Int
    BY DEF Left
  <2>5. CASE Restart
    <3>1. pc'[h] = "idle"
      BY <2>5 DEF Restart
    <3>2. Left(h)' = 0
      BY <3>1 DEF Left
    <3> QED BY <2>2, <2>3, <3>2
  <2>6. ASSUME NEW g \in Handlers, g # h, Start(g) \/ Step(g) \/ Acquire(g)
        PROVE Left(h)' = Left(h)
    <3>1. pc'[h] = pc[h] /\ task'[h] = task[h] /\ mode'[h] = mode[h]
      BY <2>1, <2>6 DEF Start, Step, Lookup, Create, Access, Store, Release, Acquire, Goes,
                        IInv, Shape
    <3> QED BY <3>1 DEF Left, Folds
  <2>7. ~Start(h)
    BY DEF Start
  <2> QED BY <2>2, <2>3, <2>4, <2>5, <2>6, <2>7 DEF Next
<1> QED BY <1>1, TasksInvariant, PTL DEF Spec
=============================================================================
