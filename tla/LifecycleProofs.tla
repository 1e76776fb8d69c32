-------------------------- MODULE LifecycleProofs --------------------------
(***************************************************************************)
(* For any number of goroutines, names and characters: what the name check *)
(* and the transaction of Create guarantee, and what the status topic      *)
(* tells.  A character that shares its name was not visible to the check   *)
(* of the other, because what a check has seen is remembered against the   *)
(* name until the commit (Checked), and an id in an open transaction has   *)
(* been seen by no check (Fresh).  A handler that is alone with a character*)
(* has read its row as it is (Read), and where nothing was lost the topic  *)
(* has the character on its map or is about to be told (Topic).            *)
(***************************************************************************)
EXTENDS CharacterLifecycle, TLAPS

Shape ==
  /\ seq \in Nat \ {0}
  /\ DOMAIN characters \subseteq 1 .. seq - 1
  /\ characters \in [DOMAIN characters -> [name : Names \cup {None}, map : Maps \cup {None}]]
  /\ pc \in [Handlers -> {"idle", "check", "insert", "inventories", "commit", "delete",
                          "find", "save", "portal", "announce"}]
  /\ job \in [Handlers -> [op : {"none", "create", "map", "login", "logout", "delete"},
                           id : Nat, name : Names \cup {None}, level : Nat,
                           map : Maps \cup {None}]]
  /\ row \in [Handlers -> [name : Names \cup {None}, map : Maps \cup {None},
                           types : SUBSET Types]]
  /\ saw \in [Handlers -> SUBSET (1 .. seq - 1)]
  /\ knew \in [DOMAIN characters -> SUBSET (1 .. seq - 1)]

InTransaction(h) == pc[h] \in {"inventories", "commit"}

Creating(h) == pc[h] \in {"insert", "inventories", "commit"}

Fresh ==
  \A h \in Handlers : InTransaction(h) =>
    /\ job[h].id \in 1 .. seq - 1 /\ job[h].id \notin DOMAIN characters
    /\ \A g \in Handlers : job[h].id \notin saw[g]
    /\ \A i \in DOMAIN characters : job[h].id \notin knew[i]
    /\ \A g \in Handlers : g # h /\ InTransaction(g) => job[g].id # job[h].id

Checked ==
  \A h \in Handlers :
    /\ Creating(h) => \A i \in DOMAIN characters :
                        i \in saw[h] => Lower[characters[i].name] # Lower[job[h].name]
    /\ InTransaction(h) => row[h].name = job[h].name
    /\ pc[h] = "inventories" => row[h].types # Types
    /\ pc[h] = "commit" => row[h].types = Types

IInv == Shape /\ Fresh /\ Checked /\ FiveInventories /\ TwinsMissedEachOther

-----------------------------------------------------------------------------
LEMMA InitInv == ASSUME Init PROVE IInv
<1>1. Shape
  BY DEF Init, Shape, NoJob, Asks, NoRow, Row
<1>2. Fresh /\ Checked
  BY DEF Init, Fresh, Checked, InTransaction, Creating
<1>3. FiveInventories /\ TwinsMissedEachOther
  BY DEF Init, FiveInventories, TwinsMissedEachOther
<1> QED BY <1>1, <1>2, <1>3 DEF IInv

(* A step that leaves the tables alone, and either takes a goroutine out of *)
(* a creation or leaves its creation as it is, keeps the invariant.         *)
LEMMA TablesUnchanged ==
  ASSUME IInv, UNCHANGED tables, Shape',
         \A h \in Handlers :
           \/ ~Creating(h)' /\ (saw'[h] = saw[h] \/ saw'[h] = {})
           \/ pc'[h] = pc[h] /\ job'[h] = job[h] /\ row'[h] = row[h] /\ saw'[h] = saw[h]
  PROVE IInv'
<1> USE DEF tables
<1>1. Fresh'
  <2> SUFFICES ASSUME NEW h \in Handlers, InTransaction(h)'
               PROVE /\ job'[h].id \in 1 .. seq - 1 /\ job'[h].id \notin DOMAIN characters
                     /\ \A g \in Handlers : job'[h].id \notin saw'[g]
                     /\ \A i \in DOMAIN characters : job'[h].id \notin knew[i]
                     /\ \A g \in Handlers : g # h /\ InTransaction(g)' => job'[g].id # job'[h].id
    BY DEF Fresh
  <2>1. \A g \in Handlers : InTransaction(g)' => InTransaction(g) /\ job'[g] = job[g]
    BY DEF InTransaction, Creating
  <2>2. \A g \in Handlers : saw'[g] = saw[g] \/ saw'[g] = {}
    OBVIOUS
  <2> QED BY <2>1, <2>2 DEF IInv, Fresh
<1>2. Checked'
  BY DEF IInv, Shape, Checked, InTransaction, Creating
<1>3. FiveInventories' /\ TwinsMissedEachOther'
  BY DEF IInv, FiveInventories, TwinsMissedEachOther
<1> QED BY <1>1, <1>2, <1>3 DEF IInv

(* The handler returns. *)
LEMMA EndsShape ==
  ASSUME IInv, NEW h \in Handlers, Ends(h), UNCHANGED tables
  PROVE IInv'
<1>1. Shape'
  BY DEF IInv, Shape, Ends, Goes, tables, NoJob, Asks, NoRow, Row
<1>2. \A g \in Handlers :
        \/ ~Creating(g)' /\ (saw'[g] = saw[g] \/ saw'[g] = {})
        \/ pc'[g] = pc[g] /\ job'[g] = job[g] /\ row'[g] = row[g] /\ saw'[g] = saw[g]
  BY DEF IInv, Shape, Ends, Goes, Creating
<1> QED BY <1>1, <1>2, TablesUnchanged

LEMMA BeginInv == ASSUME IInv, NEW h \in Handlers, Begin(h) PROVE IInv'
<1>1. PICK j \in Jobs :
        /\ job' = [job EXCEPT ![h] = j]
        /\ pc' = [pc EXCEPT ![h] = CASE j.op = "create" -> "check"
                                     [] j.op = "delete" -> "delete"
                                     [] OTHER -> "find"]
  BY DEF Begin, Goes
<1>2. j \in [op : {"none", "create", "map", "login", "logout", "delete"},
             id : Nat, name : Names \cup {None}, level : Nat, map : Maps \cup {None}]
  BY LifecycleAssumption DEF Jobs, Asks, Ids
<1>3. Shape'
  BY <1>1, <1>2 DEF IInv, Shape, Begin, tables
<1>4. \A g \in Handlers :
        \/ ~Creating(g)' /\ (saw'[g] = saw[g] \/ saw'[g] = {})
        \/ pc'[g] = pc[g] /\ job'[g] = job[g] /\ row'[g] = row[g] /\ saw'[g] = saw[g]
  BY <1>1 DEF IInv, Shape, Begin, Creating
<1> QED BY <1>3, <1>4, TablesUnchanged DEF Begin

(* What the check has seen has another name, in every spelling. *)
LEMMA CheckInv == ASSUME IInv, NEW h \in Handlers, Check(h) PROVE IInv'
<1>1. CASE Ends(h) /\ UNCHANGED <<tables, topic>>
  BY <1>1, EndsShape
<1>2. CASE /\ Valid(job[h]) /\ saw' = [saw EXCEPT ![h] = DOMAIN characters]
           /\ pc' = [pc EXCEPT ![h] = "insert"]
           /\ UNCHANGED <<tables, job, row, alone, topic>>
  <2> USE <1>2 DEF tables
  <2>1. Shape'
    BY DEF IInv, Shape
  <2>2. \A g \in Handlers : InTransaction(g)' <=> InTransaction(g)
    BY DEF IInv, Shape, Check, InTransaction
  <2>3. \A g \in Handlers : saw'[g] = IF g = h THEN DOMAIN characters ELSE saw[g]
    BY DEF IInv, Shape
  <2>4. Fresh'
    BY <2>2, <2>3 DEF IInv, Fresh
  <2>5. Checked'
    <3>1. \A i \in DOMAIN characters : Lower[characters[i].name] # Lower[job[h].name]
      BY DEF Valid, Taken, SameName
    <3>2. \A g \in Handlers \ {h} : pc'[g] = pc[g]
      BY DEF IInv, Shape
    <3>3. pc'[h] = "insert"
      BY DEF IInv, Shape
    <3> QED BY <2>3, <3>1, <3>2, <3>3 DEF IInv, Checked, Creating, InTransaction
  <2>6. FiveInventories' /\ TwinsMissedEachOther'
    BY DEF IInv, FiveInventories, TwinsMissedEachOther
  <2> QED BY <2>1, <2>4, <2>5, <2>6 DEF IInv
<1> QED BY <1>1, <1>2 DEF Check, Goes

(* The id is one that no check has seen, and no other transaction has. *)
LEMMA InsertInv == ASSUME IInv, NEW h \in Handlers, Insert(h) PROVE IInv'
<1> USE DEF Insert, Goes
<1>1. Shape'
  <2>1. seq' \in Nat \ {0} /\ 1 .. seq - 1 \subseteq 1 .. seq' - 1
    BY DEF IInv, Shape
  <2>2. /\ DOMAIN characters' \subseteq 1 .. seq' - 1
        /\ characters' \in [DOMAIN characters' -> [name : Names \cup {None}, map : Maps \cup {None}]]
    BY <2>1 DEF IInv, Shape
  <2>3. pc' \in [Handlers -> {"idle", "check", "insert", "inventories", "commit", "delete",
                             "find", "save", "portal", "announce"}]
    BY DEF IInv, Shape
  <2>4. job' \in [Handlers -> [op : {"none", "create", "map", "login", "logout", "delete"},
                              id : Nat, name : Names \cup {None}, level : Nat,
                              map : Maps \cup {None}]]
    <3> DEFINE Job == [op : {"none", "create", "map", "login", "logout", "delete"},
                       id : Nat, name : Names \cup {None}, level : Nat,
                       map : Maps \cup {None}]
    <3>1. job \in [Handlers -> Job] /\ seq \in Nat /\ job' = [job EXCEPT ![h].id = seq]
      BY DEF IInv, Shape
    <3>2. [job[h] EXCEPT !.id = seq] \in Job
      BY <3>1
    <3>3. job' = [g \in Handlers |-> IF g = h THEN [job[h] EXCEPT !.id = seq] ELSE job[g]]
      BY <3>1
    <3> HIDE DEF Job
    <3>4. job' \in [Handlers -> Job]
      BY <3>1, <3>2, <3>3
    <3> QED BY <3>4 DEF Job
  <2>5. row' \in [Handlers -> [name : Names \cup {None}, map : Maps \cup {None},
                              types : SUBSET Types]]
    BY DEF IInv, Shape, Row
  <2>6. saw' \in [Handlers -> SUBSET (1 .. seq' - 1)]
    BY <2>1 DEF IInv, Shape
  <2>7. knew' \in [DOMAIN characters' -> SUBSET (1 .. seq' - 1)]
    BY <2>1 DEF IInv, Shape
  <2> QED BY <2>1, <2>2, <2>3, <2>4, <2>5, <2>6, <2>7 DEF Shape
<1>2. /\ job'[h].id = seq /\ job'[h].name = job[h].name
      /\ row'[h].name = job[h].name /\ row'[h].types = {}
      /\ pc'[h] = "inventories"
  BY DEF IInv, Shape, Row
<1>3. \A g \in Handlers \ {h} : pc'[g] = pc[g] /\ job'[g] = job[g] /\ row'[g] = row[g]
  BY DEF IInv, Shape
<1>4. Fresh'
  <2>1. seq \in 1 .. seq' - 1 /\ seq \notin 1 .. seq - 1 /\ 1 .. seq - 1 \subseteq 1 .. seq' - 1
    BY DEF IInv, Shape
  <2>2. \A g \in Handlers \ {h} : InTransaction(g)' <=> InTransaction(g)
    BY <1>3 DEF InTransaction
  <2>3. /\ seq \notin DOMAIN characters
        /\ \A g \in Handlers : seq \notin saw[g]
        /\ \A i \in DOMAIN characters : seq \notin knew[i]
    BY <2>1 DEF IInv, Shape
  <2>4. \A g \in Handlers \ {h} : InTransaction(g) => job[g].id # seq
    BY <2>1 DEF IInv, Fresh
  <2> QED BY <1>2, <1>3, <2>1, <2>2, <2>3, <2>4 DEF IInv, Fresh
<1>5. Checked'
  BY <1>2, <1>3 DEF IInv, Checked, Creating, InTransaction, Types
<1>6. FiveInventories' /\ TwinsMissedEachOther'
  BY DEF IInv, FiveInventories, TwinsMissedEachOther
<1> QED BY <1>1, <1>4, <1>5, <1>6 DEF IInv

(* The transaction goes to its commit only once it has all five. *)
LEMMA CreateInventoryInv ==
  ASSUME IInv, NEW h \in Handlers, CreateInventory(h)
  PROVE IInv'
<1> USE DEF CreateInventory, StoresInventory, Goes
<1>1. NextType(h) \in Types
  <2>1. Types \ row[h].types # {}
    BY DEF IInv, Shape, Checked
  <2>2. \E t \in Types \ row[h].types : \A u \in Types \ row[h].types : t <= u
    BY <2>1 DEF Types
  <2> QED BY <2>2 DEF NextType
<1>2. Shape'
  <2> USE DEF IInv, Shape
  <2>1. row' \in [Handlers -> [name : Names \cup {None}, map : Maps \cup {None},
                              types : SUBSET Types]]
    BY <1>1
  <2>2. pc' \in [Handlers -> {"idle", "check", "insert", "inventories", "commit", "delete",
                             "find", "save", "portal", "announce"}]
    OBVIOUS
  <2> QED BY <2>1, <2>2
<1>3. /\ row'[h].name = row[h].name
      /\ pc'[h] = IF row'[h].types = Types THEN "commit" ELSE "inventories"
  BY DEF IInv, Shape
<1>4. \A g \in Handlers \ {h} : pc'[g] = pc[g] /\ row'[g] = row[g]
  BY DEF IInv, Shape
<1>5. \A g \in Handlers : /\ InTransaction(g)' <=> InTransaction(g)
                          /\ Creating(g)' <=> Creating(g)
  BY <1>3, <1>4 DEF InTransaction, Creating
<1>6. Fresh'
  BY <1>5 DEF IInv, Fresh
<1>7. Checked'
  BY <1>3, <1>4, <1>5 DEF IInv, Checked, InTransaction
<1>8. FiveInventories' /\ TwinsMissedEachOther'
  BY DEF IInv, FiveInventories, TwinsMissedEachOther
<1> QED BY <1>2, <1>6, <1>7, <1>8 DEF IInv

(* Of the two characters that share a name, the one committed now was not   *)
(* seen by the other's check, being in no table then; nor the other by its. *)
LEMMA CommitInv == ASSUME IInv, NEW h \in Handlers, Commit(h) PROVE IInv'
<1> DEFINE id == job[h].id
<1> USE DEF Commit
<1>0. /\ InTransaction(h) /\ Creating(h)
      /\ id \in 1 .. seq - 1 /\ id \notin DOMAIN characters
      /\ row[h].name = job[h].name /\ row[h].types = Types
  BY DEF IInv, Fresh, Checked, InTransaction, Creating
<1>1. /\ DOMAIN characters' = DOMAIN characters \cup {id}
      /\ characters'[id] = [name |-> row[h].name, map |-> row[h].map]
      /\ \A i \in DOMAIN characters : characters'[i] = characters[i]
  BY <1>0 DEF With
<1>2. knew' = [i \in DOMAIN characters' |-> IF i = id THEN saw[h] ELSE knew[i]]
  BY <1>0, <1>1 DEF IInv, Shape, With
<1>3. inventories' = [i \in DOMAIN characters' |-> Types]
  BY <1>0, <1>1 DEF IInv, FiveInventories, With
<1>4. /\ pc'[h] = "idle" /\ saw'[h] = {}
      /\ \A g \in Handlers \ {h} : /\ pc'[g] = pc[g] /\ job'[g] = job[g]
                                   /\ row'[g] = row[g] /\ saw'[g] = saw[g]
  BY DEF IInv, Shape, Ends, Goes
<1>5. Shape'
  <2>1. /\ pc' \in [Handlers -> {"idle", "check", "insert", "inventories", "commit", "delete",
                                 "find", "save", "portal", "announce"}]
        /\ job' \in [Handlers -> [op : {"none", "create", "map", "login", "logout", "delete"},
                                  id : Nat, name : Names \cup {None}, level : Nat,
                                  map : Maps \cup {None}]]
        /\ row' \in [Handlers -> [name : Names \cup {None}, map : Maps \cup {None},
                                  types : SUBSET Types]]
        /\ saw' \in [Handlers -> SUBSET (1 .. seq - 1)]
    BY DEF IInv, Shape, Ends, Goes, NoJob, Asks, NoRow, Row
  <2>2. characters'[id] \in [name : Names \cup {None}, map : Maps \cup {None}]
    BY <1>1 DEF IInv, Shape
  <2>3. characters' = [i \in DOMAIN characters' |-> characters'[i]]
    BY DEF With
  <2>4. characters' \in [DOMAIN characters' -> [name : Names \cup {None}, map : Maps \cup {None}]]
    BY <1>1, <2>2, <2>3 DEF IInv, Shape
  <2>5. knew' \in [DOMAIN characters' -> SUBSET (1 .. seq - 1)]
    BY <1>1, <1>2 DEF IInv, Shape
  <2>6. DOMAIN characters' \subseteq 1 .. seq - 1
    BY <1>0, <1>1 DEF IInv, Shape
  <2> QED BY <2>1, <2>4, <2>5, <2>6 DEF IInv, Shape
<1>6. \A g \in Handlers : /\ InTransaction(g)' => InTransaction(g) /\ g # h
                          /\ Creating(g)' => Creating(g) /\ g # h
  BY <1>4 DEF InTransaction, Creating
<1>7. Fresh'
  <2> SUFFICES ASSUME NEW g \in Handlers, InTransaction(g)'
               PROVE /\ job'[g].id \in 1 .. seq' - 1 /\ job'[g].id \notin DOMAIN characters'
                     /\ \A f \in Handlers : job'[g].id \notin saw'[f]
                     /\ \A i \in DOMAIN characters' : job'[g].id \notin knew'[i]
                     /\ \A f \in Handlers : f # g /\ InTransaction(f)' => job'[f].id # job'[g].id
    BY DEF Fresh
  <2>1. InTransaction(g) /\ g # h /\ job'[g] = job[g]
    BY <1>4, <1>6
  <2>2. job[g].id \in 1 .. seq' - 1 /\ job[g].id \notin DOMAIN characters'
    BY <1>0, <1>1, <2>1 DEF IInv, Fresh
  <2>3. \A f \in Handlers : job[g].id \notin saw'[f]
    BY <1>4, <2>1 DEF IInv, Fresh
  <2>4. \A i \in DOMAIN characters' : job[g].id \notin knew'[i]
    BY <1>1, <1>2, <2>1 DEF IInv, Fresh
  <2>5. \A f \in Handlers : f # g /\ InTransaction(f)' => job'[f].id # job[g].id
    BY <1>4, <1>6, <2>1 DEF IInv, Fresh
  <2> QED BY <2>1, <2>2, <2>3, <2>4, <2>5
<1>8. Checked'
  <2> SUFFICES ASSUME NEW g \in Handlers
               PROVE /\ Creating(g)' => \A i \in DOMAIN characters' :
                          i \in saw'[g] => Lower[characters'[i].name] # Lower[job'[g].name]
                     /\ InTransaction(g)' => row'[g].name = job'[g].name
                     /\ pc'[g] = "inventories" => row'[g].types # Types
                     /\ pc'[g] = "commit" => row'[g].types = Types
    BY DEF Checked
  <2>1. CASE Creating(g)'
    <3>1. /\ g # h /\ Creating(g) /\ pc'[g] = pc[g] /\ job'[g] = job[g]
          /\ row'[g] = row[g] /\ saw'[g] = saw[g]
      BY <1>4, <1>6, <2>1
    <3>2. id \notin saw[g]
      BY <1>0 DEF IInv, Fresh
    <3> QED BY <1>1, <3>1, <3>2 DEF IInv, Checked, InTransaction
  <2> QED BY <2>1 DEF Creating, InTransaction
<1>9. TwinsMissedEachOther'
  <2> SUFFICES ASSUME NEW i \in DOMAIN characters', NEW j \in DOMAIN characters', i # j,
                      Lower[characters'[i].name] = Lower[characters'[j].name]
               PROVE i \notin knew'[j]
    BY DEF TwinsMissedEachOther
  <2>1. CASE i # id /\ j # id
    <3>1. /\ i \in DOMAIN characters /\ characters'[i] = characters[i]
          /\ j \in DOMAIN characters /\ characters'[j] = characters[j]
          /\ knew'[j] = knew[j]
      BY <1>1, <1>2, <2>1
    <3> QED BY <3>1 DEF IInv, TwinsMissedEachOther
  <2>2. CASE i = id
    BY <1>0, <1>1, <1>2, <2>2 DEF IInv, Fresh
  <2>3. CASE j = id
    <3>1. knew'[j] = saw[h] /\ characters'[j].name = job[h].name
      BY <1>0, <1>1, <1>2, <2>3
    <3>2. i \in DOMAIN characters /\ characters'[i] = characters[i]
      BY <1>1, <2>3
    <3>3. \A c \in DOMAIN characters :
            c \in saw[h] => Lower[characters[c].name] # Lower[job[h].name]
      BY <1>0 DEF IInv, Checked
    <3>4. Lower[characters[i].name] = Lower[job[h].name]
      BY <3>1, <3>2
    <3> QED BY <3>1, <3>2, <3>3, <3>4
  <2> QED BY <2>1, <2>2, <2>3
<1>10. FiveInventories'
  BY <1>3 DEF FiveInventories
<1> QED BY <1>5, <1>7, <1>8, <1>9, <1>10 DEF IInv

LEMMA FailCreateInv == ASSUME IInv, NEW h \in Handlers, FailCreate(h) PROVE IInv'
BY EndsShape DEF FailCreate

(* A deletion takes a character's inventories and its history with it. *)
LEMMA DeleteInv == ASSUME IInv, NEW h \in Handlers, Delete(h) PROVE IInv'
<1> DEFINE others == DOMAIN characters \ {job[h].id}
<1>1. CASE UNCHANGED tables
  BY <1>1, EndsShape DEF Delete
<1>2. CASE /\ characters' = [i \in others |-> characters[i]]
           /\ inventories' = [i \in DOMAIN inventories \ {job[h].id} |-> inventories[i]]
           /\ knew' = [i \in others |-> knew[i]]
           /\ UNCHANGED seq
  <2> USE <1>2
  <2>1. /\ pc'[h] = "idle" /\ saw'[h] = {}
        /\ \A g \in Handlers \ {h} : /\ pc'[g] = pc[g] /\ job'[g] = job[g]
                                     /\ row'[g] = row[g] /\ saw'[g] = saw[g]
    BY DEF IInv, Shape, Delete, Ends, Goes
  <2>2. Shape'
    BY DEF IInv, Shape, Delete, Ends, Goes, NoJob, Asks, NoRow, Row
  <2>3. Fresh'
    BY <2>1 DEF IInv, Fresh, InTransaction
  <2>4. Checked'
    BY <2>1 DEF IInv, Checked, Creating, InTransaction
  <2>5. FiveInventories' /\ TwinsMissedEachOther'
    BY DEF IInv, FiveInventories, TwinsMissedEachOther
  <2> QED BY <2>2, <2>3, <2>4, <2>5 DEF IInv
<1> QED BY <1>1, <1>2 DEF Delete

(* The read, the save and the announcement of a session or a map change     *)
(* touch no creation.                                                      *)
LEMMA FindInv == ASSUME IInv, NEW h \in Handlers, Find(h) PROVE IInv'
<1>1. CASE Ends(h) /\ UNCHANGED <<tables, topic>>
  BY <1>1, EndsShape
<1>2. CASE ~Ends(h)
  <2>1. PICK step \in {"save", "announce"} : pc' = [pc EXCEPT ![h] = step]
    BY <1>2 DEF Find, Goes
  <2>2. /\ job[h].id \in DOMAIN characters
        /\ row' = [row EXCEPT ![h] = Row(characters[job[h].id].name,
                                        characters[job[h].id].map, {})]
        /\ UNCHANGED <<tables, job, saw>>
    BY <1>2 DEF Find
  <2>3. Shape'
    BY <2>1, <2>2 DEF IInv, Shape, Row, tables
  <2>4. \A g \in Handlers :
          \/ ~Creating(g)' /\ (saw'[g] = saw[g] \/ saw'[g] = {})
          \/ pc'[g] = pc[g] /\ job'[g] = job[g] /\ row'[g] = row[g] /\ saw'[g] = saw[g]
    BY <2>1, <2>2 DEF IInv, Shape, Creating
  <2> QED BY <2>2, <2>3, <2>4, TablesUnchanged
<1> QED BY <1>1, <1>2 DEF Find

LEMMA SaveInv == ASSUME IInv, NEW h \in Handlers, Save(h) PROVE IInv'
<1>1. CASE Ends(h) /\ UNCHANGED <<tables, topic>>
  BY <1>1, EndsShape
<1>2. CASE /\ characters' = [i \in DOMAIN characters |->
                               IF i = job[h].id THEN [characters[i] EXCEPT !.map = job[h].map]
                               ELSE characters[i]]
           /\ pc' = [pc EXCEPT ![h] = "portal"]
           /\ UNCHANGED <<inventories, seq, knew, locals, topic>>
  <2> USE <1>2 DEF locals
  <2>1. /\ DOMAIN characters' = DOMAIN characters
        /\ \A i \in DOMAIN characters : characters'[i].name = characters[i].name
    BY DEF IInv, Shape
  <2>2. Shape'
    BY DEF IInv, Shape
  <2>3. pc[h] = "save" /\ pc'[h] = "portal" /\ \A g \in Handlers \ {h} : pc'[g] = pc[g]
    BY DEF IInv, Shape, Save
  <2>4. Fresh'
    BY <2>1, <2>3 DEF IInv, Fresh, InTransaction
  <2>5. Checked'
    BY <2>1, <2>3 DEF IInv, Checked, Creating, InTransaction
  <2>6. FiveInventories' /\ TwinsMissedEachOther'
    BY <2>1 DEF IInv, FiveInventories, TwinsMissedEachOther
  <2> QED BY <2>2, <2>4, <2>5, <2>6 DEF IInv
<1> QED BY <1>1, <1>2 DEF Save, Goes, KeepsModel

LEMMA PortalInv == ASSUME IInv, NEW h \in Handlers, Portal(h) PROVE IInv'
<1>1. CASE Ends(h)
  BY <1>1, EndsShape DEF Portal, tables
<1>2. CASE pc' = [pc EXCEPT ![h] = "announce"] /\ UNCHANGED <<tables, locals, topic>>
  <2>1. Shape'
    BY <1>2 DEF IInv, Shape, tables, locals
  <2>2. \A g \in Handlers :
          \/ ~Creating(g)' /\ (saw'[g] = saw[g] \/ saw'[g] = {})
          \/ pc'[g] = pc[g] /\ job'[g] = job[g] /\ row'[g] = row[g] /\ saw'[g] = saw[g]
    BY <1>2 DEF IInv, Shape, Creating, locals
  <2> QED BY <1>2, <2>1, <2>2, TablesUnchanged
<1> QED BY <1>1, <1>2 DEF Portal, Goes

LEMMA AnnounceInv == ASSUME IInv, NEW h \in Handlers, Announce(h) PROVE IInv'
BY EndsShape DEF Announce

LEMMA CrashInv == ASSUME IInv, Crash PROVE IInv'
<1>1. Shape'
  BY DEF IInv, Shape, Crash, tables, NoJob, Asks, NoRow, Row
<1>2. \A g \in Handlers : ~Creating(g)' /\ saw'[g] = {}
  BY DEF Crash, Creating
<1> QED BY <1>1, <1>2, TablesUnchanged DEF Crash

LEMMA StutterInv == ASSUME IInv, UNCHANGED vars PROVE IInv'
BY DEF vars, tables, locals, IInv, Shape, Fresh, Checked, InTransaction, Creating,
       FiveInventories, TwinsMissedEachOther

-----------------------------------------------------------------------------
(* What Create keeps: rows and histories in shape, ids in open transactions *)
(* unseen, names in them different from what their checks saw, and the two  *)
(* properties below.                                                       *)
THEOREM LifecycleInvariant == Spec => []IInv
<1>1. Init => IInv
  BY InitInv
<1>2. IInv /\ [Next]_vars => IInv'
  <2> SUFFICES ASSUME IInv, [Next]_vars PROVE IInv'
    OBVIOUS
  <2>1. ASSUME NEW h \in Handlers, Handle(h) PROVE IInv'
    BY <2>1, BeginInv, CheckInv, InsertInv, CreateInventoryInv, CommitInv, FailCreateInv,
       DeleteInv, FindInv, SaveInv, PortalInv, AnnounceInv DEF Handle
  <2>2. CASE Crash
    BY <2>2, CrashInv
  <2>3. CASE UNCHANGED vars
    BY <2>3, StutterInv
  <2> QED BY <2>1, <2>2, <2>3 DEF Next
<1> QED BY <1>1, <1>2, PTL DEF Spec

(* Two characters share a name only if the check of each came before the    *)
(* commit of the other, however many requests there are.                    *)
THEOREM TwinsOnlyByRace == Spec => []TwinsMissedEachOther
BY LifecycleInvariant, PTL DEF IInv

(* A character never lacks one of its five inventories, and no inventory    *)
(* is left without its character.                                          *)
THEOREM AlwaysFiveInventories == Spec => []FiveInventories
BY LifecycleInvariant, PTL DEF IInv

-----------------------------------------------------------------------------
(* The status topic and the saved map: a handler that was alone has read    *)
(* what the topic tells, and leaves the topic telling what is saved.        *)
Working(h) == pc[h] \in {"save", "portal", "announce"}

\* The map of the character is saved and not yet told.
Saved(h) == pc[h] \in {"portal", "announce"} /\ job[h].op = "map"

\* The id of a character that is committed, or was.
Out(i) == i \in 1 .. seq - 1 /\ \A g \in Handlers : InTransaction(g) => job[g].id # i

Typed ==
  /\ seq <= MaxId + 1
  /\ characters \in [DOMAIN characters -> [name : WellFormed, map : Maps]]
  /\ told \in [Ids -> Maps \cup {None}] /\ doubt \subseteq Ids
  /\ alone \in [Handlers -> BOOLEAN]

Asked ==
  \A h \in Handlers :
    /\ pc[h] = "check" \/ Creating(h) => job[h].map \in Maps
    /\ Creating(h) => job[h].name \in WellFormed
    /\ InTransaction(h) => row[h].map = job[h].map
    /\ pc[h] = "find" \/ Working(h) =>
         /\ job[h].id \in Ids /\ job[h].op \in {"map", "login", "logout"}
         /\ job[h].op = "map" => job[h].map \in Maps
    /\ pc[h] \in {"save", "portal"} => job[h].op = "map"
    /\ Working(h) => row[h].map \in Maps

Issued == /\ \A i \in Ids : told[i] # None => Out(i)
          /\ \A h \in Handlers : Working(h) => Out(job[h].id)

Alone == \A g, h \in Handlers :
           g # h /\ alone[h] /\ Working(h) /\ Working(g) => job[g].id # job[h].id

\* What a handler that is alone has read is what is told, and what is saved
\* until it saves.
Read ==
  \A h \in Handlers : alone[h] /\ Working(h) =>
    /\ job[h].id \notin doubt => told[job[h].id] \in {None, row[h].map}
    /\ job[h].id \in DOMAIN characters =>
         characters[job[h].id].map = IF Saved(h) THEN job[h].map ELSE row[h].map

\* What is told is what is saved, but for a map that is still to be told.
Topic ==
  \A i \in DOMAIN characters \ doubt :
    (\A h \in Handlers : Saved(h) => job[h].id # i) => told[i] \in {None, characters[i].map}

TInv == IInv /\ Typed /\ Asked /\ Issued /\ Alone /\ Read /\ Topic

-----------------------------------------------------------------------------
LEMMA InitTopic == Init => TInv
  <1> SUFFICES ASSUME Init PROVE TInv
    OBVIOUS
  <1>1. IInv
    BY InitInv
  <1>2. Typed
    BY LifecycleAssumption DEF Init, Typed
  <1>3. Asked /\ Issued /\ Alone /\ Read /\ Topic
    BY DEF Init, Asked, Issued, Alone, Read, Topic, Working, Saved, Creating, InTransaction
  <1> QED BY <1>1, <1>2, <1>3 DEF TInv

\* What a step of one goroutine leaves as it is.
OthersKeep(h) ==
  \A g \in Handlers \ {h} :
    pc'[g] = pc[g] /\ job'[g] = job[g] /\ row'[g] = row[g] /\ alone'[g] = alone[g]

LEMMA EndsGives ==
  ASSUME IInv, Typed, NEW h \in Handlers, Ends(h)
  PROVE  /\ pc'[h] = "idle" /\ alone'[h] = FALSE /\ OthersKeep(h)
         /\ alone' \in [Handlers -> BOOLEAN]
  BY DEF IInv, Shape, Typed, Ends, Goes, OthersKeep

\* A step that makes nobody work, and stops nobody that works; of the
\* characters it may add some that nothing was told of and remove others.
LEMMA Outside ==
  ASSUME TInv, UNCHANGED topic,
         \A g \in Handlers :
           \/ ~Working(g) /\ ~Working(g)'
           \/ pc'[g] = pc[g] /\ job'[g] = job[g] /\ row'[g] = row[g] /\ alone'[g] = alone[g],
         \A i \in DOMAIN characters' :
           \/ i \in DOMAIN characters /\ characters'[i] = characters[i]
           \/ told[i] = None /\ \A g \in Handlers : Working(g) => job[g].id # i
  PROVE  (Alone /\ Read /\ Topic)'
  <1>1. \A g \in Handlers : Working(g)' =>
          /\ Working(g) /\ pc'[g] = pc[g] /\ job'[g] = job[g]
          /\ row'[g] = row[g] /\ alone'[g] = alone[g]
    BY DEF Working
  <1>2. \A g \in Handlers : Working(g) => Working(g)' /\ pc'[g] = pc[g] /\ job'[g] = job[g]
    BY DEF Working
  <1>3. Alone'
    BY <1>1 DEF TInv, Alone
  <1>4. Read'
    BY <1>1 DEF TInv, Read, Saved, topic
  <1>5. Topic'
    <2> SUFFICES ASSUME NEW i \in DOMAIN characters' \ doubt,
                        \A h \in Handlers : Saved(h)' => job'[h].id # i
                 PROVE told[i] \in {None, characters'[i].map}
      BY DEF Topic, topic
    <2>1. \A h \in Handlers : Saved(h) => job[h].id # i
      BY <1>2 DEF Saved, Working
    <2> QED BY <2>1 DEF TInv, Topic
  <1> QED BY <1>3, <1>4, <1>5

\* A step that puts nobody into a transaction keeps ids out.
LEMMA StaysOut ==
  ASSUME TInv, seq' = seq,
         \A g \in Handlers : InTransaction(g)' => InTransaction(g) /\ job'[g] = job[g],
         NEW i, Out(i)
  PROVE  Out(i)'
  BY DEF Out

-----------------------------------------------------------------------------
LEMMA BeginTopic == ASSUME TInv, NEW h \in Handlers, Begin(h) PROVE TInv'
  <1>1. PICK j \in Jobs :
          /\ job' = [job EXCEPT ![h] = j]
          /\ pc' = [pc EXCEPT ![h] = CASE j.op = "create" -> "check"
                                       [] j.op = "delete" -> "delete"
                                       [] OTHER -> "find"]
    BY DEF Begin, Goes
  <1>2. UNCHANGED <<tables, row, alone, topic>> /\ pc[h] = "idle"
    BY DEF Begin
  <1>3. /\ job'[h] = j /\ OthersKeep(h)
        /\ pc'[h] = CASE j.op = "create" -> "check" [] j.op = "delete" -> "delete"
                      [] OTHER -> "find"
    BY <1>1, <1>2 DEF TInv, IInv, Shape, OthersKeep
  <1>4. \/ j.op = "create" /\ j.map \in Maps
        \/ j.op = "delete"
        \/ j.op \in {"map", "login", "logout"} /\ j.id \in Ids
           /\ (j.op = "map" => j.map \in Maps)
    BY DEF Jobs, Asks
  <1>5. pc'[h] \in {"check", "delete", "find"}
    BY <1>3
  <1>6. Asked'
    BY <1>2, <1>3, <1>4, <1>5 DEF TInv, Asked, OthersKeep, Creating, InTransaction, Working
  <1>7. Issued'
    BY <1>2, <1>3, <1>5 DEF TInv, Issued, Out, OthersKeep, InTransaction, Working, tables, topic
  <1>8. (Alone /\ Read /\ Topic)'
    BY <1>2, <1>3, <1>5, Outside DEF OthersKeep, Working, tables
  <1>9. Typed'
    BY <1>2 DEF TInv, Typed, tables, topic
  <1> QED BY <1>6, <1>7, <1>8, <1>9, BeginInv DEF TInv

\* A goroutine that is not at work returns.
LEMMA EndsTopic ==
  ASSUME TInv, NEW h \in Handlers, Ends(h), ~Working(h), UNCHANGED <<tables, topic>>
  PROVE  TInv'
  <1>1. /\ pc'[h] = "idle" /\ OthersKeep(h) /\ alone' \in [Handlers -> BOOLEAN]
    BY EndsGives DEF TInv
  <1>2. Typed'
    BY <1>1 DEF TInv, Typed, tables, topic
  <1>3. Asked' /\ Issued'
    BY <1>1 DEF TInv, Asked, Issued, Out, OthersKeep, Creating, InTransaction, Working,
                tables, topic
  <1>4. (Alone /\ Read /\ Topic)'
    BY <1>1, Outside DEF OthersKeep, Working, tables
  <1>5. IInv'
    BY EndsShape DEF TInv
  <1> QED BY <1>2, <1>3, <1>4, <1>5 DEF TInv

LEMMA CheckTopic == ASSUME TInv, NEW h \in Handlers, Check(h) PROVE TInv'
  <1>1. CASE Ends(h) /\ UNCHANGED <<tables, topic>>
    BY <1>1, EndsTopic DEF Check, Working
  <1>2. CASE /\ Valid(job[h]) /\ pc' = [pc EXCEPT ![h] = "insert"]
             /\ UNCHANGED <<tables, job, row, alone, topic>>
    <2>1. pc[h] = "check" /\ pc'[h] = "insert" /\ OthersKeep(h)
      BY <1>2 DEF Check, TInv, IInv, Shape, OthersKeep
    <2>2. Typed'
      BY <1>2 DEF TInv, Typed, tables, topic
    <2>3. Asked'
      BY <1>2, <2>1 DEF TInv, Asked, OthersKeep, Creating, InTransaction, Working, Valid
    <2>4. Issued'
      BY <1>2, <2>1 DEF TInv, Issued, Out, OthersKeep, InTransaction, Working, tables, topic
    <2>5. (Alone /\ Read /\ Topic)'
      BY <1>2, <2>1, Outside DEF OthersKeep, Working, tables
    <2> QED BY <2>2, <2>3, <2>4, <2>5, CheckInv DEF TInv
  <1> QED BY <1>1, <1>2 DEF Check, Goes

LEMMA InsertTopic == ASSUME TInv, NEW h \in Handlers, Insert(h) PROVE TInv'
  <1> USE DEF Insert, Goes
  <1>1. /\ pc[h] = "insert" /\ pc'[h] = "inventories" /\ OthersKeep(h)
        /\ job'[h].id = seq /\ job'[h].map = job[h].map /\ job'[h].name = job[h].name
        /\ row'[h].map = job[h].map
    BY DEF TInv, IInv, Shape, OthersKeep, Row
  <1>2. seq \in Nat /\ seq' = seq + 1 /\ seq <= MaxId
    BY DEF TInv, IInv, Shape
  <1>3. Typed'
    BY <1>2, LifecycleAssumption DEF TInv, Typed, topic
  <1>4. Asked'
    BY <1>1 DEF TInv, Asked, OthersKeep, Creating, InTransaction, Working
  <1>5. Issued'
    <2>1. \A i : Out(i) => Out(i)'
      BY <1>1, <1>2 DEF Out, OthersKeep, InTransaction
    <2> QED BY <1>1, <2>1 DEF TInv, Issued, OthersKeep, Working, topic
  <1>6. (Alone /\ Read /\ Topic)'
    BY <1>1, Outside DEF OthersKeep, Working
  <1> QED BY <1>3, <1>4, <1>5, <1>6, InsertInv DEF TInv

LEMMA CreateInventoryTopic ==
  ASSUME TInv, NEW h \in Handlers, CreateInventory(h)
  PROVE  TInv'
  <1> USE DEF CreateInventory, StoresInventory, Goes
  <1>1. /\ pc[h] = "inventories" /\ pc'[h] \in {"inventories", "commit"} /\ OthersKeep(h)
        /\ row'[h].map = row[h].map
    BY DEF TInv, IInv, Shape, OthersKeep
  <1>2. Typed'
    BY DEF TInv, Typed, topic
  <1>3. Asked'
    BY <1>1 DEF TInv, Asked, OthersKeep, Creating, InTransaction, Working
  <1>4. Issued'
    BY <1>1 DEF TInv, Issued, Out, OthersKeep, InTransaction, Working, topic
  <1>5. (Alone /\ Read /\ Topic)'
    BY <1>1, Outside DEF OthersKeep, Working
  <1> QED BY <1>2, <1>3, <1>4, <1>5, CreateInventoryInv DEF TInv

\* A character that is committed now was told of by nobody.
LEMMA CommitTopic == ASSUME TInv, NEW h \in Handlers, Commit(h) PROVE TInv'
  <1> DEFINE id == job[h].id
  <1>1. /\ InTransaction(h) /\ Creating(h) /\ pc[h] = "commit"
        /\ seq' = seq /\ UNCHANGED topic /\ Ends(h)
    BY DEF Commit, InTransaction, Creating
  <1>2. pc'[h] = "idle" /\ OthersKeep(h) /\ alone' \in [Handlers -> BOOLEAN]
    BY <1>1, EndsGives DEF TInv
  <1>3. /\ id \in 1 .. seq - 1 /\ id \notin DOMAIN characters
        /\ row[h].name = job[h].name
    BY <1>1 DEF TInv, IInv, Fresh, Checked
  <1>4. id \in Ids
    BY <1>3, LifecycleAssumption DEF TInv, Typed, Ids, IInv, Shape
  <1>5. told[id] = None /\ \A g \in Handlers : Working(g) => job[g].id # id
    BY <1>1, <1>4 DEF TInv, Issued, Out
  <1>6. /\ DOMAIN characters' = DOMAIN characters \cup {id}
        /\ characters'[id] = [name |-> row[h].name, map |-> row[h].map]
        /\ \A i \in DOMAIN characters : characters'[i] = characters[i]
        /\ characters' = [i \in DOMAIN characters' |-> characters'[i]]
    BY <1>3 DEF Commit, With
  <1>7. characters'[id] \in [name : WellFormed, map : Maps]
    BY <1>1, <1>3, <1>6 DEF TInv, Asked
  <1>8. Typed'
    <2>1. \A i \in DOMAIN characters' : characters'[i] \in [name : WellFormed, map : Maps]
      BY <1>6, <1>7 DEF TInv, Typed
    <2>2. characters' \in [DOMAIN characters' -> [name : WellFormed, map : Maps]]
      BY <1>6, <2>1
    <2> QED BY <1>1, <1>2, <2>2 DEF TInv, Typed, topic
  <1>9. Asked' /\ Issued'
    BY <1>1, <1>2 DEF TInv, Asked, Issued, Out, OthersKeep, Creating, InTransaction, Working,
                      topic
  <1>10. (Alone /\ Read /\ Topic)'
    BY <1>1, <1>2, <1>5, <1>6, Outside DEF OthersKeep, Working
  <1> QED BY <1>8, <1>9, <1>10, CommitInv DEF TInv

LEMMA DeleteTopic == ASSUME TInv, NEW h \in Handlers, Delete(h) PROVE TInv'
  <1>1. pc[h] = "delete" /\ UNCHANGED topic /\ Ends(h) /\ seq' = seq
    BY DEF Delete, tables
  <1>2. pc'[h] = "idle" /\ OthersKeep(h) /\ alone' \in [Handlers -> BOOLEAN]
    BY <1>1, EndsGives DEF TInv
  <1>3. /\ DOMAIN characters' \subseteq DOMAIN characters
        /\ \A i \in DOMAIN characters' : characters'[i] = characters[i]
        /\ characters' \in [DOMAIN characters' -> [name : WellFormed, map : Maps]]
    BY DEF Delete, tables, TInv, Typed
  <1>4. Typed'
    BY <1>1, <1>2, <1>3 DEF TInv, Typed, topic
  <1>5. Asked' /\ Issued'
    BY <1>1, <1>2 DEF TInv, Asked, Issued, Out, OthersKeep, Creating, InTransaction, Working,
                      topic
  <1>6. (Alone /\ Read /\ Topic)'
    BY <1>1, <1>2, <1>3, Outside DEF OthersKeep, Working
  <1> QED BY <1>4, <1>5, <1>6, DeleteInv DEF TInv

-----------------------------------------------------------------------------
\* A goroutine that has the character to itself has read what is saved.
LEMMA FindTopic == ASSUME TInv, NEW h \in Handlers, Find(h) PROVE TInv'
  <1> DEFINE id == job[h].id
             others == {g \in Handlers : Works(g, id)}
  <1>1. CASE Ends(h) /\ UNCHANGED <<tables, topic>>
    BY <1>1, EndsTopic DEF Find, Working
  <1>2. CASE /\ id \in DOMAIN characters
             /\ row' = [row EXCEPT ![h] = Row(characters[id].name, characters[id].map, {})]
             /\ alone' = [g \in Handlers |-> IF g = h THEN others = {}
                                             ELSE alone[g] /\ g \notin others]
             /\ pc' = [pc EXCEPT ![h] = IF job[h].op = "map" THEN "save" ELSE "announce"]
             /\ UNCHANGED <<tables, job, saw, topic>>
    <2>1. /\ pc[h] = "find" /\ row'[h].map = characters[id].map
          /\ pc'[h] = IF job[h].op = "map" THEN "save" ELSE "announce"
          /\ \A g \in Handlers \ {h} : pc'[g] = pc[g] /\ row'[g] = row[g]
      BY <1>2 DEF Find, TInv, IInv, Shape, Row
    <2>2. /\ alone'[h] => \A g \in Handlers : Working(g) => job[g].id # id
          /\ \A g \in Handlers \ {h} :
               alone'[g] => alone[g] /\ (Working(g) => job[g].id # id)
      BY <1>2 DEF Works, Working
    <2>3. id \in 1 .. seq - 1 /\ characters[id].map \in Maps
      BY <1>2 DEF TInv, IInv, Shape, Typed
    <2>4. Typed'
      <3>1. alone' \in [Handlers -> BOOLEAN]
        <4>1. \A g \in Handlers : (alone[g] /\ g \notin others) \in BOOLEAN
          OBVIOUS
        <4>2. (others = {}) \in BOOLEAN
          OBVIOUS
        <4> HIDE DEF others
        <4> QED BY <1>2, <4>1, <4>2
      <3> QED BY <1>2, <3>1 DEF TInv, Typed, tables, topic
    <2>5. Asked'
      BY <1>2, <2>1, <2>3 DEF TInv, Asked, Creating, InTransaction, Working
    <2>6. Issued'
      <3>1. Out(id)
        BY <1>2, <2>3 DEF Out, TInv, IInv, Fresh
      <3>2. \A i : Out(i) => Out(i)'
        BY <1>2, <2>1 DEF Out, InTransaction, tables
      <3> QED BY <1>2, <2>1, <3>1, <3>2 DEF TInv, Issued, Working, topic
    <2>7. Alone'
      BY <1>2, <2>1, <2>2 DEF TInv, Alone, Working
    <2>8. Read'
      <3>1. ASSUME alone'[h] PROVE id \notin doubt => told[id] \in {None, characters[id].map}
        BY <1>2, <2>2, <3>1 DEF TInv, Topic, Saved, Working
      <3>2. ~Saved(h)'
        BY <1>2, <2>1 DEF Saved
      <3>3. \A g \in Handlers \ {h} : /\ Working(g)' <=> Working(g)
                                      /\ Saved(g)' <=> Saved(g)
        BY <1>2, <2>1 DEF Working, Saved
      <3> QED BY <1>2, <2>1, <2>2, <3>1, <3>2, <3>3 DEF TInv, Read, tables, topic
    <2>9. Topic'
      <3>1. ~Saved(h) /\ \A g \in Handlers \ {h} : Saved(g)' <=> Saved(g)
        BY <1>2, <2>1 DEF Saved
      <3> QED BY <1>2, <3>1 DEF TInv, Topic, tables, topic
    <2> QED BY <2>4, <2>5, <2>6, <2>7, <2>8, <2>9, FindInv DEF TInv
  <1> QED BY <1>1, <1>2 DEF Find, Goes

LEMMA SaveTopic == ASSUME TInv, NEW h \in Handlers, Save(h) PROVE TInv'
  <1> DEFINE id == job[h].id
  <1>0. pc[h] = "save" /\ Working(h) /\ ~Saved(h) /\ job[h].op = "map" /\ job[h].map \in Maps
    BY DEF Save, Working, Saved, TInv, Asked
  <1>1. CASE Ends(h) /\ UNCHANGED <<tables, topic>>
    <2>1. pc'[h] = "idle" /\ OthersKeep(h) /\ alone' \in [Handlers -> BOOLEAN]
      BY <1>1, EndsGives DEF TInv
    <2>2. Typed'
      BY <1>1, <2>1 DEF TInv, Typed, tables, topic
    <2>3. Asked' /\ Issued'
      BY <1>1, <2>1 DEF TInv, Asked, Issued, Out, OthersKeep, Creating, InTransaction, Working,
                        tables, topic
    <2>4. Alone'
      BY <2>1 DEF TInv, Alone, OthersKeep, Working
    <2>5. Read'
      BY <1>1, <2>1 DEF TInv, Read, OthersKeep, Working, Saved, tables, topic
    <2>6. Topic'
      BY <1>0, <1>1, <2>1 DEF TInv, Topic, OthersKeep, Saved, tables, topic
    <2> QED BY <2>2, <2>3, <2>4, <2>5, <2>6, SaveInv DEF TInv
  <1>2. CASE /\ characters' = [i \in DOMAIN characters |->
                                 IF i = id THEN [characters[i] EXCEPT !.map = job[h].map]
                                 ELSE characters[i]]
             /\ pc' = [pc EXCEPT ![h] = "portal"]
             /\ UNCHANGED <<inventories, seq, knew, locals, topic>>
    <2> USE DEF locals
    <2>1. pc'[h] = "portal" /\ OthersKeep(h)
      BY <1>2 DEF TInv, IInv, Shape, OthersKeep
    <2>2. /\ DOMAIN characters' = DOMAIN characters
          /\ id \in DOMAIN characters => characters'[id].map = job[h].map
          /\ \A i \in DOMAIN characters \ {id} : characters'[i] = characters[i]
      BY <1>2 DEF TInv, Typed
    <2>3. Typed'
      BY <1>0, <1>2 DEF TInv, Typed, topic
    <2>4. Asked' /\ Issued'
      BY <1>0, <1>2, <2>1 DEF TInv, Asked, Issued, Out, OthersKeep, Creating, InTransaction,
                              Working, topic
    <2>5. Alone'
      BY <1>0, <1>2, <2>1 DEF TInv, Alone, OthersKeep, Working
    <2>6. Read'
      <3>1. Saved(h)'
        BY <1>0, <1>2, <2>1 DEF Saved
      <3>2. \A g \in Handlers \ {h} : /\ alone[g] /\ Working(g) => job[g].id # id
                                      /\ Working(g)' <=> Working(g)
                                      /\ Saved(g)' <=> Saved(g)
        BY <1>0, <1>2, <2>1 DEF TInv, Alone, OthersKeep, Working, Saved
      <3> QED BY <1>0, <1>2, <2>2, <3>1, <3>2 DEF TInv, Read, topic
    <2>7. Topic'
      <3>1. Saved(h)' /\ \A g \in Handlers : Saved(g) => Saved(g)'
        BY <1>0, <1>2, <2>1 DEF Saved, OthersKeep
      <3> QED BY <1>2, <2>2, <3>1 DEF TInv, Topic, topic
    <2> QED BY <2>3, <2>4, <2>5, <2>6, <2>7, SaveInv DEF TInv
  <1> QED BY <1>1, <1>2 DEF Save, Goes, KeepsModel

LEMMA PortalTopic == ASSUME TInv, NEW h \in Handlers, Portal(h) PROVE TInv'
  <1> DEFINE id == job[h].id
  <1>0. pc[h] = "portal" /\ Working(h) /\ Saved(h) /\ job[h].op = "map" /\ id \in Ids
    BY DEF Portal, Working, Saved, TInv, Asked
  <1>1. CASE pc' = [pc EXCEPT ![h] = "announce"] /\ UNCHANGED <<tables, locals, topic>>
    <2> USE DEF locals
    <2>1. pc'[h] = "announce" /\ OthersKeep(h)
      BY <1>1 DEF TInv, IInv, Shape, OthersKeep
    <2>2. \A g \in Handlers : /\ Working(g)' <=> Working(g)
                              /\ Saved(g)' <=> Saved(g)
      BY <1>0, <1>1, <2>1 DEF OthersKeep, Working, Saved
    <2>3. Typed'
      BY <1>1 DEF TInv, Typed, tables, topic
    <2>4. Asked' /\ Issued'
      BY <1>0, <1>1, <2>1 DEF TInv, Asked, Issued, Out, OthersKeep, Creating, InTransaction,
                              Working, tables, topic
    <2>5. (Alone /\ Read /\ Topic)'
      BY <1>1, <2>2 DEF TInv, Alone, Read, Topic, tables, topic
    <2> QED BY <2>3, <2>4, <2>5, PortalInv DEF TInv
  <1>2. CASE doubt' = doubt \cup {id} /\ Ends(h) /\ UNCHANGED <<tables, told>>
    <2>1. pc'[h] = "idle" /\ OthersKeep(h) /\ alone' \in [Handlers -> BOOLEAN]
      BY <1>2, EndsGives DEF TInv
    <2>2. Typed'
      BY <1>0, <1>2, <2>1 DEF TInv, Typed, tables
    <2>3. Asked' /\ Issued'
      BY <1>2, <2>1 DEF TInv, Asked, Issued, Out, OthersKeep, Creating, InTransaction, Working,
                        tables
    <2>4. Alone'
      BY <2>1 DEF TInv, Alone, OthersKeep, Working
    <2>5. Read'
      BY <1>2, <2>1 DEF TInv, Read, OthersKeep, Working, Saved, tables
    <2>6. Topic'
      BY <1>2, <2>1 DEF TInv, Topic, OthersKeep, Saved, tables
    <2> QED BY <2>2, <2>3, <2>4, <2>5, <2>6, PortalInv DEF TInv
  <1> QED BY <1>1, <1>2 DEF Portal, Goes

\* A handler that is alone tells what is saved; of one that is not, or whose
\* message is lost, nothing is claimed.
LEMMA AnnounceTopic == ASSUME TInv, NEW h \in Handlers, Announce(h) PROVE TInv'
  <1> DEFINE id == job[h].id
  <1>0. /\ pc[h] = "announce" /\ Working(h) /\ id \in Ids /\ Ends(h) /\ UNCHANGED tables
        /\ Tells(h) \in Maps \cup {None}
    BY DEF Announce, Working, TInv, Asked, Tells
  <1>1. pc'[h] = "idle" /\ OthersKeep(h) /\ alone' \in [Handlers -> BOOLEAN]
    BY <1>0, EndsGives DEF TInv
  <1>2. /\ told' \in [Ids -> Maps \cup {None}] /\ doubt' \subseteq Ids
        /\ \A i \in Ids \ {id} : told'[i] = told[i] /\ (i \in doubt' <=> i \in doubt)
    BY <1>0 DEF Announce, TInv, Typed
  <1>3. Typed'
    BY <1>0, <1>1, <1>2 DEF TInv, Typed, tables
  <1>4. Asked'
    BY <1>1 DEF TInv, Asked, OthersKeep, Creating, InTransaction, Working
  <1>5. Issued'
    <2>1. \A i : Out(i) => Out(i)'
      BY <1>0, <1>1 DEF Out, OthersKeep, InTransaction, tables
    <2> QED BY <1>0, <1>1, <1>2, <2>1 DEF TInv, Issued, OthersKeep, Working
  <1>6. Alone'
    BY <1>1 DEF TInv, Alone, OthersKeep, Working
  <1>7. Read'
    <2> SUFFICES ASSUME NEW g \in Handlers, alone'[g], Working(g)'
                 PROVE /\ job'[g].id \notin doubt' => told'[job'[g].id] \in {None, row'[g].map}
                       /\ job'[g].id \in DOMAIN characters' =>
                            characters'[job'[g].id].map =
                              IF Saved(g)' THEN job'[g].map ELSE row'[g].map
      BY DEF Read
    <2>1. /\ g # h /\ alone[g] /\ Working(g) /\ job'[g] = job[g] /\ row'[g] = row[g]
          /\ Saved(g)' <=> Saved(g)
      BY <1>1 DEF OthersKeep, Working, Saved
    <2>2. job[g].id \in Ids \ {id}
      BY <1>0, <2>1 DEF TInv, Alone, Asked
    <2> QED BY <1>0, <1>2, <2>1, <2>2 DEF TInv, Read, tables
  <1>8. Topic'
    <2> SUFFICES ASSUME NEW i \in DOMAIN characters \ doubt',
                        \A g \in Handlers : Saved(g)' => job'[g].id # i
                 PROVE told'[i] \in {None, characters[i].map}
      BY <1>0 DEF Topic, tables
    <2>1. CASE i = id
      <3>1. alone[h] /\ told'[i] = Tells(h)
        BY <1>0, <2>1 DEF Announce, TInv, Typed
      <3>2. characters[i].map = IF Saved(h) THEN job[h].map ELSE row[h].map
        BY <1>0, <2>1, <3>1 DEF TInv, Read
      <3> QED BY <1>0, <3>1, <3>2 DEF Saved, Tells
    <2>2. CASE i # id
      <3>1. \A g \in Handlers : Saved(g) => job[g].id # i
        BY <1>1, <2>2 DEF OthersKeep, Saved
      <3>2. i \in Ids
        BY LifecycleAssumption DEF TInv, IInv, Shape, Typed, Ids
      <3> QED BY <1>2, <2>2, <3>1, <3>2 DEF TInv, Topic
    <2> QED BY <2>1, <2>2
  <1> QED BY <1>3, <1>4, <1>5, <1>6, <1>7, <1>8, AnnounceInv DEF TInv

LEMMA CrashTopic == ASSUME TInv, Crash PROVE TInv'
  <1>1. \A h \in Handlers : pc'[h] = "idle"
    BY DEF Crash
  <1>2. Typed'
    BY DEF Crash, TInv, Typed, tables
  <1>3. Asked' /\ Issued' /\ Alone' /\ Read'
    BY <1>1 DEF Crash, TInv, Asked, Issued, Out, Alone, Read, Creating, InTransaction, Working,
                tables
  <1>4. Topic'
    <2> SUFFICES ASSUME NEW i \in DOMAIN characters \ doubt'
                 PROVE told[i] \in {None, characters[i].map}
      BY DEF Topic, Crash, tables
    <2>1. i \in Ids
      BY LifecycleAssumption DEF TInv, IInv, Shape, Typed, Ids
    <2>2. i \notin doubt /\ \A h \in Handlers : ~Works(h, i)
      BY <2>1 DEF Crash
    <2> QED BY <2>2 DEF TInv, Topic, Saved, Works
  <1> QED BY <1>2, <1>3, <1>4, CrashInv DEF TInv

LEMMA FailCreateTopic == ASSUME TInv, NEW h \in Handlers, FailCreate(h) PROVE TInv'
  BY EndsTopic DEF FailCreate, Working

LEMMA StutterTopic == ASSUME TInv, UNCHANGED vars PROVE TInv'
  BY StutterInv DEF TInv, vars, tables, locals, topic, Typed, Asked, Issued, Out, Alone, Read,
                    Topic, Creating, InTransaction, Working, Saved

-----------------------------------------------------------------------------
\* Who works on a character alone, what it has read, and what is told.
THEOREM TopicInvariant == Spec => []TInv
  <1>1. TInv /\ [Next]_vars => TInv'
    <2> SUFFICES ASSUME TInv, [Next]_vars PROVE TInv'
      OBVIOUS
    <2>1. ASSUME NEW h \in Handlers, Handle(h) PROVE TInv'
      BY <2>1, BeginTopic, CheckTopic, InsertTopic, CreateInventoryTopic, CommitTopic,
         FailCreateTopic, DeleteTopic, FindTopic, SaveTopic, PortalTopic, AnnounceTopic
         DEF Handle
    <2> QED BY <2>1, CrashTopic, StutterTopic DEF Next
  <1> QED BY <1>1, InitTopic, PTL DEF Spec

\* Committed characters have a name of the right form and a map, and what is
\* remembered of them is of the ids given out (CharacterLifecycle.TypeOK).
THEOREM TypeCorrect == Spec => []TypeOK
  <1>1. TInv => TypeOK
    <2> SUFFICES ASSUME TInv PROVE TypeOK
      OBVIOUS
    <2>1. 1 .. seq - 1 \subseteq Ids
      BY LifecycleAssumption DEF TInv, Typed, IInv, Shape, Ids
    <2> QED BY <2>1 DEF TInv, Typed, IInv, Shape, TypeOK
  <1> QED BY <1>1, TopicInvariant, PTL

\* A consumer has every character on the saved map, unless it missed an event
\* or two handlers overlapped (CharacterLifecycle.TopicKnowsTheMap).
THEOREM ConsumersKnowTheMap == Spec => []TopicKnowsTheMap
  <1>1. TInv => TopicKnowsTheMap
    BY DEF TInv, Asked, Topic, Saved, Works, TopicKnowsTheMap
  <1> QED BY <1>1, TopicInvariant, PTL

\* The map a change tells as left is the one the topic had told
\* (CharacterLifecycle.MapChangesChain).
THEOREM ChangesChain == Spec => MapChangesChain
  <1> DEFINE Chain ==
        \A h \in Handlers :
          LET i == job[h].id IN
          pc[h] = "announce" /\ job[h].op = "map" /\ alone[h] /\ i \notin doubt
            /\ told[i] # None /\ told'[i] # told[i] =>
            Leaves(h) = told[i]
  <1>1. TInv => [Chain]_vars
    BY DEF TInv, Read, Working, Leaves
  <1>2. []TInv => [][Chain]_vars
    BY <1>1, PTL
  <1> QED BY <1>2, TopicInvariant DEF MapChangesChain
=============================================================================
