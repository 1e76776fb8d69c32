------------------------ MODULE EquipInventoryProofs ------------------------
(***************************************************************************)
(* The safety of the equip inventory, for every catalogue, every set of    *)
(* command slots and every bound: the inductive invariants, and what the   *)
(* events of a command tell a consumer.                                    *)
(***************************************************************************)
EXTENDS EquipEvents, TableProofs

\* The inductive invariant: the three facts only hold together, since an
\* exchange is one only with distinct slots and an empty parking slot.
IInv == TypeOK /\ SlotsUnique /\ NoneParked

\* The same of the next state, part by part.
LEMMA NextIsGood ==
  ASSUME IsTable(equipables'), Distinct(equipables'), ~Occupied(equipables', Temp),
         nextId' \in Nat \ {0}, DOMAIN equipables' \subseteq 1 .. nextId' - 1,
         last'.op \in {"none", "create", "equip", "unequip", "move", "drop"},
         last'.source \in Int
  PROVE  IInv'
  <1>1. TypeOK'
    BY DEF TypeOK, IsTable
  <1>2. SlotsUnique'
    BY DEF SlotsUnique, Distinct
  <1>3. NoneParked'
    BY DEF NoneParked, Occupied
  <1> QED BY <1>1, <1>2, <1>3 DEF IInv

\* What the invariant says of the rows.
LEMMA NowIsGood ==
  ASSUME IInv
  PROVE  /\ IsTable(equipables) /\ Distinct(equipables) /\ ~Occupied(equipables, Temp)
         /\ nextId \in Nat \ {0} /\ DOMAIN equipables \subseteq 1 .. nextId - 1
  <1>1. /\ DOMAIN equipables \subseteq 1 .. nextId - 1 /\ nextId \in Nat \ {0}
        /\ equipables \in [DOMAIN equipables -> [item : Items, slot : Int]]
    BY DEF IInv, TypeOK
  <1>2. IsFiniteSet(1 .. nextId - 1)
    BY <1>1, FS_Interval
  <1>3. IsFiniteSet(DOMAIN equipables) /\ DOMAIN equipables \subseteq Nat
    BY <1>1, <1>2, FS_Subset
  <1> QED BY <1>1, <1>3 DEF IInv, IsTable, Distinct, SlotsUnique, NoneParked

\* A command that is undone changes nothing.
LEMMA RollBackKeeps ==
  ASSUME IInv, NEW op \in {"equip", "unequip", "drop"},
         NEW source \in Int, NEW result, RollsBack(op, source, result)
  PROVE  IInv'
  <1>1. UNCHANGED <<equipables, nextId>>
    BY DEF RollsBack
  <1>2. last'.op = op /\ last'.source = source
    BY DEF RollsBack, Reports
  <1> QED BY <1>1, <1>2 DEF IInv, TypeOK, SlotsUnique, NoneParked, Occupied

\* The rows after the exchange of an equip command.
LEMMA EquipExchange ==
  ASSUME IInv, NEW source \in Int \ {Temp}, NEW item \in Items
  PROVE  LET t == equipables
             e == Swap(t, source, Destination(item))
         IN /\ Destination(item) \in Int \ {Temp}
            /\ e = Traded(t, source, Destination(item))
            /\ IsTable(e) /\ Distinct(e) /\ ~Occupied(e, Temp) /\ DOMAIN e = DOMAIN t
  <1>1. Destination(item) \in Int \ {Temp}
    BY CatalogAssumption DEF Destination
  <1> QED BY <1>1, NowIsGood, SwapRows, ExchangeDistinct

\* The inductive step.
LEMMA NextIInv == IInv /\ [Next]_vars => IInv'
  <1> SUFFICES ASSUME IInv, [Next]_vars PROVE IInv'
    OBVIOUS
  <1>0. /\ IsTable(equipables) /\ Distinct(equipables) /\ ~Occupied(equipables, Temp)
        /\ nextId \in Nat \ {0} /\ DOMAIN equipables \subseteq 1 .. nextId - 1
    BY NowIsGood
  <1>1. ASSUME NEW item \in Items, NEW quantity \in 0 .. MaxQuantity,
               CreateItem(item, quantity)
        PROVE  IInv'
    <2> DEFINE n == IF quantity = 0 THEN 1 ELSE quantity
    <2>0. n \in Nat \ {0}
      BY CommandAssumption
    <2>1. CASE InsertsEquipables(item, n) /\ nextId' = nextId + n
      <3> HIDE DEF n
      <3> DEFINE B == 1 .. Cardinality(DOMAIN equipables) + n
      <3>1. PICK slots \in [1 .. n -> B] :
              /\ \A k \in 1 .. n :
                   slots[k] \in FreeSlots(WithRows(equipables, nextId, item, slots, k - 1))
              /\ equipables' = WithRows(equipables, nextId, item, slots, n)
              /\ Reports("create", 0, "ok", [k \in 1 .. n |-> Added(item, slots[k])])
        BY <2>1 DEF InsertsEquipables
      <3>2. /\ IsTable(equipables') /\ Distinct(equipables') /\ ~Occupied(equipables', Temp)
            /\ DOMAIN equipables' \subseteq 1 .. nextId + n - 1
        <4> HIDE DEF B
        <4> QED BY <1>0, <2>0, <3>1, WithRowsDistinct
      <3>3. last'.op = "create" /\ last'.source = 0
        BY <3>1 DEF Reports
      <3> QED BY <1>0, <2>0, <2>1, <3>2, <3>3, NextIsGood
    <2>2. CASE /\ \E taken \in 0 .. n : nextId' = nextId + taken
               /\ UNCHANGED equipables
               /\ Reports("create", 0, "refused", <<>>) \/ UNCHANGED last
      <3> HIDE DEF n
      <3>1. /\ nextId' \in Nat \ {0} /\ equipables' = equipables
            /\ DOMAIN equipables \subseteq 1 .. nextId' - 1
        BY <1>0, <2>0, <2>2
      <3>2. /\ last'.op \in {"none", "create", "equip", "unequip", "move", "drop"}
            /\ last'.source \in Int
        BY <2>2 DEF Reports, IInv, TypeOK
      <3> QED BY <1>0, <3>1, <3>2, NextIsGood
    <2> QED BY <1>1, <2>1, <2>2 DEF CreateItem
  <1>2. ASSUME NEW source \in CommandSlots, EquipItemForCharacter(source)
        PROVE  IInv'
    <2>0. source \in Int \ {Temp}
      BY CommandAssumption
    <2>1. ASSUME NEW result, RollsBack("equip", source, result) PROVE IInv'
      BY <2>0, <2>1, RollBackKeeps
    <2>2. CASE Occupied(equipables, source) /\ Equips(source, ItemAt(equipables, source))
      <3> DEFINE item == ItemAt(equipables, source)
                 worn == Swap(equipables, source, Destination(item))
      <3>1. /\ IsTable(worn) /\ Distinct(worn) /\ ~Occupied(worn, Temp)
            /\ DOMAIN worn = DOMAIN equipables
        BY <1>0, <2>0, <2>2, FoundRow, EquipExchange
      <3>2. \/ RollsBack("equip", source, "no rival")
            \/ /\ UNCHANGED nextId /\ last'.op = "equip" /\ last'.source = source
               /\ \/ equipables' = worn
                  \/ \E rival \in {Top, Bottom}, free \in FreeSlots(worn) :
                       equipables' = MoveSlot(worn, rival, free)
        <4>1. Rival(item) # NoRival => Rival(item) \in {Top, Bottom}
          BY DEF Rival
        <4>2. PICK free \in FreeSlots(worn) :
                \/ RollsBack("equip", source, "no rival")
                \/ /\ UNCHANGED nextId /\ last'.op = "equip" /\ last'.source = source
                   /\ equipables' = worn
                \/ /\ UNCHANGED nextId /\ last'.op = "equip" /\ last'.source = source
                   /\ Rival(item) # NoRival
                   /\ equipables' = MoveSlot(worn, Rival(item), free)
          <5> DEFINE moves == ExchangeEvents(equipables, source, Destination(item))
          <5>1. PICK free \in FreeSlots(worn) :
                  \/ /\ Rival(item) # NoRival /\ ~Occupied(worn, Rival(item))
                     /\ RollsBack("equip", source, "no rival")
                  \/ /\ \/ Rival(item) = NoRival
                        \/ Occupied(worn, Rival(item)) /\ ~GivesWay(worn, Rival(item))
                     /\ equipables' = worn
                     /\ Reports("equip", source, "ok", moves)
                     /\ UNCHANGED nextId
                  \/ /\ Rival(item) # NoRival
                     /\ Occupied(worn, Rival(item)) /\ GivesWay(worn, Rival(item))
                     /\ equipables' = MoveSlot(worn, Rival(item), free)
                     /\ Reports("equip", source, "ok",
                                Append(moves, MovedTo(ItemAt(worn, Rival(item)),
                                                      Rival(item), free)))
                     /\ UNCHANGED nextId
            <6> HIDE DEF item
            <6>1. Equips(source, item)
              BY <2>2 DEF item
            <6> QED BY <6>1, Zenon DEF Equips
          <5>2. \A events : Reports("equip", source, "ok", events)
                             => last'.op = "equip" /\ last'.source = source
            BY DEF Reports
          <5> HIDE DEF item, worn, moves
          <5> QED BY <5>1, <5>2, Zenon
        <4> HIDE DEF item, worn
        <4> QED BY <4>1, <4>2
      <3>3. CASE UNCHANGED nextId /\ last'.op = "equip" /\ last'.source = source
                 /\ equipables' = worn
        BY <1>0, <2>0, <3>1, <3>3, NextIsGood
      <3>4. ASSUME NEW rival \in {Top, Bottom}, NEW free \in FreeSlots(worn),
                   UNCHANGED nextId, last'.op = "equip", last'.source = source,
                   equipables' = MoveSlot(worn, rival, free)
            PROVE  IInv'
        <4>1. rival \in Int
          BY DEF Top, Bottom
        <4>2. /\ IsTable(equipables') /\ Distinct(equipables')
              /\ ~Occupied(equipables', Temp) /\ DOMAIN equipables' = DOMAIN equipables
          <5> HIDE DEF worn
          <5> QED BY <3>1, <3>4, <4>1, MoveToFree
        <4> QED BY <1>0, <2>0, <3>4, <4>2, NextIsGood
      <3> QED BY <2>1, <3>2, <3>3, <3>4
    <2> QED BY <1>2, <2>1, <2>2 DEF EquipItemForCharacter
  <1>3. ASSUME NEW source \in CommandSlots, UnequipItemForCharacter(source)
        PROVE  IInv'
    <2>0. source \in Int \ {Temp}
      BY CommandAssumption
    <2>1. CASE RollsBack("unequip", source, "absent")
      BY <2>0, <2>1, RollBackKeeps
    <2>2. ASSUME NEW free \in FreeSlots(equipables), UNCHANGED nextId,
                 last'.op = "unequip", last'.source = source,
                 equipables' = MoveSlot(equipables, source, free)
          PROVE  IInv'
      <3>1. /\ IsTable(equipables') /\ Distinct(equipables')
            /\ ~Occupied(equipables', Temp) /\ DOMAIN equipables' = DOMAIN equipables
        BY <1>0, <2>0, <2>2, MoveToFree
      <3> QED BY <1>0, <2>0, <2>2, <3>1, NextIsGood
    <2> QED BY <1>3, <2>1, <2>2 DEF UnequipItemForCharacter, Reports
  <1>4. ASSUME NEW source \in MoveSlots, NEW destination \in MoveSlots,
               moveEquip(source, destination)
        PROVE  IInv'
    <2>0. source \in Int \ {Temp} /\ destination \in Int \ {Temp}
      BY CommandAssumption
    <2>1. /\ IsTable(equipables') /\ Distinct(equipables')
          /\ ~Occupied(equipables', Temp) /\ DOMAIN equipables' = DOMAIN equipables
      BY <1>0, <1>4, <2>0, SwapRows, ExchangeDistinct DEF moveEquip
    <2>2. last'.op = "move" /\ last'.source = source /\ nextId' = nextId
      BY <1>4 DEF moveEquip, Reports
    <2> QED BY <1>0, <2>0, <2>1, <2>2, NextIsGood
  <1>5. ASSUME NEW source \in CommandSlots, dropEquip(source)
        PROVE  IInv'
    <2>0. source \in Int \ {Temp}
      BY CommandAssumption
    <2>1. CASE RollsBack("drop", source, "absent")
      BY <2>0, <2>1, RollBackKeeps
    <2>2. CASE /\ Occupied(equipables, source) /\ UNCHANGED nextId
               /\ last'.op = "drop" /\ last'.source = source
               /\ equipables' = Without(equipables, RowAt(equipables, source))
      <3>1. /\ IsTable(equipables') /\ Distinct(equipables')
            /\ ~Occupied(equipables', Temp) /\ DOMAIN equipables' \subseteq DOMAIN equipables
        BY <1>0, <2>2, WithoutDistinct
      <3> QED BY <1>0, <2>0, <2>2, <3>1, NextIsGood
    <2> QED BY <1>5, <2>1, <2>2 DEF dropEquip, Reports
  <1>6. CASE UNCHANGED vars
    BY <1>6 DEF vars, outcome, IInv, TypeOK, SlotsUnique, NoneParked, Occupied
  <1> QED BY <1>1, <1>2, <1>3, <1>4, <1>5, <1>6 DEF Next

\* An inventory starts without rows.
LEMMA InitIInv == Init => IInv
  <1> SUFFICES ASSUME Init PROVE IInv
    OBVIOUS
  <1>1. DOMAIN equipables = {} /\ nextId = 1 /\ last.op = "none" /\ last.source = 0
    BY DEF Init
  <1>2. equipables \in [DOMAIN equipables -> [item : Items, slot : Int]]
    BY DEF Init
  <1> QED BY <1>1, <1>2 DEF IInv, TypeOK, SlotsUnique, NoneParked, Occupied

\* The invariant holds in every state of every behaviour.
THEOREM InductiveInvariant == Spec => []IInv
  BY InitIInv, NextIInv, PTL DEF Spec

\* Type correctness (EquipInventory!TypeOK).
THEOREM TypeCorrect == Spec => []TypeOK
  BY InductiveInvariant, PTL DEF IInv

\* No two rows of an inventory ever share a slot (processor.go relies on it in
\* every BySlot query, and MinFreeSlot to return at all).
THEOREM SlotsStayUnique == Spec => []SlotsUnique
  BY InductiveInvariant, PTL DEF IInv

\* No command leaves a row in the parking slot.
THEOREM NothingStaysParked == Spec => []NoneParked
  BY InductiveInvariant, PTL DEF IInv

-----------------------------------------------------------------------------
\* Where the row r is after the exchange of an equip of the row x, and whether
\* it is the rival of x there, to be unequipped.
There(t, x, r) == IF r = x THEN Destination(t[x].item)
                  ELSE IF t[r].slot = Destination(t[x].item) THEN t[x].slot
                  ELSE t[r].slot

Yields(t, x, r) == LET rival == Rival(t[x].item) IN
                   /\ rival # NoRival /\ There(t, x, r) = rival
                   /\ rival = Bottom \/ t[r].item \in Overalls

\* The rows u are those of t after a completed equip of the row x.
PutOn(t, u, x) ==
  /\ DOMAIN u = DOMAIN t
  /\ \A r \in DOMAIN t : /\ u[r].item = t[r].item
                         /\ IF Yields(t, x, r) THEN u[r].slot \in Nat \ {0}
                            ELSE u[r].slot = There(t, x, r)

\* The rows u are rows of t that have not moved, and rows of the bag.
Bagged(t, u) ==
  \A r \in DOMAIN u : \/ u[r].slot \in Nat \ {0}
                      \/ r \in DOMAIN t /\ u[r].slot = t[r].slot /\ u[r].item = t[r].item

\* No item is its own rival.
LEMMA RivalIs ==
  ASSUME NEW item \in Items
  PROVE  /\ Rival(item) \in {NoRival, Top, Bottom} /\ Destination(item) \in Int
         /\ Rival(item) # NoRival => Rival(item) # Destination(item)
         /\ Rival(item) = Bottom <=> item \in Overalls
         /\ item \notin Overalls /\ Destination(item) = Bottom => Rival(item) = Top
  <1>1. Destination(item) \in Int
    BY CatalogAssumption DEF Destination
  <1>2. item \in Overalls => Destination(item) # Bottom
    BY CatalogAssumption
  <1> QED BY <1>1, <1>2 DEF Rival, NoRival, Top, Bottom

\* The exchange of an equip, row by row.
LEMMA ExchangedRows ==
  ASSUME NEW t, IsTable(t), Distinct(t), NEW x \in DOMAIN t
  PROVE  LET worn == Traded(t, t[x].slot, Destination(t[x].item)) IN
           /\ DOMAIN worn = DOMAIN t
           /\ \A r \in DOMAIN t : worn[r].item = t[r].item /\ worn[r].slot = There(t, x, r)
  <1>1. \A r \in DOMAIN t : t[r].slot = t[x].slot <=> r = x
    BY DEF Distinct
  <1> QED BY <1>1 DEF Traded, There

\* A completed equip, from the rows after the exchange.
LEMMA WornIsPutOn ==
  ASSUME NEW t, IsTable(t), Distinct(t), NEW x \in DOMAIN t,
         NEW worn, worn = Traded(t, t[x].slot, Destination(t[x].item)),
         IsTable(worn), Distinct(worn), ~Occupied(worn, Temp),
         NEW rival, rival = Rival(t[x].item), NEW u,
         \/ /\ rival = NoRival \/ (Occupied(worn, rival) /\ ~GivesWay(worn, rival))
            /\ u = worn
         \/ /\ rival # NoRival /\ Occupied(worn, rival) /\ GivesWay(worn, rival)
            /\ \E free \in FreeSlots(worn) : u = MoveSlot(worn, rival, free)
  PROVE  PutOn(t, u, x)
  <1>1. /\ DOMAIN worn = DOMAIN t
        /\ \A r \in DOMAIN t : worn[r].item = t[r].item /\ worn[r].slot = There(t, x, r)
    BY ExchangedRows
  <1>2. ASSUME Occupied(worn, rival), NEW r \in DOMAIN t, There(t, x, r) = rival
        PROVE  ItemAt(worn, rival) = t[r].item
    BY <1>1, <1>2, FoundRow
  <1>3. CASE rival = NoRival /\ u = worn
    BY <1>1, <1>3 DEF PutOn, Yields
  <1>4. CASE Occupied(worn, rival) /\ ~GivesWay(worn, rival) /\ u = worn
    <2>1. \A r \in DOMAIN t : ~Yields(t, x, r)
      BY <1>2, <1>4 DEF Yields, GivesWay
    <2> QED BY <1>1, <1>4, <2>1 DEF PutOn
  <1>5. ASSUME rival # NoRival, Occupied(worn, rival), GivesWay(worn, rival),
               NEW free \in FreeSlots(worn), u = MoveSlot(worn, rival, free)
        PROVE  PutOn(t, u, x)
    <2>1. rival \in Int
      BY DEF Rival, NoRival, Top, Bottom
    <2>2. u = Reslotted(worn, rival, free) /\ free \in Nat \ {0}
      BY <1>5, <2>1, MoveToFree, FreeSlotIsFree
    <2>3. \A r \in DOMAIN t : Yields(t, x, r) <=> There(t, x, r) = rival
      BY <1>2, <1>5 DEF Yields, GivesWay
    <2> QED BY <1>1, <2>2, <2>3 DEF PutOn, Reslotted
  <1> QED BY <1>3, <1>4, <1>5

\* What a command other than a move makes of the rows.
LEMMA StepRows ==
  ASSUME IInv, Next, ~UNCHANGED outcome
  PROVE  \/ last'.op = "move"
         \/ last'.op = "equip" /\ last'.result # "ok" /\ UNCHANGED equipables
         \/ /\ last'.op = "equip"
            /\ \E x \in DOMAIN equipables : /\ equipables[x].slot = last'.source
                                            /\ PutOn(equipables, equipables', x)
         \/ last'.op # "equip" /\ Bagged(equipables, equipables')
  <1> DEFINE Goal == \/ last'.op = "move"
                     \/ last'.op = "equip" /\ last'.result # "ok" /\ UNCHANGED equipables
                     \/ /\ last'.op = "equip"
                        /\ \E x \in DOMAIN equipables : /\ equipables[x].slot = last'.source
                                                        /\ PutOn(equipables, equipables', x)
                     \/ last'.op # "equip" /\ Bagged(equipables, equipables')
  <1>0. /\ IsTable(equipables) /\ Distinct(equipables) /\ ~Occupied(equipables, Temp)
        /\ nextId \in Nat \ {0} /\ DOMAIN equipables \subseteq 1 .. nextId - 1
    BY NowIsGood
  <1>r. ASSUME NEW op \in {"equip", "unequip", "drop"}, NEW source,
               NEW result \in {"absent", "unknown destination", "no rival"},
               RollsBack(op, source, result)
        PROVE  Goal
    <2>1. UNCHANGED equipables /\ last'.op = op /\ last'.result = result
      BY <1>r DEF RollsBack, Reports
    <2> QED BY <2>1 DEF Bagged
  <1>1. ASSUME NEW item \in Items, NEW quantity \in 0 .. MaxQuantity,
               CreateItem(item, quantity)
        PROVE  Goal
    <2> DEFINE n == IF quantity = 0 THEN 1 ELSE quantity
    <2>0. n \in Nat \ {0}
      BY CommandAssumption
    <2>1. CASE InsertsEquipables(item, n)
      <3>0. last'.op = "create"
        BY <2>1 DEF InsertsEquipables, Reports
      <3> HIDE DEF n
      <3> DEFINE B == 1 .. Cardinality(DOMAIN equipables) + n
                 w(slots) == WithRows(equipables, nextId, item, slots, n)
      <3>1. PICK slots \in [1 .. n -> B] :
              /\ \A k \in 1 .. n :
                   slots[k] \in FreeSlots(WithRows(equipables, nextId, item, slots, k - 1))
              /\ equipables' = w(slots)
        BY <2>1 DEF InsertsEquipables
      <3> HIDE DEF B
      <3>2. /\ \A r \in DOMAIN equipables : r \in DOMAIN w(slots) /\ w(slots)[r] = equipables[r]
            /\ \A r \in DOMAIN w(slots) \ DOMAIN equipables : w(slots)[r].slot \in Nat \ {0}
        <4>1. /\ IsTable(w(slots)) /\ Distinct(w(slots)) /\ ~Occupied(w(slots), Temp)
              /\ DOMAIN w(slots) \subseteq 1 .. nextId + n - 1
              /\ \A r \in DOMAIN equipables : r \in DOMAIN w(slots) /\ w(slots)[r] = equipables[r]
              /\ \A r \in DOMAIN w(slots) \ DOMAIN equipables : w(slots)[r].slot \in Nat \ {0}
          BY <1>0, <2>0, <3>1, WithRowsDistinct
        <4> QED BY <4>1
      <3> HIDE DEF w
      <3>3. Bagged(equipables, equipables')
        BY <3>1, <3>2 DEF Bagged
      <3> QED BY <3>0, <3>3
    <2>2. CASE UNCHANGED equipables /\ Reports("create", 0, "refused", <<>>)
      BY <2>2 DEF Bagged, Reports
    <2> QED BY <1>1, <2>1, <2>2 DEF CreateItem, outcome
  <1>2. ASSUME NEW source \in CommandSlots, EquipItemForCharacter(source)
        PROVE  Goal
    <2>0. source \in Int \ {Temp}
      BY CommandAssumption
    <2>2. CASE Occupied(equipables, source) /\ Equips(source, ItemAt(equipables, source))
      <3> DEFINE item == ItemAt(equipables, source)
                 worn == Swap(equipables, source, Destination(item))
                 rival == Rival(item)
      <3>1. PICK x \in DOMAIN equipables : /\ equipables[x].slot = source
                                           /\ item = equipables[x].item /\ item \in Items
        BY <1>0, <2>2, FoundRow
      <3>2. /\ IsTable(worn) /\ Distinct(worn) /\ ~Occupied(worn, Temp)
            /\ worn = Traded(equipables, source, Destination(item))
        BY <2>0, <3>1, EquipExchange
      <3>3. \/ RollsBack("equip", source, "no rival")
            \/ /\ last'.op = "equip" /\ last'.source = source
               /\ \/ /\ rival = NoRival \/ (Occupied(worn, rival) /\ ~GivesWay(worn, rival))
                     /\ equipables' = worn
                  \/ /\ rival # NoRival /\ Occupied(worn, rival) /\ GivesWay(worn, rival)
                     /\ \E free \in FreeSlots(worn) : equipables' = MoveSlot(worn, rival, free)
        <4>1. Equips(source, item)
          BY <2>2
        <4>2. \A events : Reports("equip", source, "ok", events)
                            => last'.op = "equip" /\ last'.source = source
          BY DEF Reports
        <4> HIDE DEF item
        <4> QED BY <4>1, <4>2, Zenon DEF Equips
      <3>4. CASE /\ last'.op = "equip" /\ last'.source = source
                 /\ \/ /\ rival = NoRival \/ (Occupied(worn, rival) /\ ~GivesWay(worn, rival))
                       /\ equipables' = worn
                    \/ /\ rival # NoRival /\ Occupied(worn, rival) /\ GivesWay(worn, rival)
                       /\ \E free \in FreeSlots(worn) : equipables' = MoveSlot(worn, rival, free)
        <4>1. PICK w, v : w = worn /\ v = rival
          OBVIOUS
        <4>2. w = Traded(equipables, equipables[x].slot, Destination(equipables[x].item))
              /\ v = Rival(equipables[x].item)
          BY <3>1, <3>2, <4>1
        <4> HIDE DEF item, worn, rival
        <4>3. PutOn(equipables, equipables', x)
          BY <1>0, <3>1, <3>2, <3>4, <4>1, <4>2, WornIsPutOn
        <4> QED BY <3>1, <3>4, <4>3
      <3> HIDE DEF item, worn, rival
      <3> QED BY <1>r, <3>3, <3>4
    <2> QED BY <1>2, <1>r, <2>2 DEF EquipItemForCharacter
  <1>3. ASSUME NEW source \in CommandSlots, UnequipItemForCharacter(source)
        PROVE  Goal
    <2>0. source \in Int
      BY CommandAssumption
    <2>1. ASSUME NEW free \in FreeSlots(equipables), last'.op = "unequip",
                 equipables' = MoveSlot(equipables, source, free)
          PROVE  Goal
      <3>1. equipables' = Reslotted(equipables, source, free) /\ free \in Nat \ {0}
        BY <1>0, <2>0, <2>1, MoveToFree, FreeSlotIsFree
      <3> QED BY <2>1, <3>1 DEF Bagged, Reslotted
    <2>2. CASE RollsBack("unequip", source, "absent")
      BY <1>r, <2>2
    <2> HIDE DEF Goal
    <2> QED BY <1>3, <2>1, <2>2 DEF UnequipItemForCharacter, Reports
  <1>4. ASSUME NEW source \in MoveSlots, NEW destination \in MoveSlots,
               moveEquip(source, destination)
        PROVE  Goal
    BY <1>4 DEF moveEquip, Reports
  <1>5. ASSUME NEW source \in CommandSlots, dropEquip(source)
        PROVE  Goal
    <2>1. CASE /\ last'.op = "drop"
               /\ equipables' = Without(equipables, RowAt(equipables, source))
      <3>1. \A r \in DOMAIN equipables' :
              r \in DOMAIN equipables /\ equipables'[r] = equipables[r]
        BY <1>0, <2>1, WithoutDistinct
      <3> QED BY <2>1, <3>1 DEF Bagged
    <2>2. CASE RollsBack("drop", source, "absent")
      BY <1>r, <2>2
    <2> HIDE DEF Goal
    <2> QED BY <1>5, <2>1, <2>2 DEF dropEquip, Reports
  <1> QED BY <1>1, <1>2, <1>3, <1>4, <1>5 DEF Next

\* A row that an equip of x puts astray is x, unlisted, or takes the place of x,
\* astray itself.
LEMMA PutOnStrays ==
  ASSUME NEW t, IsTable(t), Distinct(t), NEW x \in DOMAIN t, NEW u, PutOn(t, u, x),
         NEW r \in Astray(u), r \notin Astray(t)
  PROVE  \/ r = x /\ t[x].item \in Unlisted /\ u[x].slot = 0
         \/ u[r].slot = t[x].slot /\ x \in Astray(t)
  <1>1. /\ r \in DOMAIN t /\ u[r].item = t[r].item /\ u[r].slot <= 0
        /\ t[r].item \in Unlisted \/ u[r].slot # Destination(t[r].item)
        /\ u[r].slot = There(t, x, r)
    BY DEF PutOn, Astray
  <1>2. CASE r = x
    BY <1>1, <1>2 DEF There, Destination
  <1>3. CASE r # x
    <2>1. t[r].slot = Destination(t[x].item) /\ u[r].slot = t[x].slot
      BY <1>1, <1>3 DEF There, Astray
    <2>2. t[x].slot # Destination(t[x].item)
      BY <1>1, <1>3, <2>1 DEF Distinct
    <2> QED BY <1>1, <2>1, <2>2 DEF Astray
  <1> QED BY <1>2, <1>3

\* An equip after which an overall meets a bottom was of neither, and they met
\* before, or it was of a row astray in one of their slots.
LEMMA PutOnMeets ==
  ASSUME NEW t, IsTable(t), Distinct(t), NEW x \in DOMAIN t, NEW u, PutOn(t, u, x),
         OverallMeetsBottom(u)
  PROVE  /\ Rival(t[x].item) = NoRival
         /\ OverallMeetsBottom(t) \/ (t[x].slot \in {Top, Bottom} /\ x \in Astray(t))
  <1>1. PICK r \in DOMAIN t, q \in DOMAIN t :
          /\ u[r].slot = Top /\ t[r].item \in Overalls
          /\ u[q].slot = Bottom /\ Destination(t[q].item) = Bottom
    BY DEF PutOn, OverallMeetsBottom
  <1>2. Top \in Int /\ Bottom \in Int /\ Top <= 0 /\ Bottom <= 0 /\ Top # Bottom
    BY DEF Top, Bottom
  <1>3. /\ There(t, x, r) = Top /\ ~Yields(t, x, r)
        /\ There(t, x, q) = Bottom /\ ~Yields(t, x, q)
    BY <1>1, <1>2 DEF PutOn
  <1>4. t[x].item \in Items /\ t[q].item \in Items
    BY DEF IsTable
  <1>5. Rival(t[x].item) = NoRival
    BY <1>1, <1>3, <1>4, RivalIs DEF Yields
  <1>6. t[x].item \notin Overalls /\ Destination(t[x].item) # Bottom
    BY <1>4, <1>5, RivalIs DEF NoRival, Top, Bottom
  <1>7. r # x /\ q # x
    BY <1>1, <1>6
  <1>8. CASE t[r].slot = Top /\ t[q].slot = Bottom
    BY <1>1, <1>5, <1>8 DEF OverallMeetsBottom
  <1>9. CASE t[r].slot # Top
    <2>1. t[x].slot = Top /\ t[r].slot = Destination(t[x].item)
      BY <1>3, <1>7, <1>9 DEF There
    <2> QED BY <1>2, <1>5, <1>9, <2>1 DEF Astray
  <1>10. CASE t[q].slot # Bottom
    <2>1. t[x].slot = Bottom /\ t[q].slot = Destination(t[x].item)
      BY <1>3, <1>7, <1>10 DEF There
    <2> QED BY <1>2, <1>5, <1>10, <2>1 DEF Astray
  <1> QED BY <1>8, <1>9, <1>10

\* What a completed equip does to each row that was there.
LEMMA PutOnMoves ==
  ASSUME NEW t, IsTable(t), Distinct(t), NEW x \in DOMAIN t, NEW u, PutOn(t, u, x),
         NEW r \in DOMAIN t
  PROVE  LET item == t[x].item
             was == t[r].slot
             is == u[r].slot
         IN \/ was = t[x].slot /\ is = Destination(item)
            \/ was # t[x].slot /\ is = was
            \/ was = Destination(item) /\ is = t[x].slot
            \/ /\ is > 0
               /\ \/ was = Rival(item)
                  \/ was = Destination(item) /\ t[x].slot = Rival(item)
               /\ item \in Overalls \/ t[r].item \in Overalls
  <1>1. t[x].item \in Items
    BY DEF IsTable
  <1>2. CASE Yields(t, x, r)
    <2>1. u[r].slot > 0 /\ There(t, x, r) = Rival(t[x].item) /\ Rival(t[x].item) # NoRival
      BY <1>2 DEF PutOn, Yields
    <2>2. r # x
      BY <1>1, <2>1, RivalIs DEF There
    <2>3. t[x].item \in Overalls \/ t[r].item \in Overalls
      BY <1>1, <1>2, RivalIs DEF Yields
    <2> QED BY <2>1, <2>2, <2>3 DEF There
  <1>3. CASE ~Yields(t, x, r)
    <2>1. u[r].slot = There(t, x, r)
      BY <1>3 DEF PutOn
    <2>2. r # x => t[r].slot # t[x].slot
      BY DEF Distinct
    <2> QED BY <2>1, <2>2 DEF There
  <1> QED BY <1>2, <1>3

\* What stays out of the bag stays where it is.
LEMMA BaggedKeeps ==
  ASSUME NEW t, NEW u, Bagged(t, u)
  PROVE  Astray(u) \subseteq Astray(t) /\ (OverallMeetsBottom(u) => OverallMeetsBottom(t))
  <1>1. ASSUME NEW r \in DOMAIN u, u[r].slot <= 0
        PROVE  r \in DOMAIN t /\ u[r].slot = t[r].slot /\ u[r].item = t[r].item
    BY <1>1 DEF Bagged
  <1>2. Astray(u) \subseteq Astray(t)
    BY <1>1 DEF Astray
  <1>3. OverallMeetsBottom(u) => OverallMeetsBottom(t)
    BY <1>1 DEF OverallMeetsBottom, Top, Bottom
  <1> QED BY <1>2, <1>3

\* A row leaves the bag for a slot that is not its item's only by a move command, by
\* the equip of an unlisted item, or to take the place of a row that was astray there
\* (EquipInventory!StraysOnlyByMove).
THEOREM RowsStrayOnlyByMove == Spec => StraysOnlyByMove
  <1> DEFINE A == \A r \in Astray(equipables') \ Astray(equipables) :
                    \/ last'.op = "move"
                    \/ /\ last'.op = "equip" /\ equipables[r].slot = last'.source
                       /\ equipables[r].item \in Unlisted /\ equipables'[r].slot = 0
                    \/ /\ last'.op = "equip" /\ equipables'[r].slot = last'.source
                       /\ \E q \in Astray(equipables) : equipables[q].slot = last'.source
  <1>1. IInv /\ [Next]_vars => [A]_outcome
    <2> SUFFICES ASSUME IInv, Next, ~UNCHANGED outcome,
                        NEW r \in Astray(equipables') \ Astray(equipables)
                 PROVE  \/ last'.op = "move"
                        \/ /\ last'.op = "equip" /\ equipables[r].slot = last'.source
                           /\ equipables[r].item \in Unlisted /\ equipables'[r].slot = 0
                        \/ /\ last'.op = "equip" /\ equipables'[r].slot = last'.source
                           /\ \E q \in Astray(equipables) : equipables[q].slot = last'.source
      BY DEF vars
    <2>1. IsTable(equipables) /\ Distinct(equipables)
      BY NowIsGood
    <2>2. CASE last'.op = "equip" /\ \E x \in DOMAIN equipables :
                 equipables[x].slot = last'.source /\ PutOn(equipables, equipables', x)
      BY <2>1, <2>2, PutOnStrays
    <2>3. ~Bagged(equipables, equipables') /\ ~UNCHANGED equipables
      BY BaggedKeeps
    <2> QED BY <2>2, <2>3, StepRows
  <1> HIDE DEF A
  <1>2. [][A]_outcome => StraysOnlyByMove
    BY DEF StraysOnlyByMove, A
  <1> QED BY <1>1, <1>2, InductiveInvariant, PTL DEF Spec

\* An overall and a bottom come to be worn together only by a move command, or by
\* the equip of a row that was astray in one of their slots; and a completed equip
\* of an overall or of a bottom parts them (EquipInventory!MeetsOnlyByMove).
THEOREM OverallMeetsBottomOnlyByMove == Spec => MeetsOnlyByMove
  <1> DEFINE B == OverallMeetsBottom(equipables') =>
       \/ last'.op = "move"
       \/ /\ last'.op = "equip" /\ last'.source \in {Top, Bottom}
          /\ \E r \in Astray(equipables) : /\ equipables[r].slot = last'.source
                                           /\ Rival(equipables[r].item) = NoRival
       \/ /\ OverallMeetsBottom(equipables)
          /\ last'.op = "equip" /\ last'.result = "ok" =>
               \E r \in DOMAIN equipables : /\ equipables[r].slot = last'.source
                                            /\ Rival(equipables[r].item) = NoRival
  <1>1. IInv /\ [Next]_vars => [B]_outcome
    <2> SUFFICES ASSUME IInv, Next, ~UNCHANGED outcome, OverallMeetsBottom(equipables')
                 PROVE  B
      BY DEF vars
    <2>1. IsTable(equipables) /\ Distinct(equipables)
      BY NowIsGood
    <2>2. CASE last'.op = "equip" /\ \E x \in DOMAIN equipables :
                 equipables[x].slot = last'.source /\ PutOn(equipables, equipables', x)
      BY <2>1, <2>2, PutOnMeets
    <2>3. CASE last'.op = "equip" /\ last'.result # "ok" /\ UNCHANGED equipables
      BY <2>3
    <2>4. CASE last'.op # "equip" /\ Bagged(equipables, equipables')
      BY <2>4, BaggedKeeps
    <2> QED BY <2>2, <2>3, <2>4, StepRows
  <1> HIDE DEF B
  <1>2. [][B]_outcome => MeetsOnlyByMove
    BY DEF MeetsOnlyByMove, B
  <1> QED BY <1>1, <1>2, InductiveInvariant, PTL DEF Spec

\* A completed equip ends with the named item in its own slot, and moves another
\* row only to give up that slot or as the rival, wherever it was before
\* (EquipInventory!EquipPutsOn).
THEOREM EquipsPutOn == Spec => EquipPutsOn
  <1> DEFINE C == last'.op = "equip" /\ last'.result = "ok" =>
       LET item == ItemAt(equipables, last'.source) IN
       \A r \in DOMAIN equipables :
         LET was == equipables[r].slot
             is == equipables'[r].slot
         IN \/ was = last'.source /\ is = Destination(item)
            \/ was # last'.source /\ is = was
            \/ was = Destination(item) /\ is = last'.source
            \/ /\ is > 0
               /\ \/ was = Rival(item)
                  \/ was = Destination(item) /\ last'.source = Rival(item)
               /\ item \in Overalls \/ equipables[r].item \in Overalls
  <1>1. IInv /\ [Next]_vars => [C]_outcome
    <2> SUFFICES ASSUME IInv, Next, ~UNCHANGED outcome, last'.op = "equip", last'.result = "ok"
                 PROVE  C
      BY DEF vars
    <2>1. IsTable(equipables) /\ Distinct(equipables)
      BY NowIsGood
    <2>2. PICK x \in DOMAIN equipables :
            equipables[x].slot = last'.source /\ PutOn(equipables, equipables', x)
      BY StepRows
    <2>3. ItemAt(equipables, last'.source) = equipables[x].item
      BY <2>1, <2>2, RowAtOnly DEF ItemAt
    <2> QED BY <2>1, <2>2, <2>3, PutOnMoves
  <1> HIDE DEF C
  <1>2. [][C]_outcome => EquipPutsOn
    BY DEF EquipPutsOn, C
  <1> QED BY <1>1, <1>2, InductiveInvariant, PTL DEF Spec

-----------------------------------------------------------------------------
\* What a consumer sees of a row of this inventory is its item.
LEMMA WornIsItem ==
  /\ \A t : Picture(t, Worn) = Pic(t)
  /\ \A p, es : Replay(p, es, Worn) = Replay(p, es, ItemOf)
  <1>1. ASSUME NEW t PROVE Picture(t, Worn) = Pic(t)
    BY DEF Picture, Pic, Worn, ItemOf
  <1>2. ASSUME NEW p, NEW es PROVE Replay(p, es, Worn) = Replay(p, es, ItemOf)
    BY DEF Replay, Apply, Worn, ItemOf
  <1> QED BY <1>1, <1>2

\* The exchange of a move or an equip command, and the move to a free slot
\* that may follow it.
LEMMA ExchangeTold ==
  ASSUME NEW t, IsTable(t), Distinct(t), ~Occupied(t, Temp),
         NEW s \in Int \ {Temp}, NEW d \in Int \ {Temp}, Occupied(t, s)
  PROVE  /\ Accounts(t, ExchangeEvents(t, s, d), Swap(t, s, d))
         /\ \A rival \in Int, free \in FreeSlots(Swap(t, s, d)) : \A item :
              Accounts(t, Append(ExchangeEvents(t, s, d), MovedTo(item, rival, free)),
                   MoveSlot(Swap(t, s, d), rival, free))
  <1> DEFINE e == MovedTo(ItemAt(t, s), s, d)
  <1>1. PICK es : es = ExchangeEvents(t, s, d)
    OBVIOUS
  <1>2. Moved(e, s, d)
    BY DEF Moved, MovedTo
  <1>3. es = IF Occupied(MoveSlot(t, d, Temp), s) THEN <<e>> ELSE <<>>
    BY <1>1 DEF ExchangeEvents
  <1> HIDE DEF e
  <1>4. /\ Replay(Pic(t), es, ItemOf) = Pic(Swap(t, s, d))
        /\ \A f : Replay(Pic(t), Append(es, f), ItemOf) = Apply(Pic(Swap(t, s, d)), f, ItemOf)
    BY <1>2, <1>3, TellsExchange
  <1>5. PICK w : w = Swap(t, s, d)
    OBVIOUS
  <1>6. IsTable(w) /\ Distinct(w) /\ ~Occupied(w, Temp)
    BY <1>5, SwapRows, ExchangeDistinct
  <1>7. ASSUME NEW rival \in Int, NEW item, NEW free \in FreeSlots(w)
        PROVE  Pic(MoveSlot(w, rival, free)) =
                 Replay(Pic(t), Append(es, MovedTo(item, rival, free)), ItemOf)
    <2>1. PICK f : f = MovedTo(item, rival, free)
      OBVIOUS
    <2>2. Moved(f, rival, free)
      BY <2>1 DEF Moved, MovedTo
    <2>3. Apply(Pic(w), f, ItemOf) = Exchanged(Pic(w), rival, free)
      BY <2>2, ApplyMoved
    <2>4. Pic(MoveSlot(w, rival, free)) = Exchanged(Pic(w), rival, free)
      BY <1>6, PicMoved
    <2> QED BY <1>4, <1>5, <2>1, <2>3, <2>4
  <1> QED BY <1>1, <1>4, <1>5, <1>7 DEF Accounts

\* Each command tells what it has changed, a move from an empty slot excepted.
LEMMA NextTells ==
  ASSUME IInv, Next, ~UNCHANGED outcome
  PROVE  \/ Accounts(equipables, last'.events, equipables')
         \/ last'.op = "move" /\ last'.events = <<>> /\ ~Occupied(equipables, last'.source)
  <1>0. /\ IsTable(equipables) /\ Distinct(equipables) /\ ~Occupied(equipables, Temp)
        /\ nextId \in Nat \ {0} /\ DOMAIN equipables \subseteq 1 .. nextId - 1
    BY NowIsGood
  <1>u. ASSUME UNCHANGED equipables, last'.events = <<>>
        PROVE  Accounts(equipables, last'.events, equipables')
    BY <1>u, ReplayNone DEF Accounts
  <1>r. ASSUME NEW op, NEW source, NEW result, RollsBack(op, source, result)
        PROVE  Accounts(equipables, last'.events, equipables')
    BY <1>r, <1>u DEF RollsBack, Reports
  <1>1. ASSUME NEW item \in Items, NEW quantity \in 0 .. MaxQuantity,
               CreateItem(item, quantity)
        PROVE  Accounts(equipables, last'.events, equipables')
    <2> DEFINE n == IF quantity = 0 THEN 1 ELSE quantity
    <2>0. n \in Nat \ {0}
      BY CommandAssumption
    <2>1. CASE InsertsEquipables(item, n)
      <3> HIDE DEF n
      <3> DEFINE B == 1 .. Cardinality(DOMAIN equipables) + n
      <3>1. PICK slots \in [1 .. n -> B] :
              /\ \A k \in 1 .. n :
                   slots[k] \in FreeSlots(WithRows(equipables, nextId, item, slots, k - 1))
              /\ equipables' = WithRows(equipables, nextId, item, slots, n)
              /\ Reports("create", 0, "ok", [k \in 1 .. n |-> Added(item, slots[k])])
        BY <2>1 DEF InsertsEquipables
      <3>2. PICK es : es = [k \in 1 .. n |-> Added(item, slots[k])]
        OBVIOUS
      <3>3. /\ Len(es) = n
            /\ \A k \in 1 .. n : es[k].type = "ADD" /\ es[k].item = item /\ es[k].slot = slots[k]
        BY <2>0, <3>2 DEF Added
      <3>4. last'.events = es
        BY <3>1, <3>2 DEF Reports
      <3> HIDE DEF B
      <3>5. /\ n \in Nat
            /\ \A k \in 1 .. n :
                 slots[k] \in FreeSlots(WithRows(equipables, nextId, item, slots, k - 1))
        BY <2>0, <3>1
      <3>6. Accounts(equipables, es, WithRows(equipables, nextId, item, slots, n))
        BY <1>0, <3>3, <3>5, TellsRows
      <3> QED BY <3>1, <3>4, <3>6
    <2>2. CASE UNCHANGED equipables /\ (Reports("create", 0, "refused", <<>>) \/ UNCHANGED last)
      BY <2>2, <1>u DEF Reports, outcome
    <2> QED BY <1>1, <2>1, <2>2 DEF CreateItem
  <1>2. ASSUME NEW source \in CommandSlots, EquipItemForCharacter(source)
        PROVE  Accounts(equipables, last'.events, equipables')
    <2>0. source \in Int \ {Temp}
      BY CommandAssumption
    <2>2. CASE Occupied(equipables, source) /\ Equips(source, ItemAt(equipables, source))
      <3> DEFINE item == ItemAt(equipables, source)
                 d == Destination(item)
                 worn == Swap(equipables, source, d)
                 moves == ExchangeEvents(equipables, source, d)
      <3>1. d \in Int \ {Temp}
        BY <1>0, <2>0, <2>2, FoundRow, EquipExchange
      <3>2. \/ RollsBack("equip", source, "no rival")
            \/ equipables' = worn /\ last'.events = moves
            \/ /\ Rival(item) \in Int
               /\ \E free \in FreeSlots(worn) :
                    /\ equipables' = MoveSlot(worn, Rival(item), free)
                    /\ last'.events = Append(moves, MovedTo(ItemAt(worn, Rival(item)),
                                                           Rival(item), free))
        <4>1. Equips(source, item) /\ Rival(item) \in Int
          BY <2>2 DEF Rival, Top, Bottom, NoRival
        <4>2. \A events : Reports("equip", source, "ok", events) => last'.events = events
          BY DEF Reports
        <4> HIDE DEF item
        <4> QED BY <4>1, <4>2, Zenon DEF Equips
      <3> HIDE DEF item, d
      <3>0. /\ Accounts(equipables, moves, worn)
            /\ \A rival \in Int, free \in FreeSlots(worn) : \A i :
                 Accounts(equipables, Append(moves, MovedTo(i, rival, free)),
                      MoveSlot(worn, rival, free))
        BY <1>0, <2>0, <2>2, <3>1, ExchangeTold
      <3> HIDE DEF worn, moves
      <3>3. CASE equipables' = worn /\ last'.events = moves
        BY <3>0, <3>3
      <3>4. ASSUME NEW rival \in Int, NEW free \in FreeSlots(worn),
                   equipables' = MoveSlot(worn, rival, free),
                   last'.events = Append(moves, MovedTo(ItemAt(worn, rival), rival, free))
            PROVE  Accounts(equipables, last'.events, equipables')
        BY <3>0, <3>4
      <3> QED BY <1>r, <3>2, <3>3, <3>4
    <2> QED BY <1>2, <1>r, <2>2 DEF EquipItemForCharacter
  <1>3. ASSUME NEW source \in CommandSlots, UnequipItemForCharacter(source)
        PROVE  Accounts(equipables, last'.events, equipables')
    <2>0. source \in Int
      BY CommandAssumption
    <2>1. ASSUME NEW free \in FreeSlots(equipables), NEW e, Moved(e, source, free),
                 equipables' = MoveSlot(equipables, source, free), last'.events = <<e>>
          PROVE  Accounts(equipables, last'.events, equipables')
      <3>1. Replay(Pic(equipables), <<e>>, ItemOf) = Exchanged(Pic(equipables), source, free)
        BY <2>1, ReplayOne, ApplyMoved
      <3> QED BY <1>0, <2>0, <2>1, <3>1, PicMoved DEF Accounts
    <2>2. \A item, old, new : Moved(MovedTo(item, old, new), old, new)
      BY DEF Moved, MovedTo
    <2> QED BY <1>3, <1>r, <2>1, <2>2 DEF UnequipItemForCharacter, Reports
  <1>4. ASSUME NEW source \in MoveSlots, NEW destination \in MoveSlots,
               moveEquip(source, destination)
        PROVE  \/ Accounts(equipables, last'.events, equipables')
               \/ last'.op = "move" /\ last'.events = <<>> /\ ~Occupied(equipables, last'.source)
    <2>0. source \in Int \ {Temp} /\ destination \in Int \ {Temp} /\ Temp \in Int
      BY CommandAssumption DEF Temp
    <2>1. /\ equipables' = Swap(equipables, source, destination)
          /\ last'.op = "move" /\ last'.source = source
          /\ last'.events = ExchangeEvents(equipables, source, destination)
      BY <1>4 DEF moveEquip, Reports
    <2>2. CASE Occupied(equipables, source)
      BY <1>0, <2>0, <2>1, <2>2, ExchangeTold
    <2>3. CASE ~Occupied(equipables, source)
      <3>1. MoveSlot(equipables, destination, Temp) = Reslotted(equipables, destination, Temp)
        BY <1>0, <2>0, MoveSlotRows
      <3>2. ~Occupied(Reslotted(equipables, destination, Temp), source)
        BY <2>0, <2>3 DEF Occupied, Reslotted
      <3> QED BY <2>1, <2>3, <3>1, <3>2 DEF ExchangeEvents
    <2> QED BY <2>2, <2>3
  <1>5. ASSUME NEW source \in CommandSlots, dropEquip(source)
        PROVE  Accounts(equipables, last'.events, equipables')
    <2>1. CASE /\ Occupied(equipables, source)
               /\ equipables' = Without(equipables, RowAt(equipables, source))
               /\ Reports("drop", source, "ok", <<Removed(ItemAt(equipables, source), source)>>)
      <3>1. PICK e : e = Removed(ItemAt(equipables, source), source)
        OBVIOUS
      <3>2. e.type = "REMOVE" /\ e.slot = source /\ last'.events = <<e>>
        BY <2>1, <3>1 DEF Removed, Reports
      <3>3. Replay(Pic(equipables), <<e>>, ItemOf) = Blanked(Pic(equipables), source)
        BY <3>2, ReplayOne, ApplyRemoved
      <3> QED BY <1>0, <2>1, <3>2, <3>3, PicWithout DEF Accounts
    <2> QED BY <1>5, <1>r, <2>1 DEF dropEquip
  <1> QED BY <1>1, <1>2, <1>3, <1>4, <1>5 DEF Next

\* A consumer that has every event in order has the inventory, but for the
\* moves from an empty slot that publish nothing (EquipEvents).
THEOREM EventsTell == Spec => EventsTellTheChange
  <1>1. IInv /\ [Next]_vars =>
          [\/ Picture(equipables', Worn) = Replay(Picture(equipables, Worn), last'.events, Worn)
           \/ /\ last'.op = "move" /\ last'.events = <<>>
              /\ ~Occupied(equipables, last'.source)]_outcome
    <2> SUFFICES ASSUME IInv, [Next]_vars, ~UNCHANGED outcome
                 PROVE  \/ Picture(equipables', Worn) =
                             Replay(Picture(equipables, Worn), last'.events, Worn)
                        \/ /\ last'.op = "move" /\ last'.events = <<>>
                           /\ ~Occupied(equipables, last'.source)
      OBVIOUS
    <2>1. Next
      BY DEF vars
    <2> QED BY <2>1, NextTells, WornIsItem DEF Accounts
  <1> QED BY <1>1, InductiveInvariant, PTL DEF Spec, EventsTellTheChange
=============================================================================
