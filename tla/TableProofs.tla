---------------------------- MODULE TableProofs -----------------------------
(***************************************************************************)
(* The statements on a table with distinct slots, for every table: what a  *)
(* query finds, what the updates of a command do together, that they keep  *)
(* the slots distinct, and what the events of a command show of them.      *)
(***************************************************************************)
EXTENDS EquipTable, EventReplay, FiniteSetTheorems, TLAPS

IsTable(t) == /\ DOMAIN t \subseteq Nat /\ IsFiniteSet(DOMAIN t)
              /\ t \in [DOMAIN t -> [item : Items, slot : Int]]

Distinct(t) == \A r, q \in DOMAIN t : t[r].slot = t[q].slot => r = q

\* Every row at s, wherever it is in the table, is given slot d.
Reslotted(t, s, d) ==
  [r \in DOMAIN t |->
     [item |-> t[r].item, slot |-> IF t[r].slot = s THEN d ELSE t[r].slot]]

\* The rows at s and at d have changed places.
Traded(t, s, d) ==
  [r \in DOMAIN t |->
     [item |-> t[r].item,
      slot |-> IF t[r].slot = s THEN d
               ELSE IF t[r].slot = d THEN s ELSE t[r].slot]]

-----------------------------------------------------------------------------
\* In a table with distinct slots the row a query finds is the only one there.
LEMMA RowAtOnly ==
  ASSUME NEW t, IsTable(t), Distinct(t), NEW r \in DOMAIN t
  PROVE  RowAt(t, t[r].slot) = r
  <1>1. r \in Nat /\ \A q \in DOMAIN t : t[q].slot = t[r].slot => q = r
    BY DEF IsTable, Distinct
  <1>2. t[r].slot = t[r].slot /\ \A q \in DOMAIN t : t[q].slot = t[r].slot => r <= q
    BY <1>1
  <1>3. \A x \in DOMAIN t :
          (t[x].slot = t[r].slot /\ \A q \in DOMAIN t : t[q].slot = t[r].slot => x <= q)
          => x = r
    BY <1>1
  <1> QED BY <1>2, <1>3 DEF RowAt

\* What the row found at an occupied slot is.
LEMMA FoundRow ==
  ASSUME NEW t, IsTable(t), Distinct(t), NEW s, Occupied(t, s)
  PROVE  /\ RowAt(t, s) \in DOMAIN t /\ t[RowAt(t, s)].slot = s
         /\ ItemAt(t, s) = t[RowAt(t, s)].item /\ ItemAt(t, s) \in Items
         /\ \A r \in DOMAIN t : t[r].slot = s => r = RowAt(t, s)
  <1>1. PICK r \in DOMAIN t : t[r].slot = s
    BY DEF Occupied
  <1>2. RowAt(t, s) = r
    BY <1>1, RowAtOnly
  <1>3. t[r].item \in Items
    BY DEF IsTable
  <1> QED BY <1>1, <1>2, <1>3 DEF ItemAt, Distinct

\* An UPDATE of the row found at s is an UPDATE of every row at s.
LEMMA MoveSlotRows ==
  ASSUME NEW t, IsTable(t), Distinct(t), NEW s \in Int, NEW d \in Int
  PROVE  MoveSlot(t, s, d) = Reslotted(t, s, d)
  <1>1. CASE Occupied(t, s)
    <2>1. PICK x \in DOMAIN t : t[x].slot = s
      BY <1>1 DEF Occupied
    <2>2. RowAt(t, s) = x
      BY <2>1, RowAtOnly
    <2>3. MoveSlot(t, s, d) = [t EXCEPT ![x].slot = d]
      BY <1>1, <2>2 DEF MoveSlot
    <2>4. ASSUME NEW r \in DOMAIN t
          PROVE [t EXCEPT ![x].slot = d][r] = Reslotted(t, s, d)[r]
      <3>1. t[r] \in [item : Items, slot : Int]
        BY DEF IsTable
      <3>2. CASE r = x
        BY <3>1, <3>2, <2>1 DEF Reslotted
      <3>3. CASE r # x
        <4>1. t[r].slot # s
          BY <3>3, <2>1 DEF Distinct
        <4> QED BY <3>1, <3>3, <4>1 DEF Reslotted
      <3> QED BY <3>2, <3>3
    <2> QED BY <2>3, <2>4 DEF Reslotted
  <1>2. CASE ~Occupied(t, s)
    <2>1. MoveSlot(t, s, d) = t
      BY <1>2 DEF MoveSlot
    <2>2. ASSUME NEW r \in DOMAIN t PROVE t[r] = Reslotted(t, s, d)[r]
      <3>1. t[r] \in [item : Items, slot : Int] /\ t[r].slot # s
        BY <1>2 DEF IsTable, Occupied
      <3> QED BY <3>1 DEF Reslotted
    <2>3. t = [r \in DOMAIN t |-> t[r]]
      BY DEF IsTable
    <2> QED BY <2>1, <2>2, <2>3 DEF Reslotted
  <1> QED BY <1>1, <1>2

\* Moving a row to a slot nobody has keeps the slots distinct.
LEMMA ReslottedDistinct ==
  ASSUME NEW t, IsTable(t), Distinct(t), NEW s \in Int, NEW d \in Int, ~Occupied(t, d)
  PROVE  /\ IsTable(Reslotted(t, s, d)) /\ Distinct(Reslotted(t, s, d))
         /\ DOMAIN Reslotted(t, s, d) = DOMAIN t
  <1>1. DOMAIN Reslotted(t, s, d) = DOMAIN t
    BY DEF Reslotted
  <1>2. \A r \in DOMAIN t : t[r].slot \in Int /\ t[r].item \in Items /\ t[r].slot # d
    BY DEF IsTable, Occupied
  <1>3. IsTable(Reslotted(t, s, d))
    BY <1>1, <1>2 DEF IsTable, Reslotted
  <1>4. Distinct(Reslotted(t, s, d))
    BY <1>1, <1>2 DEF Distinct, Reslotted
  <1> QED BY <1>1, <1>3, <1>4

\* The three updates of the service exchange two slots, and nothing else, as
\* long as the parking slot is free to begin with.
LEMMA SwapRows ==
  ASSUME NEW t, IsTable(t), Distinct(t), ~Occupied(t, Temp),
         NEW s \in Int \ {Temp}, NEW d \in Int \ {Temp}
  PROVE  Swap(t, s, d) = Traded(t, s, d)
  <1>0. Temp \in Int
    BY DEF Temp
  <1> DEFINE a == Reslotted(t, d, Temp)
             b == Reslotted(a, s, d)
  <1>1. /\ MoveSlot(t, d, Temp) = a
        /\ IsTable(a) /\ Distinct(a) /\ DOMAIN a = DOMAIN t
    BY <1>0, MoveSlotRows, ReslottedDistinct
  <1>2. ~Occupied(a, d)
    BY <1>1 DEF Occupied, Reslotted
  <1>3. /\ MoveSlot(a, s, d) = b
        /\ IsTable(b) /\ Distinct(b) /\ DOMAIN b = DOMAIN t
    BY <1>1, <1>2, MoveSlotRows, ReslottedDistinct
  <1>4. MoveSlot(b, Temp, s) = Reslotted(b, Temp, s)
    BY <1>0, <1>3, MoveSlotRows
  <1>5. Reslotted(b, Temp, s) = Traded(t, s, d)
    <2>1. \A r \in DOMAIN t : t[r].slot # Temp
      BY DEF Occupied
    <2>2. ASSUME NEW r \in DOMAIN t
          PROVE  Reslotted(b, Temp, s)[r] = Traded(t, s, d)[r]
      BY <1>1, <1>3, <2>1 DEF Reslotted, Traded
    <2> QED BY <1>3, <2>2 DEF Reslotted, Traded
  <1> QED BY <1>1, <1>3, <1>4, <1>5 DEF Swap

\* An exchange keeps the slots distinct and the parking slot empty.
LEMMA ExchangeDistinct ==
  ASSUME NEW t, IsTable(t), Distinct(t), ~Occupied(t, Temp),
         NEW s \in Int \ {Temp}, NEW d \in Int \ {Temp}
  PROVE  LET e == Traded(t, s, d) IN
           /\ IsTable(e) /\ Distinct(e) /\ ~Occupied(e, Temp) /\ DOMAIN e = DOMAIN t
  <1> DEFINE e == Traded(t, s, d)
  <1>1. DOMAIN e = DOMAIN t
    BY DEF Traded
  <1>2. \A r \in DOMAIN t : t[r].slot \in Int \ {Temp} /\ t[r].item \in Items
    BY DEF IsTable, Occupied
  <1>3. \A r \in DOMAIN t :
          e[r].slot = IF t[r].slot = s THEN d ELSE IF t[r].slot = d THEN s ELSE t[r].slot
    BY DEF Traded
  <1>4. IsTable(e)
    BY <1>2 DEF IsTable, Traded
  <1> HIDE DEF e
  <1>5. \A r \in DOMAIN t : e[r].slot # Temp
    BY <1>2, <1>3
  <1>6. ~Occupied(e, Temp)
    BY <1>1, <1>5 DEF Occupied
  <1>7. Distinct(e)
    BY <1>1, <1>2, <1>3 DEF Distinct
  <1> QED BY <1>1, <1>4, <1>6, <1>7 DEF e

\* On the way the table stays one, with distinct slots, and the row at the
\* source, if the destination's was another, is still there to be moved.
LEMMA SwapSteps ==
  ASSUME NEW t, IsTable(t), Distinct(t), ~Occupied(t, Temp),
         NEW s \in Int \ {Temp}, NEW d \in Int \ {Temp}
  PROVE  LET parked == MoveSlot(t, d, Temp)
             moved == MoveSlot(parked, s, d)
         IN /\ IsTable(parked) /\ Distinct(parked) /\ DOMAIN parked = DOMAIN t
            /\ IsTable(moved) /\ Distinct(moved) /\ DOMAIN moved = DOMAIN t
            /\ Occupied(parked, s) => ItemAt(parked, s) = ItemAt(t, s)
  <1>0. Temp \in Int
    BY DEF Temp
  <1> DEFINE a == Reslotted(t, d, Temp)
  <1>1. /\ MoveSlot(t, d, Temp) = a
        /\ IsTable(a) /\ Distinct(a) /\ DOMAIN a = DOMAIN t
    BY <1>0, MoveSlotRows, ReslottedDistinct
  <1>2. ~Occupied(a, d)
    BY <1>1 DEF Occupied, Reslotted
  <1>3. MoveSlot(a, s, d) = Reslotted(a, s, d)
    BY <1>1, MoveSlotRows
  <1>4. ASSUME Occupied(a, s) PROVE ItemAt(a, s) = ItemAt(t, s)
    <2>1. PICK x \in DOMAIN a : a[x].slot = s
      BY <1>4 DEF Occupied
    <2>2. x \in DOMAIN t /\ t[x].slot = s /\ t[x].item = a[x].item
      BY <1>1, <2>1 DEF Reslotted
    <2>3. RowAt(a, s) = x /\ RowAt(t, s) = x
      BY <1>1, <2>1, <2>2, RowAtOnly
    <2> QED BY <2>2, <2>3 DEF ItemAt
  <1>5. /\ IsTable(Reslotted(a, s, d)) /\ Distinct(Reslotted(a, s, d))
        /\ DOMAIN Reslotted(a, s, d) = DOMAIN t
    BY <1>1, <1>2, ReslottedDistinct
  <1> QED BY <1>1, <1>3, <1>4, <1>5

\* What MinFreeSlot returns is a slot of the bag that no row has.
LEMMA FreeSlotIsFree ==
  ASSUME NEW t, IsTable(t), NEW n \in FreeSlots(t)
  PROVE  n \in Nat \ {0} /\ ~Occupied(t, n)
  <1>1. Cardinality(DOMAIN t) \in Nat
    BY FS_CardinalityType DEF IsTable
  <1> QED BY <1>1 DEF FreeSlots

\* One MOVE to a free slot, as the unequip and the rival's unequip do it.
LEMMA MoveToFree ==
  ASSUME NEW t, IsTable(t), Distinct(t), ~Occupied(t, Temp),
         NEW s \in Int, NEW n \in FreeSlots(t)
  PROVE  LET m == MoveSlot(t, s, n) IN
           /\ m = Reslotted(t, s, n)
           /\ IsTable(m) /\ Distinct(m) /\ ~Occupied(m, Temp) /\ DOMAIN m = DOMAIN t
  <1>1. n \in Int /\ n # Temp /\ ~Occupied(t, n)
    BY FreeSlotIsFree DEF Temp
  <1>2. MoveSlot(t, s, n) = Reslotted(t, s, n)
    BY <1>1, MoveSlotRows
  <1>3. /\ IsTable(Reslotted(t, s, n)) /\ Distinct(Reslotted(t, s, n))
        /\ DOMAIN Reslotted(t, s, n) = DOMAIN t
    BY <1>1, ReslottedDistinct
  <1>4. ~Occupied(Reslotted(t, s, n), Temp)
    BY <1>1 DEF Occupied, Reslotted
  <1> QED BY <1>2, <1>3, <1>4

\* A deletion leaves the other rows as they are.
LEMMA WithoutDistinct ==
  ASSUME NEW t, IsTable(t), Distinct(t), ~Occupied(t, Temp), NEW x
  PROVE  LET w == Without(t, x) IN
           /\ IsTable(w) /\ Distinct(w) /\ ~Occupied(w, Temp)
           /\ DOMAIN w \subseteq DOMAIN t
           /\ \A r \in DOMAIN w : w[r] = t[r]
  <1> DEFINE w == Without(t, x)
  <1>1. DOMAIN w = DOMAIN t \ {x} /\ \A r \in DOMAIN w : w[r] = t[r]
    BY DEF Without
  <1>2. IsFiniteSet(DOMAIN w)
    BY <1>1, FS_Subset DEF IsTable
  <1>3. IsTable(w)
    BY <1>1, <1>2 DEF IsTable, Without
  <1>4. Distinct(w) /\ ~Occupied(w, Temp)
    BY <1>1 DEF Distinct, Occupied
  <1> QED BY <1>1, <1>3, <1>4

\* The rows of one create request, each in a slot that was free when the ones
\* before it were in the table.
LEMMA WithRowsDistinct ==
  ASSUME NEW t, IsTable(t), Distinct(t), ~Occupied(t, Temp),
         NEW id \in Nat \ {0}, DOMAIN t \subseteq 1 .. id - 1,
         NEW item \in Items, NEW n \in Nat, NEW slots,
         \A k \in 1 .. n : slots[k] \in FreeSlots(WithRows(t, id, item, slots, k - 1))
  PROVE  LET w == WithRows(t, id, item, slots, n) IN
           /\ IsTable(w) /\ Distinct(w) /\ ~Occupied(w, Temp)
           /\ DOMAIN w \subseteq 1 .. id + n - 1
           /\ \A r \in DOMAIN t : r \in DOMAIN w /\ w[r] = t[r]
           /\ \A r \in DOMAIN w \ DOMAIN t : w[r].slot \in Nat \ {0}
  <1> DEFINE w(k) == WithRows(t, id, item, slots, k)
  <1>1. ASSUME NEW k \in 0 .. n
        PROVE  /\ DOMAIN w(k) = DOMAIN t \cup id .. id + k - 1
               /\ \A r \in DOMAIN t : w(k)[r] = t[r]
               /\ \A r \in id .. id + k - 1 : w(k)[r].slot = slots[r - id + 1]
    <2>1. \A r \in id .. id + k - 1 : r \notin DOMAIN t
      OBVIOUS
    <2> QED BY <2>1 DEF WithRows
  <1>2. ASSUME NEW k \in 0 .. n
        PROVE  IsFiniteSet(DOMAIN w(k)) /\ DOMAIN w(k) \subseteq 1 .. id + k - 1
    <2> DEFINE D == DOMAIN w(k)
    <2>1. D = DOMAIN t \cup id .. id + k - 1
      BY <1>1
    <2> HIDE DEF D
    <2>2. D \subseteq 1 .. id + k - 1
      BY <2>1
    <2>3. IsFiniteSet(1 .. id + k - 1)
      BY FS_Interval
    <2>4. IsFiniteSet(D)
      BY <2>2, <2>3, FS_Subset
    <2> QED BY <2>2, <2>4 DEF D
  <1>3. ASSUME NEW k \in 1 .. n
        PROVE  slots[k] \in Nat \ {0} /\ ~Occupied(w(k - 1), slots[k])
    <2>1. slots[k] \in FreeSlots(w(k - 1)) /\ k - 1 \in 0 .. n
      OBVIOUS
    <2>2. Cardinality(DOMAIN w(k - 1)) \in Nat
      BY <2>1, <1>2, FS_CardinalityType
    <2> QED BY <2>1, <2>2 DEF FreeSlots
  <1> HIDE DEF w
  <1> DEFINE v == w(n)
  <1>4. /\ DOMAIN v = DOMAIN t \cup id .. id + n - 1
        /\ \A r \in DOMAIN t : v[r] = t[r]
        /\ \A r \in id .. id + n - 1 : v[r].slot = slots[r - id + 1]
        /\ IsFiniteSet(DOMAIN v) /\ DOMAIN v \subseteq 1 .. id + n - 1
    <2>1. n \in 0 .. n
      OBVIOUS
    <2> QED BY <2>1, <1>1, <1>2
  <1>5. ASSUME NEW r \in id .. id + n - 1 PROVE v[r].slot \in Nat \ {0}
    <2>1. r - id + 1 \in 1 .. n
      OBVIOUS
    <2> QED BY <2>1, <1>3, <1>4
  <1>6. IsTable(v)
    <2>1. \A r \in id .. id + n - 1 : slots[r - id + 1] \in Int
      BY <1>3
    <2>2. v \in [DOMAIN v -> [item : Items, slot : Int]]
      BY <2>1 DEF w, WithRows, IsTable
    <2> QED BY <1>4, <2>2 DEF IsTable
  <1>7. ASSUME NEW q \in id .. id + n - 1, NEW r \in DOMAIN v, r < q
        PROVE  v[r].slot # v[q].slot
    <2> DEFINE k == q - id + 1
    <2>1. k \in 1 .. n /\ k - 1 \in 0 .. n /\ id + (k - 1) - 1 = q - 1
      OBVIOUS
    <2> HIDE DEF k
    <2>a. v[q].slot = slots[k]
      BY <1>4 DEF k
    <2>2. v[q].slot = slots[k] /\ ~Occupied(w(k - 1), slots[k])
      BY <2>1, <2>a, <1>3
    <2>3. r \in DOMAIN w(k - 1) /\ w(k - 1)[r].slot = v[r].slot
      <3>1. DOMAIN w(k - 1) = DOMAIN t \cup id .. q - 1
        BY <2>1, <1>1
      <3>2. r \in DOMAIN t \/ r \in id .. q - 1
        BY <1>4, <1>7
      <3>3. CASE r \in DOMAIN t
        BY <3>1, <3>3, <2>1, <1>1, <1>4
      <3>4. CASE r \in id .. q - 1
        <4>1. w(k - 1)[r].slot = slots[r - id + 1]
          BY <3>4, <2>1, <1>1
        <4>2. v[r].slot = slots[r - id + 1]
          BY <3>4, <1>4
        <4> QED BY <3>1, <3>4, <4>1, <4>2
      <3> QED BY <3>2, <3>3, <3>4
    <2> QED BY <2>2, <2>3 DEF Occupied
  <1> HIDE DEF v
  <1>8. Distinct(v)
    <2>1. \A r \in DOMAIN t : v[r].slot = t[r].slot
      BY <1>4
    <2>2. \A r, q \in DOMAIN t : v[r].slot = v[q].slot => r = q
      BY <2>1 DEF Distinct
    <2>3. DOMAIN v \subseteq Nat
      BY <1>4
    <2> SUFFICES ASSUME NEW r \in DOMAIN v, NEW q \in DOMAIN v, v[r].slot = v[q].slot
                 PROVE  ~ (r < q)
      BY <2>3 DEF Distinct
    <2>4. CASE q \in DOMAIN t
      BY <2>2, <2>4, <1>4
    <2>5. CASE q \in id .. id + n - 1
      BY <2>5, <1>7
    <2> QED BY <2>4, <2>5, <1>4
  <1>9. ~Occupied(v, Temp)
    <2>1. \A r \in DOMAIN t : v[r].slot # Temp
      BY <1>4 DEF Occupied
    <2>2. \A r \in id .. id + n - 1 : v[r].slot # Temp
      BY <1>5 DEF Temp
    <2> QED BY <2>1, <2>2, <1>4 DEF Occupied
  <1> QED BY <1>4, <1>5, <1>6, <1>8, <1>9 DEF v, w

-----------------------------------------------------------------------------
\* A non-empty set of naturals has a least element.
LEMMA LeastOf ==
  ASSUME NEW R, NEW S, IsWellFoundedOn(R, S), \A x, y \in S : x < y => <<x, y>> \in R,
         NEW T, T \subseteq S, T # {}
  PROVE  \E m \in T : \A k \in T : ~ (k < m)
  <1>1. PICK m \in T : \A k \in T : ~ (<<k, m>> \in R)
    BY ONLY IsWellFoundedOn(R, S), T \subseteq S, T # {}, WFMin, Zenon
  <1>2. ASSUME NEW k \in T PROVE ~ (k < m)
    BY <1>1
  <1> QED BY <1>2

LEMMA NatLeast ==
  ASSUME NEW T, T \subseteq Nat, T # {}
  PROVE  \E m \in T : \A k \in T : m <= k
  <1>1. \A x, y \in Nat : x < y => <<x, y>> \in OpToRel(<, Nat)
    BY DEF OpToRel
  <1>2. \E m \in T : \A k \in T : ~ (k < m)
    BY <1>1, NatLessThanWellFounded, LeastOf
  <1> QED BY <1>2

\* No two rows share a slot of the bag.
DistinctBag(t) ==
  \A n \in Nat \ {0} : \A r, q \in DOMAIN t : t[r].slot = n /\ t[q].slot = n => r = q

\* More slots than rows: one of them is free.
LEMMA SomeSlotFree ==
  ASSUME NEW t, IsFiniteSet(DOMAIN t), NEW c \in Nat, Cardinality(DOMAIN t) = c
  PROVE  \E n \in 1 .. c + 1 : ~Occupied(t, n)
  <1> SUFFICES ASSUME \A n \in 1 .. c + 1 : Occupied(t, n) PROVE FALSE
    OBVIOUS
  <1> DEFINE At(n) == CHOOSE r \in DOMAIN t : t[r].slot = n
             row == [n \in 1 .. c + 1 |-> At(n)]
  <1>1. \A n \in 1 .. c + 1 : At(n) \in DOMAIN t /\ t[At(n)].slot = n
    BY DEF Occupied
  <1> HIDE DEF At
  <1>2. row \in [1 .. c + 1 -> DOMAIN t]
    BY <1>1
  <1>3. IsFiniteSet(1 .. c + 1) /\ Cardinality(1 .. c + 1) = c + 1
    BY FS_Interval
  <1>4. c < c + 1
    OBVIOUS
  <1> HIDE DEF row
  <1>5. \E x, y \in 1 .. c + 1 : x # y /\ row[x] = row[y]
    BY <1>2, <1>3, <1>4, FS_PigeonHole
  <1>6. PICK x \in 1 .. c + 1, y \in 1 .. c + 1 : x # y /\ row[x] = row[y]
    BY <1>5
  <1>7. At(x) = At(y)
    BY <1>6 DEF row
  <1> QED BY <1>1, <1>6, <1>7

\* Where no two rows share a slot of the bag, MinFreeSlot returns, and there is
\* one slot it can return.
LEMMA OneFreeSlot ==
  ASSUME NEW t, IsFiniteSet(DOMAIN t), DistinctBag(t)
  PROVE  \E f \in Nat \ {0} : FreeSlots(t) = {f}
  <1>1. PICK c \in Nat : Cardinality(DOMAIN t) = c
    BY FS_CardinalityType
  <1> DEFINE T == {n \in 1 .. c + 1 : ~Occupied(t, n)}
  <1>2. T \subseteq Nat /\ T # {}
    BY <1>1, SomeSlotFree
  <1>3. PICK f \in T : \A k \in T : f <= k
    BY <1>2, NatLeast
  <1>4. f \in 1 .. c + 1 /\ ~Occupied(t, f)
    BY <1>3
  <1>5. \A m \in 1 .. f - 1 : Occupied(t, m)
    BY <1>3, <1>4
  <1>6. \A m \in 1 .. f - 1 :
          \E r \in DOMAIN t : /\ t[r].slot = m
                              /\ \A q \in DOMAIN t : t[q].slot = m => q = r
    BY <1>4, <1>5 DEF Occupied, DistinctBag
  <1>7. f \in FreeSlots(t)
    BY <1>1, <1>4, <1>6 DEF FreeSlots
  <1>8. ASSUME NEW g \in FreeSlots(t) PROVE g = f
    <2>1. /\ g \in 1 .. c + 1 /\ ~Occupied(t, g)
          /\ \A m \in 1 .. g - 1 : Occupied(t, m)
      BY <1>1 DEF FreeSlots, Occupied
    <2> QED BY <1>4, <1>5, <2>1
  <1>9. FreeSlots(t) = {f}
    BY <1>7, <1>8
  <1>10. f \in Nat \ {0}
    BY <1>4
  <1> QED BY <1>9, <1>10

\* What a consumer has who looks at the items.
ItemOf(row) == row.item

\* Events in order, when the picture after each of them is known.
LEMMA ReplaySteps ==
  ASSUME NEW n \in Nat, NEW events, Len(events) = n, NEW pics,
         \A k \in 1 .. n : pics[k] = Apply(pics[k - 1], events[k], ItemOf)
  PROVE  Replay(pics[0], events, ItemOf) = pics[n]
  <1> DEFINE A(p, k) == Apply(p, events[k], ItemOf)
             F(f) == f = [k \in 0 .. n |-> IF k = 0 THEN pics[0] ELSE A(f[k - 1], k)]
             f == CHOOSE g : F(g)
  <1>1. Replay(pics[0], events, ItemOf) = f[n]
    BY DEF Replay
  <1>2. \A k \in 1 .. n : pics[k] = A(pics[k - 1], k)
    OBVIOUS
  <1> HIDE DEF A
  <1>3. F([k \in 0 .. n |-> pics[k]])
    <2> DEFINE g == [k \in 0 .. n |-> pics[k]]
    <2>1. \A k \in 0 .. n : g[k] = IF k = 0 THEN pics[0] ELSE A(g[k - 1], k)
      <3>1. \A k \in 1 .. n : k - 1 \in 0 .. n
        OBVIOUS
      <3> QED BY <1>2, <3>1
    <2> QED BY <2>1
  <1>4. F(f)
    <2> HIDE DEF F
    <2> QED BY <1>3
  <1> HIDE DEF f
  <1>5. \A k \in 0 .. n : f[k] = pics[k]
    <2> DEFINE D == {k \in 0 .. n : f[k] # pics[k]}
    <2> SUFFICES ASSUME D # {} PROVE FALSE
      OBVIOUS
    <2>1. PICK m \in D : \A k \in D : m <= k
      <3>1. D \subseteq Nat
        OBVIOUS
      <3> HIDE DEF D
      <3> QED BY <3>1, NatLeast
    <2>2. m # 0 /\ m - 1 \in 0 .. n /\ m \in 1 .. n
      BY <1>4, <2>1
    <2>3. f[m - 1] = pics[m - 1]
      BY <2>1, <2>2
    <2> QED BY <1>2, <1>4, <2>1, <2>2, <2>3
  <1> QED BY <1>1, <1>5

Pic(t) == Picture(t, ItemOf)

\* The pictures after an ADD and after a REMOVE.
Shown(p, s, i) == [x \in DOMAIN p \cup {s} |-> IF x = s THEN i ELSE p[x]]
Blanked(p, s) == [x \in DOMAIN p \ {s} |-> p[x]]

\* A picture is one of a table if it shows each row where it is, and no more.
LEMMA PicIs ==
  ASSUME NEW t, IsTable(t), Distinct(t), NEW p, p = [s \in DOMAIN p |-> p[s]],
         \A s \in DOMAIN p : Occupied(t, s),
         \A r \in DOMAIN t : t[r].slot \in DOMAIN p /\ p[t[r].slot] = t[r].item
  PROVE  Pic(t) = p
  <1>1. DOMAIN p = SlotsOf(t)
    BY DEF SlotsOf, Occupied
  <1>2. ASSUME NEW s \in SlotsOf(t) PROVE ItemOf(t[RowAt(t, s)]) = p[s]
    <2>1. PICK r \in DOMAIN t : t[r].slot = s
      BY DEF SlotsOf
    <2> QED BY <2>1, RowAtOnly DEF ItemOf
  <1> QED BY <1>1, <1>2 DEF Pic, Picture

LEMMA PicShows ==
  ASSUME NEW t, IsTable(t), Distinct(t)
  PROVE  /\ DOMAIN Pic(t) = SlotsOf(t) /\ Pic(t) = [s \in SlotsOf(t) |-> Pic(t)[s]]
         /\ \A s : s \in SlotsOf(t) <=> Occupied(t, s)
         /\ \A r \in DOMAIN t : t[r].slot \in SlotsOf(t) /\ Pic(t)[t[r].slot] = t[r].item
  <1>1. DOMAIN Pic(t) = SlotsOf(t) /\ Pic(t) = [s \in SlotsOf(t) |-> Pic(t)[s]]
    BY DEF Pic, Picture
  <1>2. \A s : s \in SlotsOf(t) <=> Occupied(t, s)
    BY DEF SlotsOf, Occupied
  <1>3. ASSUME NEW r \in DOMAIN t
        PROVE  t[r].slot \in SlotsOf(t) /\ Pic(t)[t[r].slot] = t[r].item
    BY RowAtOnly DEF SlotsOf, Pic, Picture, ItemOf
  <1> QED BY <1>1, <1>2, <1>3

\* A MOVE event shows the rows of two slots exchanged.
LEMMA PicTraded ==
  ASSUME NEW t, IsTable(t), Distinct(t), NEW s \in Int, NEW d \in Int
  PROVE  /\ IsTable(Traded(t, s, d)) /\ Distinct(Traded(t, s, d))
         /\ Pic(Traded(t, s, d)) = Exchanged(Pic(t), s, d)
  <1> DEFINE e == Traded(t, s, d)
             p == Exchanged(Pic(t), s, d)
             other == [x \in {s, d} |-> IF x = s THEN d ELSE s]
  <1>1. /\ DOMAIN e = DOMAIN t
        /\ \A r \in DOMAIN t :
             e[r].slot = IF t[r].slot = s THEN d ELSE IF t[r].slot = d THEN s ELSE t[r].slot
        /\ \A r \in DOMAIN t : e[r].item = t[r].item
    BY DEF Traded
  <1>2. \A r \in DOMAIN t : t[r].slot \in Int /\ t[r].item \in Items
    BY DEF IsTable
  <1>3. IsTable(e)
    BY <1>2 DEF IsTable, Traded
  <1>4. Distinct(e)
    BY <1>1, <1>2 DEF Distinct
  <1>5. /\ p = [x \in DOMAIN p |-> p[x]]
        /\ \A x : x \in DOMAIN p <=> \/ x \notin {s, d} /\ Occupied(t, x)
                                     \/ x = s /\ Occupied(t, d)
                                     \/ x = d /\ Occupied(t, s)
    BY PicShows DEF Exchanged
  <1>6. \A x \in DOMAIN p : p[x] = IF x = s THEN Pic(t)[d] ELSE IF x = d THEN Pic(t)[s] ELSE Pic(t)[x]
    BY DEF Exchanged
  <1> HIDE DEF e, p
  <1>7. ASSUME NEW x \in DOMAIN p PROVE Occupied(e, x)
    BY <1>1, <1>5 DEF Occupied
  <1>8. ASSUME NEW r \in DOMAIN e PROVE e[r].slot \in DOMAIN p /\ p[e[r].slot] = e[r].item
    <2>1. r \in DOMAIN t /\ Occupied(t, t[r].slot) /\ Pic(t)[t[r].slot] = t[r].item
      BY <1>1, PicShows
    <2> QED BY <1>1, <1>5, <1>6, <2>1
  <1>9. Pic(e) = p
    BY <1>3, <1>4, <1>5, <1>7, <1>8, PicIs
  <1> QED BY <1>3, <1>4, <1>9 DEF e, p

\* The MOVE of a row to a free slot.
LEMMA PicMoved ==
  ASSUME NEW t, IsTable(t), Distinct(t), ~Occupied(t, Temp),
         NEW s \in Int, NEW n \in FreeSlots(t)
  PROVE  Pic(MoveSlot(t, s, n)) = Exchanged(Pic(t), s, n)
  <1>1. n \in Int /\ ~Occupied(t, n) /\ MoveSlot(t, s, n) = Reslotted(t, s, n)
    BY FreeSlotIsFree, MoveToFree
  <1>2. Reslotted(t, s, n) = Traded(t, s, n)
    BY <1>1 DEF Reslotted, Traded, Occupied
  <1> QED BY <1>1, <1>2, PicTraded

\* The REMOVE of the row that was in its slot.
LEMMA PicWithout ==
  ASSUME NEW t, IsTable(t), Distinct(t), ~Occupied(t, Temp), NEW s, Occupied(t, s)
  PROVE  Pic(Without(t, RowAt(t, s))) = Blanked(Pic(t), s)
  <1> DEFINE x == RowAt(t, s)
             w == Without(t, x)
             p == [y \in DOMAIN Pic(t) \ {s} |-> Pic(t)[y]]
  <1>1. IsTable(w) /\ Distinct(w)
    BY WithoutDistinct
  <1>2. DOMAIN w = DOMAIN t \ {x} /\ \A r \in DOMAIN w : w[r] = t[r]
    BY DEF Without
  <1>3. x \in DOMAIN t /\ t[x].slot = s /\ \A r \in DOMAIN t : t[r].slot = s => r = x
    BY FoundRow
  <1>4. DOMAIN p = SlotsOf(t) \ {s} /\ p = [y \in DOMAIN p |-> p[y]]
        /\ \A y \in DOMAIN p : p[y] = Pic(t)[y]
    BY PicShows
  <1> HIDE DEF x, w, p
  <1>5. ASSUME NEW y \in DOMAIN p PROVE Occupied(w, y)
    BY <1>2, <1>3, <1>4 DEF SlotsOf, Occupied
  <1>6. ASSUME NEW r \in DOMAIN w PROVE w[r].slot \in DOMAIN p /\ p[w[r].slot] = w[r].item
    <2>1. r \in DOMAIN t /\ w[r] = t[r] /\ t[r].slot # s
      BY <1>2, <1>3
    <2> QED BY <1>4, <2>1, PicShows
  <1>7. Pic(w) = p
    BY <1>1, <1>4, <1>5, <1>6, PicIs
  <1> QED BY <1>7 DEF w, x, p, Blanked

\* The ADD of a row in a slot nobody had.
LEMMA PicAdded ==
  ASSUME NEW t, IsTable(t), Distinct(t), NEW u, IsTable(u), Distinct(u),
         NEW r \in DOMAIN u, DOMAIN u = DOMAIN t \cup {r}, r \notin DOMAIN t,
         \A q \in DOMAIN t : u[q] = t[q]
  PROVE  Pic(u) = Shown(Pic(t), u[r].slot, u[r].item)
  <1> DEFINE s == u[r].slot
             p == [x \in DOMAIN Pic(t) \cup {s} |-> IF x = s THEN u[r].item ELSE Pic(t)[x]]
  <1>1. DOMAIN p = SlotsOf(t) \cup {s} /\ p = [x \in DOMAIN p |-> p[x]]
        /\ \A x \in DOMAIN p : p[x] = IF x = s THEN u[r].item ELSE Pic(t)[x]
    BY PicShows
  <1> HIDE DEF p
  <1>2. ASSUME NEW x \in DOMAIN p PROVE Occupied(u, x)
    BY <1>1 DEF SlotsOf, Occupied
  <1>3. ASSUME NEW q \in DOMAIN u PROVE u[q].slot \in DOMAIN p /\ p[u[q].slot] = u[q].item
    <2>1. CASE q = r
      BY <1>1, <2>1
    <2>2. CASE q # r
      <3>1. q \in DOMAIN t /\ u[q] = t[q] /\ u[q].slot # s
        BY <2>2 DEF Distinct
      <3> QED BY <1>1, <3>1, PicShows
    <2> QED BY <2>1, <2>2
  <1>4. Pic(u) = p
    BY <1>1, <1>2, <1>3, PicIs
  <1> QED BY <1>4 DEF p, Shown

-----------------------------------------------------------------------------
\* What a consumer makes of the events of a command.
Moved(e, s, d) == e.type = "MOVE" /\ e.oldSlot = s /\ e.slot = d

LEMMA ApplyMoved ==
  ASSUME NEW p, NEW e, NEW s, NEW d, Moved(e, s, d)
  PROVE  Apply(p, e, ItemOf) = Exchanged(p, s, d)
  BY DEF Apply, Moved

LEMMA ApplyAdded ==
  ASSUME NEW p, NEW e, e.type = "ADD"
  PROVE  Apply(p, e, ItemOf) = Shown(p, e.slot, e.item)
  BY DEF Apply, ItemOf, Shown

LEMMA ApplyRemoved ==
  ASSUME NEW p, NEW e, e.type = "REMOVE"
  PROVE  Apply(p, e, ItemOf) = Blanked(p, e.slot)
  BY DEF Apply, Blanked

LEMMA ReplayNone == ASSUME NEW p PROVE Replay(p, <<>>, ItemOf) = p
  <1> DEFINE pics == [k \in 0 .. 0 |-> p]
  <1>1. pics[0] = p
    OBVIOUS
  <1> HIDE DEF pics
  <1>2. Replay(pics[0], <<>>, ItemOf) = pics[0]
    BY ReplaySteps
  <1> QED BY <1>1, <1>2

LEMMA ReplayOne ==
  ASSUME NEW p, NEW e
  PROVE  Replay(p, <<e>>, ItemOf) = Apply(p, e, ItemOf)
  <1> DEFINE A(q) == Apply(q, e, ItemOf)
             pics == [k \in 0 .. 1 |-> IF k = 0 THEN p ELSE A(p)]
  <1> HIDE DEF A
  <1>1. pics[0] = p /\ pics[1] = A(p)
    OBVIOUS
  <1> HIDE DEF pics
  <1>2. \A k \in 1 .. 1 : pics[k] = Apply(pics[k - 1], <<e>>[k], ItemOf)
    BY <1>1 DEF A
  <1>3. Replay(pics[0], <<e>>, ItemOf) = pics[1]
    BY <1>2, ReplaySteps
  <1> QED BY <1>1, <1>3 DEF A

LEMMA ReplayTwo ==
  ASSUME NEW p, NEW e, NEW f, NEW es, Len(es) = 2, es[1] = e, es[2] = f
  PROVE  Replay(p, es, ItemOf) = Apply(Apply(p, e, ItemOf), f, ItemOf)
  <1> DEFINE A(q) == Apply(q, e, ItemOf)
             B(q) == Apply(q, f, ItemOf)
             pics == [k \in 0 .. 2 |-> IF k = 0 THEN p ELSE IF k = 1 THEN A(p) ELSE B(A(p))]
  <1> HIDE DEF A, B
  <1>1. pics[0] = p /\ pics[1] = A(p) /\ pics[2] = B(pics[1])
    OBVIOUS
  <1> HIDE DEF pics
  <1>2. \A k \in 1 .. 2 : pics[k] = Apply(pics[k - 1], es[k], ItemOf)
    <2>1. pics[1] = Apply(pics[0], es[1], ItemOf)
      BY <1>1 DEF A
    <2>2. pics[2] = Apply(pics[1], es[2], ItemOf)
      BY <1>1 DEF B
    <2> QED BY <2>1, <2>2
  <1>3. Replay(pics[0], es, ItemOf) = pics[2]
    BY <1>2, ReplaySteps
  <1> QED BY <1>1, <1>3 DEF A, B

\* The events published account for what has become of the rows.
Accounts(t, es, u) == Replay(Pic(t), es, ItemOf) = Pic(u)

\* The one event of an exchange accounts for its three moves, if there was a
\* row to be moved; without an event the two slots were the same.
LEMMA TellsExchange ==
  ASSUME NEW t, IsTable(t), Distinct(t), ~Occupied(t, Temp),
         NEW s \in Int \ {Temp}, NEW d \in Int \ {Temp}, Occupied(t, s),
         NEW e, Moved(e, s, d), NEW es,
         es = IF Occupied(MoveSlot(t, d, Temp), s) THEN <<e>> ELSE <<>>
  PROVE  /\ Replay(Pic(t), es, ItemOf) = Pic(Swap(t, s, d))
         /\ \A f : Replay(Pic(t), Append(es, f), ItemOf) = Apply(Pic(Swap(t, s, d)), f, ItemOf)
  <1>1. Swap(t, s, d) = Traded(t, s, d) /\ Pic(Traded(t, s, d)) = Exchanged(Pic(t), s, d)
    BY SwapRows, PicTraded
  <1>2. CASE Occupied(MoveSlot(t, d, Temp), s)
    <2>1. es = <<e>>
      BY <1>2
    <2>2. Apply(Pic(t), e, ItemOf) = Pic(Swap(t, s, d))
      BY <1>1, ApplyMoved
    <2>3. Replay(Pic(t), <<e>>, ItemOf) = Apply(Pic(t), e, ItemOf)
      BY ReplayOne
    <2>4. ASSUME NEW f
          PROVE  Replay(Pic(t), Append(es, f), ItemOf) = Apply(Pic(Swap(t, s, d)), f, ItemOf)
      <3>1. <<e>> \in Seq({e, f}) /\ f \in {e, f}
        OBVIOUS
      <3>2. /\ Len(Append(<<e>>, f)) = 2
            /\ Append(<<e>>, f)[1] = e /\ Append(<<e>>, f)[2] = f
        BY <3>1
      <3>3. PICK fs : fs = Append(es, f)
        OBVIOUS
      <3>4. Len(fs) = 2 /\ fs[1] = e /\ fs[2] = f
        BY <2>1, <3>2, <3>3
      <3>5. Replay(Pic(t), fs, ItemOf) = Apply(Apply(Pic(t), e, ItemOf), f, ItemOf)
        BY <3>4, ReplayTwo
      <3> QED BY <2>2, <3>3, <3>5
    <2> QED BY <2>1, <2>2, <2>3, <2>4
  <1>3. CASE ~Occupied(MoveSlot(t, d, Temp), s)
    <2>1. es = <<>> /\ \A f : Append(es, f) = <<f>>
      BY <1>3
    <2>2. s = d
      <3>1. MoveSlot(t, d, Temp) = Reslotted(t, d, Temp)
        BY MoveSlotRows DEF Temp
      <3> QED BY <1>3, <3>1 DEF Occupied, Reslotted
    <2>3. Traded(t, s, d) = t
      <3>1. \A r \in DOMAIN t : t[r] = [item |-> t[r].item, slot |-> t[r].slot]
        BY DEF IsTable
      <3>2. t = [r \in DOMAIN t |-> t[r]]
        BY DEF IsTable
      <3> QED BY <2>2, <3>1, <3>2 DEF Traded
    <2>4. ASSUME NEW f PROVE Replay(Pic(t), <<f>>, ItemOf) = Apply(Pic(t), f, ItemOf)
      BY ReplayOne
    <2> QED BY <1>1, <2>1, <2>3, <2>4, ReplayNone
  <1> QED BY <1>2, <1>3

\* One more row of a create request.
LEMMA PicNextRow ==
  ASSUME NEW t, IsTable(t), Distinct(t), ~Occupied(t, Temp),
         NEW id \in Nat \ {0}, DOMAIN t \subseteq 1 .. id - 1,
         NEW item \in Items, NEW k \in Nat \ {0}, NEW slots,
         \A j \in 1 .. k : slots[j] \in FreeSlots(WithRows(t, id, item, slots, j - 1)),
         NEW v, v = WithRows(t, id, item, slots, k - 1),
         NEW u, u = WithRows(t, id, item, slots, k)
  PROVE  Pic(u) = Shown(Pic(v), slots[k], item)
  <1>1. IsTable(u) /\ Distinct(u)
    BY WithRowsDistinct
  <1>2. IsTable(v) /\ Distinct(v)
    <2>1. k - 1 \in Nat /\ \A j \in 1 .. k - 1 : j \in 1 .. k
      OBVIOUS
    <2>2. \A j \in 1 .. k - 1 : slots[j] \in FreeSlots(WithRows(t, id, item, slots, j - 1))
      BY <2>1
    <2>3. IsTable(WithRows(t, id, item, slots, k - 1)) /\ Distinct(WithRows(t, id, item, slots, k - 1))
      BY <2>1, <2>2, WithRowsDistinct
    <2> QED BY <2>3
  <1>3. PICK r : r = id + k - 1
    OBVIOUS
  <1>4. r \notin DOMAIN t /\ r - id + 1 = k /\ r \in Nat /\ id <= r /\ id + (k - 1) - 1 = r - 1
    BY <1>3
  <1>5. DOMAIN u = DOMAIN t \cup id .. r /\ DOMAIN v = DOMAIN t \cup id .. r - 1
    BY <1>3, <1>4 DEF WithRows
  <1>6. u[r] = [item |-> item, slot |-> slots[k]]
    BY <1>3, <1>4, <1>5 DEF WithRows
  <1>7. \A q \in DOMAIN v : u[q] = v[q]
    BY <1>4, <1>5 DEF WithRows
  <1>8. DOMAIN u = DOMAIN v \cup {r} /\ r \notin DOMAIN v /\ r \in DOMAIN u
    BY <1>4, <1>5
  <1>9. u[r].slot = slots[k] /\ u[r].item = item
    BY <1>6
  <1>10. Pic(u) = Shown(Pic(v), u[r].slot, u[r].item)
    BY <1>1, <1>2, <1>7, <1>8, PicAdded
  <1> QED BY <1>9, <1>10

\* The events of a create request are its rows, in order.
LEMMA TellsRows ==
  ASSUME NEW t, IsTable(t), Distinct(t), ~Occupied(t, Temp),
         NEW id \in Nat \ {0}, DOMAIN t \subseteq 1 .. id - 1,
         NEW item \in Items, NEW n \in Nat, NEW slots,
         \A k \in 1 .. n : slots[k] \in FreeSlots(WithRows(t, id, item, slots, k - 1)),
         NEW es, Len(es) = n,
         \A k \in 1 .. n : es[k].type = "ADD" /\ es[k].item = item /\ es[k].slot = slots[k]
  PROVE  Accounts(t, es, WithRows(t, id, item, slots, n))
  <1> DEFINE pics == [k \in 0 .. n |-> Pic(WithRows(t, id, item, slots, k))]
  <1>1. \A k \in 1 .. n : k \in 0 .. n /\ k - 1 \in 0 .. n /\ k \in Nat \ {0}
    OBVIOUS
  <1>2. \A k \in 0 .. n : pics[k] = Pic(WithRows(t, id, item, slots, k))
    OBVIOUS
  <1> HIDE DEF pics
  <1>3. ASSUME NEW k \in 1 .. n PROVE pics[k] = Apply(pics[k - 1], es[k], ItemOf)
    <2>1. \A j \in 1 .. k : slots[j] \in FreeSlots(WithRows(t, id, item, slots, j - 1))
      OBVIOUS
    <2>2. PICK v, u : /\ v = WithRows(t, id, item, slots, k - 1)
                      /\ u = WithRows(t, id, item, slots, k)
      OBVIOUS
    <2>3. Pic(u) = Shown(Pic(v), slots[k], item)
      BY <1>1, <2>1, <2>2, PicNextRow
    <2>4. pics[k] = Pic(u) /\ pics[k - 1] = Pic(v)
      BY <1>1, <1>2, <2>2
    <2>5. PICK e : e = es[k] /\ e.type = "ADD" /\ e.item = item /\ e.slot = slots[k]
      OBVIOUS
    <2>6. Apply(Pic(v), e, ItemOf) = Shown(Pic(v), e.slot, e.item)
      BY <2>5, ApplyAdded
    <2> QED BY <2>3, <2>4, <2>5, <2>6
  <1>4. Replay(pics[0], es, ItemOf) = pics[n]
    BY <1>3, ReplaySteps
  <1>5. WithRows(t, id, item, slots, 0) = t
    <2>1. id .. id + 0 - 1 = {} /\ t = [r \in DOMAIN t |-> t[r]]
      BY DEF IsTable
    <2> QED BY <2>1 DEF WithRows
  <1>6. pics[0] = Pic(t) /\ pics[n] = Pic(WithRows(t, id, item, slots, n))
    BY <1>2, <1>5
  <1> QED BY <1>4, <1>6 DEF Accounts
=============================================================================
