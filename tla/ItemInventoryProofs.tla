------------------------ MODULE ItemInventoryProofs ------------------------
(***************************************************************************)
(* The safety of a stackable inventory and what its events tell, for every *)
(* item type, every stack size and word, and every quantity of a command.  *)
(***************************************************************************)
EXTENDS ItemInventory, FiniteSetTheorems, WellFoundedInduction, TLAPS

Row == [item : Items, slot : Int, quantity : 0 .. SlotMax]

IsTable(t) == /\ DOMAIN t \subseteq Nat /\ IsFiniteSet(DOMAIN t)
              /\ t \in [DOMAIN t -> Row]

Distinct(t) == \A r, q \in DOMAIN t : t[r].slot = t[q].slot => r = q

\* The same rows, and whatever they hold, in other slots.
Reslots(t, u) ==
  /\ IsTable(u) /\ DOMAIN u = DOMAIN t
  /\ \A r \in DOMAIN t : u[r].item = t[r].item /\ u[r].quantity = t[r].quantity

-----------------------------------------------------------------------------
\* A non-empty set of naturals has a least element, which is its Min.
LEMMA LeastOf ==
  ASSUME NEW R, NEW S, IsWellFoundedOn(R, S), \A x, y \in S : x < y => <<x, y>> \in R,
         NEW T, T \subseteq S, T # {}
  PROVE  \E m \in T : \A k \in T : ~ (k < m)
  <1>1. PICK m \in T : \A k \in T : ~ (<<k, m>> \in R)
    BY ONLY IsWellFoundedOn(R, S), T \subseteq S, T # {}, WFMin, Zenon
  <1>2. ASSUME NEW k \in T PROVE ~ (k < m)
    BY <1>1
  <1> QED BY <1>2

LEMMA NatLeast ==
  ASSUME NEW T, T \subseteq Nat, T # {}
  PROVE  \E m \in T : \A k \in T : m <= k
  <1>1. \A x, y \in Nat : x < y => <<x, y>> \in OpToRel(<, Nat)
    BY DEF OpToRel
  <1>2. \E m \in T : \A k \in T : ~ (k < m)
    BY <1>1, NatLessThanWellFounded, LeastOf
  <1> QED BY <1>2

LEMMA MinOfNat ==
  ASSUME NEW T, T \subseteq Nat, T # {}
  PROVE  Min(T) \in T
  <1>1. \E m \in T : \A k \in T : m <= k
    BY NatLeast
  <1> QED BY <1>1 DEF Min

LEMMA MinOfTwo ==
  ASSUME NEW a \in Int, NEW b \in Int
  PROVE  Min({a, b}) = IF a <= b THEN a ELSE b
  <1>1. \E m \in {a, b} : \A k \in {a, b} : m <= k
    OBVIOUS
  <1>2. Min({a, b}) \in {a, b} /\ \A k \in {a, b} : Min({a, b}) <= k
    BY <1>1 DEF Min
  <1> QED BY <1>2

-----------------------------------------------------------------------------
(***************************************************************************)
(* The moves.                                                              *)
(***************************************************************************)

\* The row a query by a slot finds is there, unless the slot is zero.
LEMMA FoundIs ==
  ASSUME NEW t, IsTable(t), NEW s, Matches(t, s) # {}
  PROVE  Found(t, s) \in DOMAIN t /\ (s # 0 => t[Found(t, s)].slot = s)
  <1>1. Found(t, s) \in Matches(t, s)
    <2>1. Matches(t, s) \subseteq Nat
      BY DEF Matches, IsTable
    <2> QED BY <2>1, MinOfNat DEF Found
  <1> QED BY <1>1 DEF Matches

\* A move changes slots only, of at most the row it finds.
LEMMA MoveRowReslots ==
  ASSUME NEW t, IsTable(t), NEW s \in Int, NEW d \in Int
  PROVE  /\ Reslots(t, MoveRow(t, s, d))
         /\ \A r \in DOMAIN t :
              IF Matches(t, s) # {} /\ r = Found(t, s)
              THEN MoveRow(t, s, d)[r].slot = d
              ELSE MoveRow(t, s, d)[r] = t[r]
  <1>1. CASE Matches(t, s) = {}
    BY <1>1 DEF MoveRow, Reslots
  <1>2. CASE Matches(t, s) # {}
    <2>1. PICK x \in DOMAIN t : x = Found(t, s)
      BY <1>2, FoundIs
    <2>2. MoveRow(t, s, d) = [t EXCEPT ![x].slot = d]
      BY <1>2, <2>1 DEF MoveRow
    <2> DEFINE u == [t EXCEPT ![x].slot = d]
    <2>3. t \in [DOMAIN t -> Row]
      BY DEF IsTable
    <2>4. \A r \in DOMAIN t : t[r] \in Row
      BY <2>3
    <2>5. /\ DOMAIN u = DOMAIN t
          /\ \A r \in DOMAIN t : r # x => u[r] = t[r]
          /\ u[x] = [t[x] EXCEPT !.slot = d]
      OBVIOUS
    <2>6. /\ u[x] \in Row /\ u[x].slot = d
          /\ u[x].item = t[x].item /\ u[x].quantity = t[x].quantity
      BY <2>4, <2>5 DEF Row
    <2>7. u \in [DOMAIN t -> Row]
      BY <2>3, <2>4, <2>5, <2>6
    <2> HIDE DEF u
    <2>8. IsTable(u)
      BY <2>5, <2>7 DEF IsTable
    <2> QED BY <1>2, <2>1, <2>2, <2>5, <2>6, <2>8 DEF Reslots, u
  <1> QED BY <1>1, <1>2

\* With distinct slots it is an update of every row in the slot.
LEMMA MoveRowRows ==
  ASSUME NEW t, IsTable(t), Distinct(t), NEW s \in Int \ {0}, NEW d \in Int
  PROVE  \A r \in DOMAIN t :
           MoveRow(t, s, d)[r].slot = IF t[r].slot = s THEN d ELSE t[r].slot
  <1>1. ASSUME NEW r \in DOMAIN t, t[r].slot = s
        PROVE  Matches(t, s) # {} /\ r = Found(t, s)
    <2>1. Matches(t, s) # {}
      BY <1>1 DEF Matches
    <2> QED BY <1>1, <2>1, FoundIs DEF Distinct
  <1>2. ASSUME NEW r \in DOMAIN t, t[r].slot # s
        PROVE  ~(Matches(t, s) # {} /\ r = Found(t, s))
    BY <1>2, FoundIs
  <1> QED BY <1>1, <1>2, MoveRowReslots

\* and keeps them so if the row goes where nobody is.
LEMMA MoveRowDistinct ==
  ASSUME NEW t, IsTable(t), Distinct(t), NEW s \in Int \ {0}, NEW d \in Int,
         ~Occupied(t, d)
  PROVE  Distinct(MoveRow(t, s, d))
  <1>1. DOMAIN MoveRow(t, s, d) = DOMAIN t
    BY MoveRowReslots DEF Reslots
  <1> QED BY <1>1, MoveRowRows DEF Distinct, Occupied

Slot == Int \ {0, Temp}

\* e is t with the rows of two slots exchanged.
Traded(t, e, s, d) ==
  /\ IsTable(e) /\ Distinct(e) /\ DOMAIN e = DOMAIN t
  /\ \A r \in DOMAIN t : e[r].item = t[r].item /\ e[r].quantity = t[r].quantity
  /\ \A r \in DOMAIN t :
       e[r].slot = IF t[r].slot = s THEN d ELSE IF t[r].slot = d THEN s ELSE t[r].slot

\* The three moves exchange two slots, if none of them is zero and the parking
\* slot is free to begin with.
LEMMA ExchangeRows ==
  ASSUME NEW t, IsTable(t), Distinct(t), ~Occupied(t, Temp), NEW s \in Slot, NEW d \in Slot
  PROVE  LET e == Exchange(t, s, d) IN
         /\ ~Occupied(e, Temp) /\ Traded(t, e, s, d)
         /\ \A r \in DOMAIN t : t[r].slot \notin {s, d} => e[r] = t[r]
  <1> DEFINE a == MoveRow(t, d, Temp)
             b == MoveRow(a, s, d)
             e == MoveRow(b, Temp, s)
  <1>0. Temp \in Int \ {0} /\ s \in Int \ {0, Temp} /\ d \in Int \ {0, Temp}
    BY DEF Temp, Slot
  <1>1. /\ Reslots(t, a) /\ Distinct(a)
        /\ \A r \in DOMAIN t : a[r].slot = IF t[r].slot = d THEN Temp ELSE t[r].slot
    BY <1>0, MoveRowReslots, MoveRowRows, MoveRowDistinct
  <1> HIDE DEF a
  <1>2. ~Occupied(a, d)
    BY <1>0, <1>1 DEF Occupied, Reslots
  <1>3. /\ Reslots(a, b) /\ Distinct(b)
        /\ \A r \in DOMAIN t : b[r].slot = IF a[r].slot = s THEN d ELSE a[r].slot
    BY <1>0, <1>1, <1>2, MoveRowReslots, MoveRowRows, MoveRowDistinct DEF Reslots
  <1> HIDE DEF b
  <1>4. ~Occupied(b, s)
    BY <1>0, <1>1, <1>2, <1>3 DEF Occupied, Reslots
  <1>5. /\ Reslots(b, e) /\ Distinct(e)
        /\ \A r \in DOMAIN t : e[r].slot = IF b[r].slot = Temp THEN s ELSE b[r].slot
    BY <1>0, <1>1, <1>3, <1>4, MoveRowReslots, MoveRowRows, MoveRowDistinct DEF Reslots
  <1> HIDE DEF e
  <1>6. DOMAIN e = DOMAIN t /\ IsTable(e)
    BY <1>1, <1>3, <1>5 DEF Reslots
  <1>7. \A r \in DOMAIN t : t[r].slot # Temp
    BY DEF Occupied
  <1>8. ~Occupied(e, Temp)
    BY <1>0, <1>1, <1>3, <1>5, <1>6 DEF Occupied
  <1>9. ASSUME NEW r \in DOMAIN t, t[r].slot \notin {s, d} PROVE e[r] = t[r]
    <2>1. e[r].slot = t[r].slot
      BY <1>1, <1>3, <1>5, <1>7, <1>9
    <2>2. e[r].item = t[r].item /\ e[r].quantity = t[r].quantity
      BY <1>1, <1>3, <1>5 DEF Reslots
    <2>3. e[r] \in Row /\ t[r] \in Row
      BY <1>6 DEF IsTable
    <2> QED BY <2>1, <2>2, <2>3 DEF Row
  <1>10. Exchange(t, s, d) = e
    BY DEF Exchange, ExchangeUnrestored, a, b, e
  <1>11. ASSUME NEW r \in DOMAIN t
         PROVE  /\ e[r].item = t[r].item /\ e[r].quantity = t[r].quantity
                /\ e[r].slot = IF t[r].slot = s THEN d ELSE IF t[r].slot = d THEN s ELSE t[r].slot
    <2>1. e[r].item = t[r].item /\ e[r].quantity = t[r].quantity
      BY <1>1, <1>3, <1>5 DEF Reslots
    <2>2. e[r].slot = IF t[r].slot = s THEN d ELSE IF t[r].slot = d THEN s ELSE t[r].slot
      BY <1>0, <1>1, <1>3, <1>5, <1>7
    <2> QED BY <2>1, <2>2
  <1>12. Traded(t, e, s, d)
    BY <1>5, <1>6, <1>11 DEF Traded
  <1> QED BY <1>8, <1>9, <1>10, <1>12

-----------------------------------------------------------------------------
(***************************************************************************)
(* A create request.                                                       *)
(***************************************************************************)
Quantity == 0 .. Word - 1

\* What is left of a request after one stack.
LeftAfter(old, running) ==
  IF Fills(old, running)
  THEN (running - (NewQuantity(old, running) - old)) % Word
  ELSE running

\* A stack is filled up to the maximum, also by a request that wraps the sum.
LEMMA StackFills ==
  ASSUME NEW old \in 0 .. SlotMax, NEW running \in Quantity
  PROVE  /\ NewQuantity(old, running) \in 0 .. SlotMax
         /\ LeftAfter(old, running) \in Quantity
  <1>1. SlotMax \in Nat /\ Word \in Nat \ {0} /\ SlotMax < Word
    BY ItemAssumption
  <1>2. (old + running) % Word \in Nat
    BY <1>1 DEF Quantity
  <1>3. NewQuantity(old, running) \in 0 .. SlotMax
    BY <1>1, <1>2, MinOfTwo DEF NewQuantity
  <1>4. \A x \in Int : x % Word \in Quantity
    BY <1>1 DEF Quantity
  <1>5. running - (NewQuantity(old, running) - old) \in Int
    BY <1>3 DEF Quantity
  <1> QED BY <1>3, <1>4, <1>5 DEF LeftAfter

\* What is left after each of the first n stacks, which hold olds.
Remains(f, olds, quantity, n) ==
  /\ f \in [0 .. n -> Quantity]
  /\ f = [k \in 0 .. n |-> IF k = 0 THEN quantity ELSE LeftAfter(olds[k], f[k - 1])]

LEMMA OneMoreStack ==
  ASSUME NEW quantity \in Quantity, NEW n \in Nat, NEW olds,
         \A k \in 1 .. n + 1 : olds[k] \in 0 .. SlotMax,
         NEW f, Remains(f, olds, quantity, n)
  PROVE  \E g : Remains(g, olds, quantity, n + 1)
  <1> DEFINE end == LeftAfter(olds[n + 1], f[n])
             g == [k \in 0 .. n + 1 |-> IF k = n + 1 THEN end ELSE f[k]]
  <1>1. end \in Quantity
    <2>1. f[n] \in Quantity /\ olds[n + 1] \in 0 .. SlotMax
      BY DEF Remains
    <2> QED BY <2>1, StackFills
  <1> HIDE DEF end
  <1>2. g \in [0 .. n + 1 -> Quantity]
    BY <1>1 DEF Remains
  <1>3. ASSUME NEW k \in 0 .. n + 1
        PROVE  g[k] = IF k = 0 THEN quantity ELSE LeftAfter(olds[k], g[k - 1])
    <2>1. CASE k = n + 1
      <3>1. k # 0 /\ k - 1 = n /\ n \in 0 .. n + 1 /\ n # n + 1
        BY <2>1
      <3>2. g[k] = end /\ g[k - 1] = f[n]
        BY <2>1, <3>1
      <3> QED BY <2>1, <3>1, <3>2 DEF end
    <2>2. CASE k # n + 1
      <3>1. k \in 0 .. n /\ g[k] = f[k]
        BY <2>2
      <3>2. k # 0 => k - 1 \in 0 .. n /\ k - 1 \in 0 .. n + 1 /\ g[k - 1] = f[k - 1]
        BY <3>1
      <3>3. f[k] = IF k = 0 THEN quantity ELSE LeftAfter(olds[k], f[k - 1])
        BY <3>1 DEF Remains
      <3> QED BY <3>1, <3>2, <3>3
    <2> QED BY <2>1, <2>2
  <1>4. g = [k \in 0 .. n + 1 |-> IF k = 0 THEN quantity ELSE LeftAfter(olds[k], g[k - 1])]
    BY <1>3
  <1> HIDE DEF g
  <1> QED BY <1>2, <1>4 DEF Remains

LEMMA RemainsExist ==
  ASSUME NEW quantity \in Quantity, NEW size \in Nat, NEW olds,
         \A k \in 1 .. size : olds[k] \in 0 .. SlotMax
  PROVE  \E f : Remains(f, olds, quantity, size)
  <1> DEFINE T == {n \in 0 .. size : ~ \E f : Remains(f, olds, quantity, n)}
  <1>1. SUFFICES ASSUME T # {} PROVE FALSE
    OBVIOUS
  <1>2. PICK n \in T : \A k \in T : n <= k
    <2>1. T \subseteq Nat
      OBVIOUS
    <2> HIDE DEF T
    <2> QED BY <1>1, <2>1, NatLeast
  <1>3. n # 0
    <2> DEFINE f == [k \in 0 .. 0 |-> quantity]
    <2>1. f \in [0 .. 0 -> Quantity]
      OBVIOUS
    <2>2. f = [k \in 0 .. 0 |-> IF k = 0 THEN quantity ELSE LeftAfter(olds[k], f[k - 1])]
      OBVIOUS
    <2> HIDE DEF f
    <2>3. Remains(f, olds, quantity, 0)
      BY <2>1, <2>2 DEF Remains
    <2> QED BY <1>2, <2>3
  <1>4. n \in Nat /\ n - 1 \in Nat /\ n - 1 \in 0 .. size /\ n <= size /\ (n - 1) + 1 = n
    BY <1>2, <1>3
  <1>5. PICK f : Remains(f, olds, quantity, n - 1)
    BY <1>2, <1>4
  <1>6. \A k \in 1 .. (n - 1) + 1 : olds[k] \in 0 .. SlotMax
    BY <1>4
  <1>7. \E g : Remains(g, olds, quantity, (n - 1) + 1)
    BY <1>4, <1>5, <1>6, OneMoreStack
  <1> QED BY <1>2, <1>4, <1>7

\* left is what the request still has after each of the stacks of order.
LeftBy(t, order, quantity, left) ==
  /\ left[0] = quantity
  /\ \A k \in 0 .. Len(order) : left[k] \in Quantity
  /\ \A k \in 1 .. Len(order) : left[k] = LeftAfter(t[order[k]].quantity, left[k - 1])

\* It is a quantity all the way.
LEMMA LeftTypes ==
  ASSUME NEW t, NEW order, NEW n \in Nat, n = Len(order), NEW quantity \in Quantity,
         \A k \in 1 .. n : t[order[k]].quantity \in 0 .. SlotMax
  PROVE  LeftBy(t, order, quantity, Left(t, order, quantity))
  <1> DEFINE F(f) == f = [k \in 0 .. n |->
                            IF k = 0 THEN quantity
                            ELSE LeftAfter(t[order[k]].quantity, f[k - 1])]
             f == CHOOSE g : F(g)
             olds == [k \in 1 .. n |-> t[order[k]].quantity]
  <1>1. Left(t, order, quantity) = f
    BY DEF Left, LeftAfter
  <1>2. \E g : F(g) /\ g \in [0 .. n -> Quantity]
    <2>1. \A k \in 1 .. n : olds[k] = t[order[k]].quantity
      OBVIOUS
    <2> HIDE DEF olds
    <2>2. PICK g : Remains(g, olds, quantity, n)
      BY <2>1, RemainsExist
    <2>3. \A k \in 0 .. n : g[k] = IF k = 0 THEN quantity ELSE LeftAfter(olds[k], g[k - 1])
      BY <2>2 DEF Remains
    <2>4. \A k \in 0 .. n : g[k] = IF k = 0 THEN quantity
                                  ELSE LeftAfter(t[order[k]].quantity, g[k - 1])
      BY <2>1, <2>3
    <2>5. g \in [0 .. n -> Quantity]
      BY <2>2 DEF Remains
    <2> QED BY <2>4, <2>5
  <1>3. F(f)
    <2> HIDE DEF F
    <2> QED BY <1>2
  <1> HIDE DEF f
  <1>4. ASSUME NEW g, F(g), g \in [0 .. n -> Quantity]
        PROVE  \A k \in 0 .. n : f[k] = g[k]
    <2> DEFINE T == {k \in 0 .. n : f[k] # g[k]}
    <2> SUFFICES ASSUME T # {} PROVE FALSE
      OBVIOUS
    <2>1. PICK m \in T : \A k \in T : m <= k
      <3>1. T \subseteq Nat
        OBVIOUS
      <3> HIDE DEF T
      <3> QED BY <3>1, NatLeast
    <2>2. f[0] = quantity /\ g[0] = quantity
      BY <1>3, <1>4
    <2>3. m # 0 /\ m - 1 \in 0 .. n /\ m \in 0 .. n
      BY <2>1, <2>2
    <2>4. f[m - 1] = g[m - 1]
      BY <2>1, <2>3
    <2>5. f[m] = LeftAfter(t[order[m]].quantity, f[m - 1])
      BY <1>3, <2>3
    <2>6. g[m] = LeftAfter(t[order[m]].quantity, g[m - 1])
      BY <1>4, <2>3
    <2> QED BY <2>1, <2>4, <2>5, <2>6
  <1>5. \A k \in 0 .. n : f[k] \in Quantity
    BY <1>2, <1>4
  <1>6. \A k \in 0 .. n : f[k] = IF k = 0 THEN quantity
                                  ELSE LeftAfter(t[order[k]].quantity, f[k - 1])
    BY <1>3
  <1>7. f[0] = quantity
    BY <1>6
  <1>8. \A k \in 1 .. n : f[k] = LeftAfter(t[order[k]].quantity, f[k - 1])
    BY <1>6
  <1>9. LeftBy(t, order, quantity, f)
    BY <1>5, <1>7, <1>8 DEF LeftBy
  <1> QED BY <1>1, <1>9

\* The first k of the new stacks hold what is left, up to their size.
Holds(left, k) == IF k * SlotMax <= left THEN k * SlotMax ELSE left

\* Each new stack holds at most a stack, and all of them what is left.
LEMMA PortionsHold ==
  ASSUME NEW left \in Nat, NEW n, n = Len(Portions(left))
  PROVE  /\ n \in Nat
         /\ Holds(left, 0) = 0 /\ Holds(left, n) = left
         /\ \A k \in 1 .. n :
              /\ Holds(left, k - 1) \in Nat /\ Holds(left, k) \in Nat
              /\ Portions(left)[k] = Holds(left, k) - Holds(left, k - 1)
              /\ Portions(left)[k] \in 0 .. SlotMax
  <1>1. SlotMax \in Nat \ {0}
    BY ItemAssumption
  <1> DEFINE m == (left + SlotMax - 1) \div SlotMax
             p == [k \in 1 .. m |-> Min({left - (k - 1) * SlotMax, SlotMax})]
  <1>2. /\ m \in Nat /\ m * SlotMax \in Int
        /\ m * SlotMax <= left + SlotMax - 1 /\ left <= m * SlotMax
    <2>1. PICK x \in Nat : x = left + SlotMax - 1
      BY <1>1
    <2>2. x \div SlotMax \in Nat /\ x = SlotMax * (x \div SlotMax) + (x % SlotMax)
          /\ x % SlotMax \in 0 .. SlotMax - 1
      BY <1>1
    <2> QED BY <1>1, <2>1, <2>2
  <1>3. Portions(left) = p
    BY DEF Portions
  <1> HIDE DEF m
  <1>4. n = m
    BY <1>2, <1>3
  <1>5. Holds(left, 0) = 0
    BY <1>1 DEF Holds
  <1>6. Holds(left, n) = left
    BY <1>2, <1>4 DEF Holds
  <1>7. ASSUME NEW k \in 1 .. n
        PROVE  /\ Holds(left, k - 1) \in Nat /\ Holds(left, k) \in Nat
               /\ p[k] = Holds(left, k) - Holds(left, k - 1) /\ p[k] \in 0 .. SlotMax
    <2>1. PICK d \in Nat : m = k + d
      <3>1. m - k \in Nat /\ m = k + (m - k)
        BY <1>2, <1>4
      <3> QED BY <3>1
    <2>2. PICK b \in Nat : b = k * SlotMax
      BY <1>1, <1>4
    <2>3. b <= m * SlotMax
      <3>1. m * SlotMax = k * SlotMax + d * SlotMax /\ d * SlotMax \in Nat
        BY <1>1, <1>4, <2>1
      <3> QED BY <2>2, <3>1
    <2>4. (k - 1) * SlotMax = b - SlotMax /\ b - SlotMax \in Nat
      <3>1. PICK j \in Nat : j = k - 1
        BY <1>4
      <3>2. k = j + 1 /\ k * SlotMax = j * SlotMax + SlotMax /\ j * SlotMax \in Nat
        BY <1>1, <3>1
      <3> QED BY <1>1, <2>2, <3>1, <3>2
    <2>5. b - SlotMax <= left
      BY <1>1, <1>2, <2>2, <2>3
    <2>6. Holds(left, k - 1) = b - SlotMax
      BY <2>4, <2>5 DEF Holds
    <2>7. Holds(left, k) = IF b <= left THEN b ELSE left
      BY <2>2 DEF Holds
    <2>8. p[k] = Min({left - (b - SlotMax), SlotMax})
      BY <1>4, <2>4
    <2>9. PICK y \in Int : y = left - (b - SlotMax)
      BY <1>1
    <2>10. p[k] = IF y <= SlotMax THEN y ELSE SlotMax
      BY <1>1, <2>8, <2>9, MinOfTwo
    <2> HIDE DEF p
    <2> QED BY <1>1, <2>4, <2>5, <2>6, <2>7, <2>9, <2>10
  <1> QED BY <1>2, <1>3, <1>4, <1>5, <1>6, <1>7

\* What MinFreeSlot returns is a slot of the bag that no row has.
LEMMA FreeSlotIsFree ==
  ASSUME NEW t, IsFiniteSet(DOMAIN t), NEW n \in FreeSlots(t)
  PROVE  n \in Nat \ {0} /\ ~Occupied(t, n)
  <1>1. Cardinality(DOMAIN t) \in Nat
    BY FS_CardinalityType
  <1> QED BY <1>1 DEF FreeSlots

\* The rows of one request, each in a slot that was free when the ones before
\* it were in the table.
LEMMA WithStacksRows ==
  ASSUME NEW t, IsTable(t), nextId \in Nat \ {0}, DOMAIN t \subseteq 1 .. nextId - 1,
         NEW item \in Items, NEW n \in Nat, NEW portions, NEW slots,
         \A k \in 1 .. n : portions[k] \in 0 .. SlotMax,
         \A k \in 1 .. n :
           slots[k] \in FreeSlots(WithStacks(t, item, portions, slots, k - 1))
  PROVE  LET w == WithStacks(t, item, portions, slots, n) IN
         /\ IsTable(w) /\ DOMAIN w \subseteq 1 .. nextId + n - 1
         /\ \A r \in DOMAIN t : r \in DOMAIN w /\ w[r] = t[r]
         /\ Distinct(t) /\ ~Occupied(t, Temp) => Distinct(w) /\ ~Occupied(w, Temp)
  <1> DEFINE w(k) == WithStacks(t, item, portions, slots, k)
  <1>1. ASSUME NEW k \in 0 .. n
        PROVE  /\ DOMAIN w(k) = DOMAIN t \cup nextId .. nextId + k - 1
               /\ \A r \in DOMAIN t : w(k)[r] = t[r]
               /\ \A r \in nextId .. nextId + k - 1 :
                    /\ w(k)[r] = [item |-> w(k)[r].item, slot |-> w(k)[r].slot,
                                  quantity |-> w(k)[r].quantity]
                    /\ w(k)[r].item = item /\ w(k)[r].slot = slots[r - nextId + 1]
                    /\ w(k)[r].quantity = portions[r - nextId + 1]
    <2>1. \A r \in nextId .. nextId + k - 1 : r \notin DOMAIN t
      OBVIOUS
    <2>2. /\ DOMAIN w(k) = DOMAIN t \cup nextId .. nextId + k - 1
          /\ \A r \in DOMAIN t : w(k)[r] = t[r]
      BY DEF WithStacks
    <2>3. ASSUME NEW r \in nextId .. nextId + k - 1
          PROVE  /\ w(k)[r] = [item |-> w(k)[r].item, slot |-> w(k)[r].slot,
                               quantity |-> w(k)[r].quantity]
                 /\ w(k)[r].item = item /\ w(k)[r].slot = slots[r - nextId + 1]
                 /\ w(k)[r].quantity = portions[r - nextId + 1]
      <3>1. PICK s, p : s = slots[r - nextId + 1] /\ p = portions[r - nextId + 1]
        OBVIOUS
      <3>2. w(k)[r] = [item |-> item, slot |-> s, quantity |-> p]
        BY <2>1, <3>1 DEF WithStacks
      <3> HIDE DEF w
      <3> QED BY <3>1, <3>2
    <2> HIDE DEF w
    <2> QED BY <2>2, <2>3
  <1>2. ASSUME NEW k \in 0 .. n
        PROVE  IsFiniteSet(DOMAIN w(k)) /\ DOMAIN w(k) \subseteq 1 .. nextId + k - 1
    <2> DEFINE D == DOMAIN w(k)
    <2>1. D = DOMAIN t \cup nextId .. nextId + k - 1
      BY <1>1
    <2> HIDE DEF D
    <2>2. D \subseteq 1 .. nextId + k - 1
      BY <2>1
    <2>3. IsFiniteSet(1 .. nextId + k - 1)
      BY FS_Interval
    <2>4. IsFiniteSet(D)
      BY <2>2, <2>3, FS_Subset
    <2> QED BY <2>2, <2>4 DEF D
  <1>3. \A k \in 1 .. n : slots[k] \in FreeSlots(w(k - 1)) /\ k - 1 \in 0 .. n
    OBVIOUS
  <1>4. n \in 0 .. n
    OBVIOUS
  <1> HIDE DEF w
  <1>5. ASSUME NEW k \in 1 .. n
        PROVE  /\ slots[k] \in Nat \ {0}
               /\ \A r \in DOMAIN t : t[r].slot # slots[k]
               /\ \A j \in 1 .. n : j < k => slots[j] # slots[k]
    <2>1. slots[k] \in Nat \ {0} /\ ~Occupied(w(k - 1), slots[k])
      <3>1. IsFiniteSet(DOMAIN w(k - 1)) /\ slots[k] \in FreeSlots(w(k - 1))
        BY <1>2, <1>3
      <3> QED BY <3>1, FreeSlotIsFree
    <2>2. \A r \in DOMAIN w(k - 1) : w(k - 1)[r].slot # slots[k]
      BY <2>1 DEF Occupied
    <2>3. k - 1 \in 0 .. n
      OBVIOUS
    <2>4. ASSUME NEW j \in 1 .. n, j < k PROVE slots[j] # slots[k]
      <3>1. PICK r \in nextId .. nextId + (k - 1) - 1 : r - nextId + 1 = j
        <4>1. /\ nextId + j - 1 \in nextId .. nextId + (k - 1) - 1
              /\ (nextId + j - 1) - nextId + 1 = j
          BY <2>4
        <4> QED BY <4>1
      <3>2. r \in DOMAIN w(k - 1) /\ w(k - 1)[r].slot = slots[r - nextId + 1]
        BY <1>1, <2>3
      <3> QED BY <2>2, <3>1, <3>2
    <2> QED BY <1>1, <2>1, <2>2, <2>3, <2>4
  <1> DEFINE v == w(n)
  <1>6. /\ DOMAIN v = DOMAIN t \cup nextId .. nextId + n - 1
        /\ \A r \in DOMAIN t : v[r] = t[r]
        /\ \A r \in nextId .. nextId + n - 1 :
             /\ v[r] = [item |-> v[r].item, slot |-> v[r].slot, quantity |-> v[r].quantity]
             /\ v[r].item = item /\ v[r].slot = slots[r - nextId + 1]
             /\ v[r].quantity = portions[r - nextId + 1]
    BY <1>1, <1>4
  <1>7. IsFiniteSet(DOMAIN v) /\ DOMAIN v \subseteq 1 .. nextId + n - 1
    BY <1>2, <1>4
  <1>8. v = [r \in DOMAIN v |-> v[r]]
    BY DEF w, WithStacks
  <1> HIDE DEF v
  <1>9. \A r \in nextId .. nextId + n - 1 : r - nextId + 1 \in 1 .. n
    OBVIOUS
  <1>10. IsTable(v)
    <2>1. \A r \in DOMAIN t : v[r] \in Row
      BY <1>6 DEF IsTable
    <2>2. ASSUME NEW r \in nextId .. nextId + n - 1 PROVE v[r] \in Row
      <3>1. v[r].item \in Items /\ v[r].slot \in Int /\ v[r].quantity \in 0 .. SlotMax
        <4>1. PICK k \in 1 .. n : k = r - nextId + 1
          BY <1>9
        <4>2. slots[k] \in Int /\ portions[k] \in 0 .. SlotMax
          BY <1>5
        <4> QED BY <1>6, <4>1, <4>2
      <3>2. v[r] = [item |-> v[r].item, slot |-> v[r].slot, quantity |-> v[r].quantity]
        BY <1>6
      <3> QED BY <3>1, <3>2 DEF Row
    <2>3. \A r \in DOMAIN v : v[r] \in Row
      BY <1>6, <2>1, <2>2
    <2>4. v \in [DOMAIN v -> Row]
      BY <1>8, <2>3
    <2> QED BY <1>7, <2>4 DEF IsTable
  <1>11. ASSUME Distinct(t), ~Occupied(t, Temp)
         PROVE  Distinct(v) /\ ~Occupied(v, Temp)
    <2>1. \A r \in nextId .. nextId + n - 1 : v[r].slot = slots[r - nextId + 1]
      BY <1>6
    <2>2. ASSUME NEW r \in DOMAIN v, NEW q \in DOMAIN v, v[r].slot = v[q].slot, r # q
          PROVE  FALSE
      <3>1. CASE r \in DOMAIN t /\ q \in DOMAIN t
        BY <1>6, <1>11, <2>2, <3>1 DEF Distinct
      <3>2. CASE r \in DOMAIN t /\ q \notin DOMAIN t
        BY <1>5, <1>6, <1>9, <2>1, <2>2, <3>2
      <3>3. CASE r \notin DOMAIN t /\ q \in DOMAIN t
        BY <1>5, <1>6, <1>9, <2>1, <2>2, <3>3
      <3>4. CASE r \notin DOMAIN t /\ q \notin DOMAIN t
        <4>1. r - nextId + 1 \in 1 .. n /\ q - nextId + 1 \in 1 .. n
          BY <1>6, <1>9, <3>4
        <4>2. slots[r - nextId + 1] = slots[q - nextId + 1]
          BY <1>6, <2>1, <2>2, <3>4
        <4>3. r - nextId + 1 # q - nextId + 1
          BY <1>6, <2>2, <3>4
        <4> QED BY <1>5, <4>1, <4>2, <4>3
      <3> QED BY <3>1, <3>2, <3>3, <3>4
    <2>3. \A r \in DOMAIN v : v[r].slot # Temp
      BY <1>5, <1>6, <1>9, <1>11, <2>1 DEF Occupied, Temp
    <2> QED BY <2>2, <2>3 DEF Distinct, Occupied
  <1> QED BY <1>6, <1>7, <1>10, <1>11 DEF v, w

-----------------------------------------------------------------------------
(***************************************************************************)
(* Sums of quantities.  A fold over a set is the value, at that set, of a  *)
(* chosen function on its subsets.                                         *)
(***************************************************************************)
\* What a set of rows holds.
Total(t, S) == MapThenSumSet(LAMBDA r : t[r].quantity, S)

Pick(s) == CHOOSE x \in s : TRUE

\* f sums every set of Ds up to the row that is picked first.
SumsUp(t, Ds, f) ==
  f = [s \in Ds |-> IF s = {} THEN 0 ELSE t[Pick(s)].quantity + f[s \ {Pick(s)}]]

SumOf(t, S) == CHOOSE f : SumsUp(t, SUBSET S, f)

LEMMA SumIs ==
  ASSUME NEW t, NEW S
  PROVE  Total(t, S) = SumOf(t, S)[S]
  BY DEF Total, MapThenSumSet, MapThenFoldSet, Pick, SumOf, SumsUp

\* The subsets of up to n elements.
Small(S, n) == {s \in SUBSET S : Cardinality(s) <= n}

LEMMA PickIn ==
  ASSUME NEW S, IsFiniteSet(S), NEW n \in Nat, NEW s \in Small(S, n), s # {}
  PROVE  Pick(s) \in s /\ n - 1 \in Nat /\ s \ {Pick(s)} \in Small(S, n - 1)
  <1>1. IsFiniteSet(s) /\ Cardinality(s) \in Nat
    BY FS_Subset, FS_CardinalityType DEF Small
  <1>2. Cardinality(s) # 0
    BY <1>1, FS_EmptySet
  <1>3. Pick(s) \in s
    BY DEF Pick
  <1>4. Cardinality(s \ {Pick(s)}) = Cardinality(s) - 1
    BY <1>1, <1>3, FS_RemoveElement
  <1> QED BY <1>1, <1>2, <1>3, <1>4 DEF Small

LEMMA OneSizeMore ==
  ASSUME NEW t, NEW S, IsFiniteSet(S), NEW n \in Nat, n - 1 \in Nat,
         NEW f, SumsUp(t, Small(S, n - 1), f)
  PROVE  \E g : SumsUp(t, Small(S, n), g)
  <1> DEFINE D == Small(S, n)
             C == Small(S, n - 1)
             first(s) == t[Pick(s)].quantity
             g == [s \in D |-> IF s = {} THEN 0 ELSE first(s) + f[s \ {Pick(s)}]]
  <1>1. \A s \in D : s # {} => s \ {Pick(s)} \in C
    BY PickIn
  <1>2. ASSUME NEW s \in C PROVE s \in D /\ g[s] = f[s]
    <2>1. s \in D
      <3>1. Cardinality(s) \in Nat
        BY FS_Subset, FS_CardinalityType DEF Small
      <3> QED BY <3>1 DEF Small
    <2>2. f[s] = IF s = {} THEN 0 ELSE first(s) + f[s \ {Pick(s)}]
      BY DEF SumsUp
    <2> QED BY <2>1, <2>2
  <1>3. ASSUME NEW s \in D
        PROVE  g[s] = IF s = {} THEN 0 ELSE first(s) + g[s \ {Pick(s)}]
    <2>1. CASE s = {}
      BY <2>1
    <2>2. CASE s # {}
      <3>1. g[s] = first(s) + f[s \ {Pick(s)}]
        BY <2>2
      <3>2. g[s \ {Pick(s)}] = f[s \ {Pick(s)}]
        BY <1>1, <1>2, <2>2
      <3> QED BY <2>2, <3>1, <3>2
    <2> QED BY <2>1, <2>2
  <1>4. g = [s \in D |-> IF s = {} THEN 0 ELSE first(s) + g[s \ {Pick(s)}]]
    BY <1>3
  <1> HIDE DEF g
  <1> QED BY <1>4 DEF SumsUp

LEMMA SumsExist ==
  ASSUME NEW t, NEW S, IsFiniteSet(S)
  PROVE  SumsUp(t, SUBSET S, SumOf(t, S))
  <1> DEFINE T == {n \in Nat : ~ \E f : SumsUp(t, Small(S, n), f)}
  <1>1. T = {}
    <2>1. SUFFICES ASSUME T # {} PROVE FALSE
      OBVIOUS
    <2>2. PICK n \in T : \A k \in T : n <= k
      <3>1. T \subseteq Nat
        OBVIOUS
      <3> HIDE DEF T
      <3> QED BY <2>1, <3>1, NatLeast
    <2>3. n # 0
      <3> DEFINE f == [s \in Small(S, 0) |-> 0]
      <3>1. \A s \in Small(S, 0) : s = {}
        <4>1. ASSUME NEW s \in Small(S, 0), s # {} PROVE FALSE
          <5>1. 0 - 1 \in Nat
            BY <4>1, PickIn
          <5> QED BY <5>1
        <4> QED BY <4>1
      <3>2. f = [s \in Small(S, 0) |-> IF s = {} THEN 0
                                       ELSE t[Pick(s)].quantity + f[s \ {Pick(s)}]]
        BY <3>1
      <3> HIDE DEF f
      <3> QED BY <2>2, <3>2 DEF SumsUp
    <2>4. n \in Nat /\ n - 1 \in Nat /\ n - 1 \notin T
      BY <2>2, <2>3
    <2>5. PICK f : SumsUp(t, Small(S, n - 1), f)
      BY <2>4
    <2> QED BY <2>2, <2>4, <2>5, OneSizeMore
  <1>2. PICK n \in Nat : n = Cardinality(S)
    BY FS_CardinalityType
  <1>3. Small(S, n) = SUBSET S
    BY <1>2, FS_Subset DEF Small
  <1>4. \E f : SumsUp(t, SUBSET S, f)
    <2>1. \E f : SumsUp(t, Small(S, n), f)
      BY <1>1
    <2> QED BY <1>3, <2>1
  <1> DEFINE P(f) == SumsUp(t, SUBSET S, f)
  <1>5. \E f : P(f)
    BY <1>4
  <1>6. P(CHOOSE f : P(f))
    <2> HIDE DEF P
    <2> QED BY <1>5, Zenon
  <1> QED BY <1>6 DEF SumOf

\* The sum over a set does not depend on the set it is part of.
LEMMA SumWithin ==
  ASSUME NEW t, NEW U, IsFiniteSet(U), NEW A \in SUBSET U, NEW s \in SUBSET A
  PROVE  SumOf(t, A)[s] = SumOf(t, s)[s]
  <1> DEFINE F(B) == SumOf(t, B)
             Bad(n) == \E B \in SUBSET U : \E r \in SUBSET B :
                         n = Cardinality(r) /\ F(B)[r] # F(r)[r]
             T == {n \in Nat : Bad(n)}
  <1>0. \A B \in SUBSET U : IsFiniteSet(B) /\ Cardinality(B) \in Nat
    BY FS_Subset, FS_CardinalityType
  <1>1. ASSUME NEW B \in SUBSET U, NEW r \in SUBSET B
        PROVE  F(B)[r] = IF r = {} THEN 0 ELSE t[Pick(r)].quantity + F(B)[r \ {Pick(r)}]
    <2>1. SumsUp(t, SUBSET B, F(B))
      BY <1>0, SumsExist
    <2> HIDE DEF F
    <2> QED BY <2>1 DEF SumsUp
  <1> HIDE DEF F
  <1>2. T = {}
    <2>1. SUFFICES ASSUME T # {} PROVE FALSE
      OBVIOUS
    <2>2. PICK n \in T : \A k \in T : n <= k
      <3>1. T \subseteq Nat
        OBVIOUS
      <3> HIDE DEF T
      <3> QED BY <2>1, <3>1, NatLeast
    <2>3. PICK B \in SUBSET U : \E r \in SUBSET B :
                         n = Cardinality(r) /\ F(B)[r] # F(r)[r]
      BY <2>2
    <2>4. PICK r \in SUBSET B : n = Cardinality(r) /\ F(B)[r] # F(r)[r]
      BY <2>3
    <2>5. r \in SUBSET U /\ r \in SUBSET r
      BY <2>3, <2>4
    <2>6. r # {}
      BY <1>1, <2>3, <2>4, <2>5
    <2>7. PICK p \in r : p = Pick(r)
      BY <2>6 DEF Pick
    <2> DEFINE q == r \ {p}
    <2>8. F(B)[r] = t[p].quantity + F(B)[q] /\ F(r)[r] = t[p].quantity + F(r)[q]
      BY <1>1, <2>3, <2>4, <2>5, <2>6, <2>7
    <2>9. q \in SUBSET B /\ q \in SUBSET r
      BY <2>4
    <2>10. Cardinality(q) = n - 1 /\ Cardinality(q) \in Nat
      <3>1. IsFiniteSet(r) /\ q \in SUBSET U
        BY <1>0, <2>5
      <3>2. Cardinality(r \ {p}) = Cardinality(r) - 1
        BY <2>7, <3>1, FS_RemoveElement
      <3> QED BY <1>0, <2>4, <3>1, <3>2
    <2> HIDE DEF q, T
    <2>11. n - 1 \notin T
      BY <2>2, <2>10 DEF T
    <2>12. F(B)[q] = F(q)[q]
      BY <2>3, <2>9, <2>10, <2>11 DEF T
    <2>13. F(r)[q] = F(q)[q]
      BY <2>5, <2>9, <2>10, <2>11 DEF T
    <2> QED BY <2>4, <2>8, <2>12, <2>13
  <1>3. Cardinality(s) \in Nat
    BY <1>0
  <1> QED BY <1>2, <1>3 DEF F

LEMMA SumFirst ==
  ASSUME NEW t, NEW S, IsFiniteSet(S)
  PROVE  Total(t, S) = IF S = {} THEN 0
                     ELSE t[Pick(S)].quantity + Total(t, S \ {Pick(S)})
  <1>1. SumsUp(t, SUBSET S, SumOf(t, S))
    BY SumsExist
  <1>2. SumOf(t, S)[S] = IF S = {} THEN 0
                         ELSE t[Pick(S)].quantity + SumOf(t, S)[S \ {Pick(S)}]
    <2> DEFINE f == SumOf(t, S)
    <2>1. SumsUp(t, SUBSET S, f)
      BY <1>1
    <2> HIDE DEF f
    <2>2. f[S] = IF S = {} THEN 0 ELSE t[Pick(S)].quantity + f[S \ {Pick(S)}]
      BY <2>1 DEF SumsUp
    <2> QED BY <2>2 DEF f
  <1>3. SumOf(t, S)[S \ {Pick(S)}] = SumOf(t, S \ {Pick(S)})[S \ {Pick(S)}]
    BY SumWithin
  <1> QED BY <1>2, <1>3, SumIs

LEMMA SumNone ==
  ASSUME NEW t, NEW S, S = {}
  PROVE  Total(t, S) = 0
  BY SumFirst, FS_EmptySet

\* What each row of S holds is a number.
Counts(t, S) == IsFiniteSet(S) /\ \A r \in S : t[r].quantity \in Int

\* The subsets of U for which P fails have one of least size, if there is any.
LEMMA LeastSet ==
  ASSUME NEW U, IsFiniteSet(U), NEW Bad \in SUBSET SUBSET U, Bad # {}
  PROVE  \E s \in Bad : \A x \in s : s \ {x} \notin Bad
  <1>1. \A s \in SUBSET U : IsFiniteSet(s) /\ Cardinality(s) \in Nat
    BY FS_Subset, FS_CardinalityType
  <1> DEFINE T == {n \in Nat : \E s \in Bad : n = Cardinality(s)}
  <1>2. T # {}
    <2>1. PICK s \in Bad : TRUE
      OBVIOUS
    <2> QED BY <1>1, <2>1
  <1>3. PICK n \in T : \A k \in T : n <= k
    <2>1. T \subseteq Nat
      OBVIOUS
    <2> HIDE DEF T
    <2> QED BY <1>2, <2>1, NatLeast
  <1>4. PICK s \in Bad : n = Cardinality(s)
    BY <1>3
  <1>5. ASSUME NEW x \in s, s \ {x} \in Bad PROVE FALSE
    <2>1. Cardinality(s \ {x}) = n - 1 /\ n \in Nat
      BY <1>1, <1>4, FS_RemoveElement
    <2>2. PICK k \in T : k = Cardinality(s \ {x})
      BY <1>1, <1>5
    <2> HIDE DEF T
    <2>3. n <= k
      BY <1>3
    <2> QED BY <2>1, <2>2, <2>3
  <1> QED BY <1>5

LEMMA SumIsInt ==
  ASSUME NEW t, NEW U, Counts(t, U)
  PROVE  \A s \in SUBSET U : Total(t, s) \in Int
  <1> DEFINE Bad == {s \in SUBSET U : Total(t, s) \notin Int}
  <1> SUFFICES ASSUME Bad # {} PROVE FALSE
    OBVIOUS
  <1>1. PICK s \in Bad : \A x \in s : s \ {x} \notin Bad
    <2>1. Bad \in SUBSET SUBSET U
      OBVIOUS
    <2> HIDE DEF Bad
    <2> QED BY <2>1, LeastSet DEF Counts
  <1>2. IsFiniteSet(s)
    BY FS_Subset DEF Counts
  <1>3. s # {}
    BY <1>1, SumNone
  <1>4. PICK p \in s : p = Pick(s)
    BY <1>3 DEF Pick
  <1>5. Total(t, s \ {p}) \in Int
    BY <1>1, <1>4
  <1>6. Total(t, s) = t[p].quantity + Total(t, s \ {p})
    BY <1>2, <1>3, <1>4, SumFirst
  <1>7. t[p].quantity \in Int
    BY <1>4 DEF Counts
  <1> QED BY <1>1, <1>5, <1>6, <1>7

\* Any row may be counted first.
LEMMA SumLess ==
  ASSUME NEW t, NEW U, Counts(t, U), NEW x \in U
  PROVE  Total(t, U) = t[x].quantity + Total(t, U \ {x})
  <1> DEFINE Fails(s, y) == Total(t, s) # t[y].quantity + Total(t, s \ {y})
             Bad == {s \in SUBSET U : \E y \in s : Fails(s, y)}
  <1> SUFFICES ASSUME Bad # {} PROVE FALSE
    OBVIOUS
  <1>1. PICK s \in Bad : \A y \in s : s \ {y} \notin Bad
    <2>1. Bad \in SUBSET SUBSET U
      OBVIOUS
    <2> HIDE DEF Bad
    <2> QED BY <2>1, LeastSet DEF Counts
  <1>2. PICK y \in s : Fails(s, y)
    BY <1>1
  <1>3. \A r \in SUBSET s : IsFiniteSet(r) /\ Total(t, r) \in Int
    BY SumIsInt, FS_Subset DEF Counts
  <1>4. \A r \in s : t[r].quantity \in Int
    BY DEF Counts
  <1>5. PICK p \in s : p = Pick(s)
    BY <1>2 DEF Pick
  <1>6. Total(t, s) = t[p].quantity + Total(t, s \ {p})
    BY <1>2, <1>3, <1>5, SumFirst
  <1>7. p # y
    BY <1>2, <1>6
  <1>8. p \in s \ {y} /\ y \in s \ {p}
    BY <1>5, <1>7
  <1>9. (s \ {y}) \ {p} = (s \ {p}) \ {y}
    OBVIOUS
  <1>10. s \ {y} \in SUBSET U /\ s \ {y} \notin Bad /\ s \ {p} \in SUBSET U /\ s \ {p} \notin Bad
    BY <1>1, <1>5
  <1>11. ~Fails(s \ {y}, p) /\ ~Fails(s \ {p}, y)
    BY <1>8, <1>10
  <1>12. /\ Total(t, s \ {y}) = t[p].quantity + Total(t, (s \ {y}) \ {p})
         /\ Total(t, s \ {p}) = t[y].quantity + Total(t, (s \ {y}) \ {p})
    BY <1>9, <1>11
  <1>13. Total(t, s) = t[y].quantity + Total(t, s \ {y})
    <2>1. PICK a, b, c \in Int : /\ a = t[p].quantity /\ b = t[y].quantity
                                 /\ c = Total(t, (s \ {y}) \ {p})
      BY <1>3, <1>4, <1>5
    <2> QED BY <1>6, <1>12, <2>1
  <1> QED BY <1>2, <1>13

LEMMA SumLeaves ==
  ASSUME NEW t, NEW U, Counts(t, U), NEW x, x \in U, NEW V, V = U \ {x}
  PROVE  Total(t, U) = t[x].quantity + Total(t, V)
  BY SumLess

\* Rows that hold the same sum up to the same.
LEMMA SumSame ==
  ASSUME NEW t, NEW u, NEW U, Counts(t, U), \A r \in U : u[r].quantity = t[r].quantity
  PROVE  Total(u, U) = Total(t, U)
  <1> DEFINE Bad == {s \in SUBSET U : Total(u, s) # Total(t, s)}
  <1> SUFFICES ASSUME Bad # {} PROVE FALSE
    OBVIOUS
  <1>1. PICK s \in Bad : \A x \in s : s \ {x} \notin Bad
    <2>1. Bad \in SUBSET SUBSET U
      OBVIOUS
    <2> HIDE DEF Bad
    <2> QED BY <2>1, LeastSet DEF Counts
  <1>2. IsFiniteSet(s)
    BY FS_Subset DEF Counts
  <1>3. s # {}
    BY <1>1, SumNone
  <1>4. PICK p \in s : p = Pick(s)
    BY <1>3 DEF Pick
  <1>5. Total(u, s \ {p}) = Total(t, s \ {p})
    BY <1>1, <1>4
  <1>6. /\ Total(t, s) = t[p].quantity + Total(t, s \ {p})
        /\ Total(u, s) = u[p].quantity + Total(u, s \ {p})
    BY <1>2, <1>3, <1>4, SumFirst
  <1>7. u[p].quantity = t[p].quantity
    BY <1>4
  <1> QED BY <1>1, <1>5, <1>6, <1>7

\* One row that holds something else.
LEMMA SumChanges ==
  ASSUME NEW t, NEW u, NEW U, Counts(t, U), NEW x \in U, u[x].quantity \in Int,
         \A r \in U : r # x => u[r].quantity = t[r].quantity
  PROVE  Total(u, U) = Total(t, U) + (u[x].quantity - t[x].quantity)
  <1>1. IsFiniteSet(U \ {x})
    BY FS_RemoveElement DEF Counts
  <1>2. Counts(t, U \ {x}) /\ Counts(u, U)
    BY <1>1 DEF Counts
  <1>3. Total(u, U \ {x}) = Total(t, U \ {x})
    BY <1>2, SumSame
  <1>4. /\ Total(u, U) = u[x].quantity + Total(u, U \ {x})
        /\ Total(t, U) = t[x].quantity + Total(t, U \ {x})
    BY <1>2, SumLess
  <1>5. PICK a, b, c \in Int : a = u[x].quantity /\ b = t[x].quantity /\ c = Total(t, U \ {x})
    BY SumIsInt DEF Counts
  <1> QED BY <1>3, <1>4, <1>5
-----------------------------------------------------------------------------
(***************************************************************************)
(* The remainder by W, where W is not known.                               *)
(***************************************************************************)
LEMMA NoMultiple ==
  ASSUME NEW W \in Nat \ {0}, NEW d \in Int, 0 - W < W * d, W * d < W
  PROVE  d = 0
  <1>1. CASE d >= 1
    <2>1. PICK e \in Nat : d = e + 1
      <3>1. d - 1 \in Nat /\ d = (d - 1) + 1
        BY <1>1
      <3> QED BY <3>1
    <2>2. W * d = W * e + W /\ W * e >= 0
      BY <2>1
    <2> QED BY <2>2
  <1>2. CASE d <= 0 - 1
    <2>1. PICK e \in Nat : d = 0 - (e + 1)
      <3>1. 0 - d - 1 \in Nat /\ d = 0 - ((0 - d - 1) + 1)
        BY <1>2
      <3> QED BY <3>1
    <2>2. W * d = 0 - (W * e + W) /\ W * e >= 0
      BY <2>1
    <2> QED BY <2>2
  <1> QED BY <1>1, <1>2

\* Quotient and remainder are the only ones.
LEMMA ModIs ==
  ASSUME NEW W \in Nat \ {0}, NEW q \in Int, NEW r \in 0 .. W - 1
  PROVE  (W * q + r) % W = r
  <1>1. PICK x \in Int : x = W * q + r
    OBVIOUS
  <1>2. PICK p \in Int : p = x \div W
    OBVIOUS
  <1>3. PICK s \in 0 .. W - 1 : s = x % W /\ x = W * p + s
    BY <1>2
  <1>4. W * (p - q) = W * p - W * q
    OBVIOUS
  <1>5. 0 - W < W * (p - q) /\ W * (p - q) < W
    BY <1>1, <1>3, <1>4
  <1>6. p - q = 0
    BY <1>5, NoMultiple
  <1> QED BY <1>1, <1>3, <1>6

LEMMA ModPlusWord ==
  ASSUME NEW W \in Nat \ {0}, NEW x \in Int
  PROVE  (x + W) % W = x % W
  <1>1. PICK p \in Int : p = x \div W
    OBVIOUS
  <1>2. PICK s \in 0 .. W - 1 : s = x % W /\ x = W * p + s
    BY <1>1
  <1>3. W * (p + 1) = W * p + W
    OBVIOUS
  <1>4. PICK q \in Int : q = p + 1
    OBVIOUS
  <1>5. PICK y \in Int : y = x + W
    OBVIOUS
  <1>6. y = W * q + s
    BY <1>2, <1>3, <1>4, <1>5
  <1>7. (W * q + s) % W = s
    BY <1>2, ModIs
  <1> QED BY <1>2, <1>5, <1>6, <1>7

\* Within a word of its range, a remainder is the number less or plus a word.
LEMMA ModNear ==
  ASSUME NEW W \in Nat \ {0}, NEW x \in Int, 0 - W <= x, x < W + W
  PROVE  x % W = IF x < 0 THEN x + W ELSE IF x < W THEN x ELSE x - W
  <1>1. CASE x < 0
    BY <1>1
  <1>2. CASE x \in 0 .. W - 1
    BY <1>2
  <1>3. CASE W <= x
    BY <1>3
  <1> QED BY <1>1, <1>2, <1>3

-----------------------------------------------------------------------------
\* What a request leaves a stack with.
StackAfter(old, running) ==
  IF Fills(old, running) THEN NewQuantity(old, running) ELSE old

\* One stack takes what the request no longer has, to the word, and exactly if
\* the sum cannot wrap.
LEMMA StackAdds ==
  ASSUME NEW old \in 0 .. SlotMax, NEW running \in Quantity
  PROVE  LET d == (StackAfter(old, running) - old) + (LeftAfter(old, running) - running) IN
         /\ StackAfter(old, running) \in 0 .. SlotMax
         /\ d \in {0, Word, 0 - Word}
         /\ running + SlotMax <= Word => d = 0 /\ LeftAfter(old, running) <= running
  <1>1. SlotMax \in Nat \ {0} /\ Word \in Nat \ {0} /\ SlotMax < Word
    BY ItemAssumption
  <1>2. old \in Nat /\ old <= SlotMax /\ running \in Nat /\ running < Word
    BY <1>1 DEF Quantity
  <1>3. CASE ~Fills(old, running)
    BY <1>1, <1>2, <1>3 DEF StackAfter, LeftAfter
  <1>4. CASE Fills(old, running)
    <2>1. PICK wide \in Int : wide = old + running
      BY <1>2
    <2>2. PICK sum \in Nat : sum = wide % Word
      BY <1>1
    <2>3. sum = IF wide < Word THEN wide ELSE wide - Word
      <3>1. wide < Word + Word /\ 0 - Word <= wide
        BY <1>1, <1>2, <2>1
      <3>2. wide % Word = IF wide < 0 THEN wide + Word
                          ELSE IF wide < Word THEN wide ELSE wide - Word
        BY <1>1, <3>1, ModNear
      <3> QED BY <1>2, <2>1, <2>2, <3>2
    <2>4. PICK new \in 0 .. SlotMax : new = NewQuantity(old, running)
      BY StackFills
    <2>5. new = IF sum <= SlotMax THEN sum ELSE SlotMax
      BY <1>1, <2>1, <2>2, <2>4, MinOfTwo DEF NewQuantity
    <2>6. PICK x \in Int : x = running - (new - old)
      BY <1>2
    <2>7. PICK l \in Int : l = x % Word
      BY <1>1
    <2>8. l \in {x, x + Word, x - Word}
      <3>1. x < Word + Word /\ 0 - Word <= x
        BY <1>1, <1>2, <2>6
      <3> QED BY <1>1, <2>7, <3>1, ModNear
    <2>9. StackAfter(old, running) = new /\ LeftAfter(old, running) = l
      BY <1>4, <2>4, <2>6, <2>7 DEF StackAfter, LeftAfter
    <2>10. ASSUME running + SlotMax <= Word PROVE x \in 0 .. Word - 1 /\ x <= running
      <3>1. old < SlotMax
        BY <1>4 DEF Fills
      <3>2. sum = wide
        BY <1>1, <1>2, <2>1, <2>3, <2>10, <3>1
      <3> QED BY <1>1, <1>2, <2>1, <2>5, <2>6, <3>1, <3>2
    <2>11. running + SlotMax <= Word => l = x /\ x <= running
      BY <1>1, <2>7, <2>10, ModNear
    <2> QED BY <1>1, <1>2, <2>4, <2>6, <2>8, <2>9, <2>11
  <1> QED BY <1>3, <1>4

\* A number that is zero up to the word stays so when the word is added.
LEMMA ModShift ==
  ASSUME NEW x \in Int, x % Word = 0, NEW d \in {0, Word, 0 - Word}
  PROVE  (x + d) % Word = 0
  <1>1. Word \in Nat \ {0}
    BY ItemAssumption
  <1>2. CASE d = 0
    BY <1>2
  <1>3. CASE d = Word
    BY <1>1, <1>3, ModPlusWord
  <1>4. CASE d = 0 - Word
    <2>1. PICK y \in Int : y = x + d
      BY <1>1
    <2>2. y + Word = x
      BY <1>1, <1>4, <2>1
    <2>3. (y + Word) % Word = y % Word
      BY <1>1, ModPlusWord
    <2> QED BY <2>1, <2>2, <2>3
  <1> QED BY <1>2, <1>3, <1>4

\* Induction up to n, over the numbers for which something holds.
LEMMA UpTo ==
  ASSUME NEW n \in Nat, NEW Good \in SUBSET (0 .. n), 0 \in Good,
         \A k \in 1 .. n : k - 1 \in Good => k \in Good
  PROVE  n \in Good
  <1> DEFINE T == (0 .. n) \ Good
  <1> SUFFICES ASSUME T # {} PROVE FALSE
    OBVIOUS
  <1>1. PICK k \in T : \A j \in T : k <= j
    <2>1. T \subseteq Nat
      OBVIOUS
    <2> HIDE DEF T
    <2> QED BY <2>1, NatLeast
  <1>2. k \in 1 .. n /\ k - 1 \in 0 .. n /\ k - 1 \notin T
    BY <1>1
  <1> QED BY <1>1, <1>2

\* u is t after the request has been through its stacks, N of S in order.
Taken(S, t, u, N, order, quantity, left) ==
  /\ IsFiniteSet(S) /\ \A r \in S : t[r].quantity \in 0 .. SlotMax
  /\ \A k \in 1 .. N : order[k] \in S
  /\ \A j, k \in 1 .. N : order[j] = order[k] => j = k
  /\ left[0] = quantity
  /\ \A k \in 0 .. N : left[k] \in Quantity
  /\ \A k \in 1 .. N : left[k] = LeftAfter(t[order[k]].quantity, left[k - 1])
  /\ \A k \in 1 .. N : u[order[k]].quantity = StackAfter(t[order[k]].quantity, left[k - 1])
  /\ \A r \in S : (\A k \in 1 .. N : order[k] # r) => u[r].quantity = t[r].quantity

\* What u has more than t in the rows of S, and what is left at the end.
Surplus(S, t, u, end, quantity) == (Total(u, S) - Total(t, S)) + (end - quantity)

\* The stacks of order take what the request no longer has.
LEMMA StacksAdd ==
  ASSUME NEW S, NEW t, NEW u, NEW N \in Nat, NEW order, NEW quantity \in Quantity, NEW left,
         Taken(S, t, u, N, order, quantity, left)
  PROVE  /\ Total(u, S) \in Int /\ Total(t, S) \in Int
         /\ Surplus(S, t, u, left[N], quantity) % Word = 0
         /\ quantity + SlotMax <= Word => Surplus(S, t, u, left[N], quantity) = 0
  <1> USE DEF Taken
  <1> DEFINE in(k, r) == \E j \in 1 .. k : order[j] = r
             v(k) == [r \in S |-> [quantity |-> IF in(k, r) THEN u[r].quantity
                                                ELSE t[r].quantity]]
             d(k) == (Total(v(k), S) - Total(t, S)) + (left[k] - quantity)
             Good(k) == /\ d(k) % Word = 0
                        /\ quantity + SlotMax <= Word => d(k) = 0 /\ left[k] <= quantity
  <1>1. SlotMax \in Nat \ {0} /\ Word \in Nat \ {0} /\ SlotMax < Word
    BY ItemAssumption
  <1>2. \A k \in 0 .. N : left[k] \in Int
    BY DEF Quantity
  <1>3. ASSUME NEW k \in 1 .. N
        PROVE  /\ t[order[k]].quantity \in 0 .. SlotMax /\ left[k - 1] \in Quantity
               /\ u[order[k]].quantity \in 0 .. SlotMax
               /\ LET e == (u[order[k]].quantity - t[order[k]].quantity)
                            + (left[k] - left[k - 1]) IN
                  /\ e \in {0, Word, 0 - Word}
                  /\ left[k - 1] + SlotMax <= Word => e = 0 /\ left[k] <= left[k - 1]
    <2>1. PICK old \in 0 .. SlotMax : old = t[order[k]].quantity
      OBVIOUS
    <2>2. PICK running \in Quantity : running = left[k - 1]
      <3>1. k - 1 \in 0 .. N
        OBVIOUS
      <3> QED BY <3>1
    <2>3. left[k] = LeftAfter(old, running) /\ u[order[k]].quantity = StackAfter(old, running)
      BY <2>1, <2>2
    <2> QED BY <2>1, <2>2, <2>3, StackAdds
  <1>4. \A r \in S : u[r].quantity \in 0 .. SlotMax
    BY <1>3
  <1>5. ASSUME NEW k \in 0 .. N, NEW r \in S
        PROVE  v(k)[r].quantity = IF in(k, r) THEN u[r].quantity ELSE t[r].quantity
    OBVIOUS
  <1>6. ASSUME NEW k \in 0 .. N
        PROVE  Counts(v(k), S) /\ Total(v(k), S) \in Int
    <2>1. \A r \in S : v(k)[r].quantity \in Int
      <3> HIDE DEF v, in
      <3> QED BY <1>1, <1>4, <1>5
    <2> HIDE DEF v
    <2> QED BY <2>1, SumIsInt DEF Counts
  <1>7. Counts(t, S) /\ Total(t, S) \in Int
    BY SumIsInt DEF Counts
  <1>8. Good(0)
    <2>1. \A r \in S : ~in(0, r)
      OBVIOUS
    <2>2. \A r \in S : v(0)[r].quantity = t[r].quantity
      BY <2>1
    <2> HIDE DEF v
    <2>3. Total(v(0), S) = Total(t, S)
      BY <1>7, <2>2, SumSame
    <2>4. d(0) = 0
      <3>1. PICK a \in Int : a = Total(t, S)
        BY <1>7
      <3>2. PICK b \in Int : b = left[0]
        BY <1>2
      <3> QED BY <2>3, <3>1, <3>2
    <2>5. 0 % Word = 0
      BY <1>1, ModNear
    <2>6. left[0] <= quantity
      BY <1>2
    <2> HIDE DEF d
    <2> QED BY <2>4, <2>5, <2>6
  <1>9. ASSUME NEW k \in 1 .. N, Good(k - 1) PROVE Good(k)
    <2>1. PICK x \in S : x = order[k]
      OBVIOUS
    <2>2. k - 1 \in 0 .. N /\ k \in 0 .. N
      OBVIOUS
    <2>3. in(k, x) /\ ~in(k - 1, x)
      BY <2>1
    <2>4. \A r \in S : r # x => (in(k, r) <=> in(k - 1, r))
      <3>1. ASSUME NEW r \in S, r # x, in(k, r) PROVE in(k - 1, r)
        <4>1. PICK j \in 1 .. k : order[j] = r
          BY <3>1
        <4>2. j # k
          BY <2>1, <3>1, <4>1
        <4>3. j \in 1 .. k - 1
          BY <4>2
        <4> QED BY <4>1, <4>3
      <3>2. ASSUME NEW r \in S, in(k - 1, r) PROVE in(k, r)
        BY <3>2
      <3> QED BY <3>1, <3>2
    <2> HIDE DEF in
    <2>5. /\ v(k)[x].quantity = u[x].quantity /\ v(k - 1)[x].quantity = t[x].quantity
          /\ \A r \in S : r # x => v(k)[r].quantity = v(k - 1)[r].quantity
      BY <1>5, <2>2, <2>3, <2>4
    <2> HIDE DEF v
    <2>6. Total(v(k), S) = Total(v(k - 1), S) + (u[x].quantity - t[x].quantity)
      <3>1. Counts(v(k - 1), S)
        BY <1>6, <2>2
      <3>2. v(k)[x].quantity \in Int
        BY <1>1, <1>4, <2>5
      <3>3. Total(v(k), S) = Total(v(k - 1), S) + (v(k)[x].quantity - v(k - 1)[x].quantity)
        BY <2>5, <3>1, <3>2, SumChanges
      <3> QED BY <2>5, <3>3
    <2> DEFINE e == (u[x].quantity - t[x].quantity) + (left[k] - left[k - 1])
    <2>7. /\ e \in {0, Word, 0 - Word}
          /\ left[k - 1] + SlotMax <= Word => e = 0 /\ left[k] <= left[k - 1]
      BY <1>3, <2>1
    <2>8. d(k) = d(k - 1) + e /\ d(k - 1) \in Int
      <3>1. PICK a \in Int : a = Total(v(k - 1), S)
        BY <1>6, <2>2
      <3>2. PICK b \in Int : b = Total(t, S)
        BY <1>7
      <3>3. PICK l \in Int : l = left[k]
        BY <1>2, <2>2
      <3>4. PICK m \in Int : m = left[k - 1]
        BY <1>2, <2>2
      <3>5. PICK ux \in Int : ux = u[x].quantity
        BY <1>1, <1>4
      <3>6. PICK tx \in Int : tx = t[x].quantity
        BY <1>1
      <3>7. quantity \in Int
        BY DEF Quantity
      <3> QED BY <2>6, <3>1, <3>2, <3>3, <3>4, <3>5, <3>6, <3>7
    <2>9. left[k] \in Int /\ left[k - 1] \in Int /\ quantity \in Int
      BY <1>2, <2>2 DEF Quantity
    <2> HIDE DEF d, e
    <2>10. d(k) % Word = 0
      BY <1>9, <2>7, <2>8, ModShift
    <2>11. ASSUME quantity + SlotMax <= Word PROVE d(k) = 0 /\ left[k] <= quantity
      <3>1. d(k - 1) = 0 /\ left[k - 1] <= quantity
        BY <1>9, <2>11
      <3>2. left[k - 1] + SlotMax <= Word
        BY <1>1, <2>9, <2>11, <3>1
      <3> QED BY <2>7, <2>8, <2>9, <3>1, <3>2
    <2> QED BY <2>10, <2>11
  <1> HIDE DEF Good
  <1>10. Good(N)
    <2> DEFINE T == {k \in 0 .. N : Good(k)}
    <2>1. 0 \in T /\ \A k \in 1 .. N : k - 1 \in T => k \in T
      BY <1>8, <1>9
    <2>2. T \in SUBSET (0 .. N)
      OBVIOUS
    <2> HIDE DEF T
    <2>3. N \in T
      BY <2>1, <2>2, UpTo
    <2> QED BY <2>3 DEF T
  <1>11. Total(u, S) = Total(v(N), S)
    <2>1. \A r \in S : u[r].quantity = v(N)[r].quantity
      <3>1. N \in 0 .. N
        OBVIOUS
      <3> HIDE DEF v
      <3> QED BY <1>5, <3>1
    <2>2. Counts(v(N), S)
      <3>1. N \in 0 .. N
        OBVIOUS
      <3> HIDE DEF v
      <3> QED BY <1>6, <3>1
    <2> HIDE DEF v
    <2> QED BY <2>1, <2>2, SumSame
  <1>12. Total(v(N), S) \in Int
    <2>1. N \in 0 .. N
      OBVIOUS
    <2> HIDE DEF v
    <2> QED BY <1>6, <2>1
  <1> HIDE DEF v
  <1> QED BY <1>7, <1>10, <1>11, <1>12 DEF Good, Surplus

\* The rows of w from first on are the new ones, for what is left.
Portioned(w, D, first, left, n) ==
  /\ n = Len(Portions(left))
  /\ IsFiniteSet(D) /\ \A r \in D : r \in Int /\ r < first
  /\ \A r \in D : w[r].quantity \in Int
  /\ \A k \in 1 .. n : w[first + k - 1].quantity = Portions(left)[k]

\* They hold what the stacks did not take.
LEMMA PortionsAdd ==
  ASSUME NEW w, NEW D, NEW first \in Nat, NEW left \in Nat, NEW n,
         Portioned(w, D, first, left, n)
  PROVE  Total(w, D \cup first .. first + n - 1) = Total(w, D) + left
  <1> USE DEF Portioned
  <1>1. /\ n \in Nat
        /\ Holds(left, 0) = 0 /\ Holds(left, n) = left
        /\ \A k \in 1 .. n :
             /\ Holds(left, k - 1) \in Nat /\ Holds(left, k) \in Nat
             /\ Portions(left)[k] = Holds(left, k) - Holds(left, k - 1)
    BY PortionsHold
  <1> DEFINE E(k) == D \cup first .. first + k - 1
             Good(k) == Total(w, E(k)) = Total(w, D) + Holds(left, k)
  <1>2. ASSUME NEW k \in 0 .. n PROVE Counts(w, E(k)) /\ Total(w, E(k)) \in Int
    <2>1. IsFiniteSet(first .. first + k - 1)
      BY <1>1, FS_Interval
    <2>2. IsFiniteSet(E(k))
      BY <2>1, FS_Union
    <2>3. ASSUME NEW r \in first .. first + k - 1 PROVE w[r].quantity \in Int
      <3>1. PICK j \in 1 .. n : j = r - first + 1
        BY <1>1
      <3>2. r = first + j - 1
        BY <3>1
      <3>3. w[r].quantity = Holds(left, j) - Holds(left, j - 1)
        BY <1>1, <3>2
      <3> QED BY <1>1, <3>3
    <2>4. \A r \in E(k) : w[r].quantity \in Int
      BY <2>3
    <2> HIDE DEF E
    <2> QED BY <2>2, <2>4, SumIsInt DEF Counts
  <1>3. E(0) = D /\ 0 \in 0 .. n /\ n \in 0 .. n
    BY <1>1
  <1> HIDE DEF E
  <1>4. Good(0)
    BY <1>1, <1>2, <1>3
  <1>5. ASSUME NEW k \in 1 .. n, Good(k - 1) PROVE Good(k)
    <2>1. PICK x \in Int : x = first + k - 1
      BY <1>1
    <2>2. x \in E(k) /\ E(k) \ {x} = E(k - 1)
      <3>1. x \in first .. first + k - 1 /\ x \notin D
        BY <1>1, <2>1
      <3>2. \A r \in first .. first + k - 1 : r # x <=> r \in first .. first + (k - 1) - 1
        BY <1>1, <2>1
      <3>3. \A r \in first .. first + (k - 1) - 1 : r \in first .. first + k - 1
        BY <1>1
      <3> QED BY <3>1, <3>2, <3>3 DEF E
    <2>3. k \in 0 .. n /\ k - 1 \in 0 .. n
      BY <1>1
    <2>4. Total(w, E(k)) = w[x].quantity + Total(w, E(k - 1))
      <3>1. PICK rows : rows = E(k)
        OBVIOUS
      <3>2. Counts(w, rows) /\ x \in rows
        BY <1>2, <2>2, <2>3, <3>1
      <3> HIDE DEF Good
      <3>3. PICK before : before = E(k - 1)
        OBVIOUS
      <3>4. before = rows \ {x}
        BY <2>2, <3>1, <3>3
      <3>5. Total(w, rows) = w[x].quantity + Total(w, before)
        BY <3>2, <3>4, SumLeaves
      <3> QED BY <3>1, <3>3, <3>5
    <2>5. w[x].quantity = Holds(left, k) - Holds(left, k - 1)
      BY <1>1, <2>1
    <2>6. PICK a \in Int : a = Total(w, D)
      BY <1>2, <1>3
    <2>7. PICK b \in Int : b = Holds(left, k)
      BY <1>1
    <2>8. PICK c \in Int : c = Holds(left, k - 1)
      BY <1>1
    <2> QED BY <1>5, <2>4, <2>5, <2>6, <2>7, <2>8
  <1> HIDE DEF Good
  <1>6. Good(n)
    <2> DEFINE T == {k \in 0 .. n : Good(k)}
    <2>1. 0 \in T /\ \A k \in 1 .. n : k - 1 \in T => k \in T
      BY <1>1, <1>4, <1>5
    <2>2. T \in SUBSET (0 .. n)
      OBVIOUS
    <2> HIDE DEF T
    <2>3. n \in T
      BY <1>1, <2>1, <2>2, UpTo
    <2> QED BY <2>3 DEF T
  <1> QED BY <1>1, <1>6 DEF Good, E

-----------------------------------------------------------------------------
\* The rows are a table, and new ids are higher than any.
RowsOK == /\ IsTable(items) /\ nextId \in Nat \ {0}
          /\ DOMAIN items \subseteq 1 .. nextId - 1

\* No two rows in a slot, and none is left where an exchange parks one.
SlotsOK == Distinct(items) /\ ~Occupied(items, Temp)

\* The stacks of an item, in any order.
LEMMA StackOrders ==
  ASSUME NEW t, IsTable(t), NEW item, NEW order \in SetToSeqs(Stacks(t, item))
  PROVE  /\ Len(order) \in Nat /\ DOMAIN order = 1 .. Len(order)
         /\ \A k \in 1 .. Len(order) : order[k] \in DOMAIN t /\ t[order[k]].item = item
         /\ \A j, k \in 1 .. Len(order) : order[j] = order[k] => j = k
  <1>1. PICK c \in Nat : c = Cardinality(Stacks(t, item))
    <2>1. IsFiniteSet(Stacks(t, item))
      <3>1. Stacks(t, item) \subseteq DOMAIN t
        BY DEF Stacks
      <3> QED BY <3>1, FS_Subset DEF IsTable
    <2> QED BY <2>1, FS_CardinalityType
  <1>2. order \in [1 .. c -> Stacks(t, item)]
    BY <1>1 DEF SetToSeqs
  <1>3. Len(order) = c /\ DOMAIN order = 1 .. c
    BY <1>2
  <1>4. \A j, k \in 1 .. c : order[j] = order[k] => j = k
    BY <1>1, <1>3 DEF SetToSeqs, IsInjective
  <1> QED BY <1>2, <1>3, <1>4 DEF Stacks

\* f is the table t with its stacks of item filled in order, and left what
\* the request still has after each of them.
Fill(t, f, item, quantity, order, left) ==
  /\ Len(order) \in Nat
  /\ \A k \in 1 .. Len(order) : order[k] \in Stacks(t, item)
  /\ \A j, k \in 1 .. Len(order) : order[j] = order[k] => j = k
  /\ LeftBy(t, order, quantity, left)
  /\ IsTable(f) /\ DOMAIN f = DOMAIN t
  /\ \A r \in DOMAIN t : f[r].item = t[r].item /\ f[r].slot = t[r].slot
  /\ \A k \in 1 .. Len(order) :
       f[order[k]].quantity = StackAfter(t[order[k]].quantity, left[k - 1])
  /\ \A r \in DOMAIN t : (\A k \in 1 .. Len(order) : order[k] # r) => f[r] = t[r]

\* The rows of what is left are added to f, and the request is told.
Adds(f, item, quantity, end, told, slots, n) ==
  /\ n = Len(Portions(end))
  /\ \A k \in 1 .. n : slots[k] \in FreeSlots(WithStacks(f, item, Portions(end), slots, k - 1))
  /\ items' = WithStacks(f, item, Portions(end), slots, n)
  /\ nextId' = nextId + n
  /\ last'.op = "create" /\ last'.item = item /\ last'.quantity = quantity
  /\ last'.events = told \o [k \in 1 .. n |-> Added(item, Portions(end)[k], slots[k])]

\* A create request is those two.
LEMMA CreateUnfolds ==
  ASSUME RowsOK, NEW item \in Items, NEW quantity \in Quantity,
         CreatesItem(item, quantity)
  PROVE  \E f, order, left : /\ Fill(items, f, item, quantity, order, left)
                             /\ \E slots, n : Adds(f, item, quantity, left[Len(order)],
                                                   Updates(items, order, left), slots, n)
  <1> DEFINE left(order) == Left(items, order, quantity)
             filled(order, k) == Fills(items[order[k]].quantity, left(order)[k - 1])
             new(order, k) == NewQuantity(items[order[k]].quantity, left(order)[k - 1])
             full(order) == [r \in DOMAIN items |->
                   IF \E k \in DOMAIN order : order[k] = r /\ filled(order, k)
                   THEN [items[r] EXCEPT !.quantity =
                           new(order, CHOOSE k \in DOMAIN order : order[k] = r)]
                   ELSE items[r]]
             rest(order) == Portions(left(order)[Len(order)])
  <1>1. PICK order \in SetToSeqs(Stacks(items, item)) :
          LET portions == rest(order)
              n == Len(portions)
              slots == Gaps(items, n)
          IN /\ \A k \in 1 .. n :
                  slots[k] \in FreeSlots(WithStacks(full(order), item, portions, slots, k - 1))
             /\ items' = WithStacks(full(order), item, portions, slots, n)
             /\ nextId' = nextId + n
             /\ last'.op = "create" /\ last'.item = item /\ last'.quantity = quantity
             /\ last'.events = Updates(items, order, left(order))
                                \o [k \in 1 .. n |-> Added(item, portions[k], slots[k])]
    BY DEF CreatesItem, Reports, Command
  <1>2. /\ Len(order) \in Nat /\ DOMAIN order = 1 .. Len(order)
        /\ \A k \in 1 .. Len(order) : order[k] \in DOMAIN items /\ items[order[k]].item = item
        /\ \A j, k \in 1 .. Len(order) : order[j] = order[k] => j = k
    BY StackOrders DEF RowsOK
  <1>3. \A r \in DOMAIN items : items[r] \in Row
    BY DEF RowsOK, IsTable
  <1>4. \A k \in 1 .. Len(order) : items[order[k]].quantity \in 0 .. SlotMax
    BY <1>2, <1>3 DEF Row
  <1>5. LeftBy(items, order, quantity, left(order))
    BY <1>2, <1>4, LeftTypes
  <1>6. PICK f : f = full(order)
    OBVIOUS
  <1>7. PICK l : l = left(order)
    OBVIOUS
  <1>8. Adds(f, item, quantity, l[Len(order)], Updates(items, order, l),
             Gaps(items, Len(rest(order))), Len(rest(order)))
    BY <1>1, <1>6, <1>7 DEF Adds
  <1> HIDE DEF left
  <1>9. ASSUME NEW k \in 1 .. Len(order)
        PROVE  /\ new(order, k) \in 0 .. SlotMax
               /\ StackAfter(items[order[k]].quantity, l[k - 1]) =
                    IF filled(order, k) THEN new(order, k) ELSE items[order[k]].quantity
    <2>1. k - 1 \in 0 .. Len(order) /\ items[order[k]].quantity \in 0 .. SlotMax
      BY <1>2, <1>4
    <2>2. l[k - 1] \in Quantity
      BY <1>5, <1>7, <2>1 DEF LeftBy
    <2> QED BY <1>7, <2>1, <2>2, StackFills DEF StackAfter
  <1> HIDE DEF filled, new
  <1>10. ASSUME NEW k \in 1 .. Len(order)
         PROVE  /\ full(order)[order[k]] \in Row
                /\ full(order)[order[k]].item = items[order[k]].item
                /\ full(order)[order[k]].slot = items[order[k]].slot
                /\ full(order)[order[k]].quantity = StackAfter(items[order[k]].quantity, l[k - 1])
    <2>1. PICK r \in DOMAIN items : r = order[k]
      BY <1>2
    <2>2. (CHOOSE j \in DOMAIN order : order[j] = r) = k
      BY <1>2, <2>1
    <2>3. (\E j \in DOMAIN order : order[j] = r /\ filled(order, j)) <=> filled(order, k)
      BY <1>2, <2>1
    <2>4. CASE filled(order, k)
      <3>1. PICK q \in 0 .. SlotMax : q = new(order, k)
        BY <1>9
      <3>2. full(order)[r] = [items[r] EXCEPT !.quantity = q]
        BY <2>2, <2>3, <2>4, <3>1
      <3> HIDE DEF full
      <3> QED BY <1>3, <1>9, <2>1, <2>4, <3>1, <3>2 DEF Row
    <2>5. CASE ~filled(order, k)
      <3>1. full(order)[r] = items[r]
        BY <2>3, <2>5
      <3> HIDE DEF full
      <3> QED BY <1>3, <1>9, <2>1, <2>5, <3>1
    <2> QED BY <2>4, <2>5
  <1>11. ASSUME NEW r \in DOMAIN items, \A k \in 1 .. Len(order) : order[k] # r
         PROVE  full(order)[r] = items[r]
    BY <1>2, <1>11
  <1>12. DOMAIN full(order) = DOMAIN items /\ full(order) = [r \in DOMAIN items |-> full(order)[r]]
    OBVIOUS
  <1> HIDE DEF full
  <1>13. \A r \in DOMAIN items : /\ f[r] \in Row
                                 /\ f[r].item = items[r].item /\ f[r].slot = items[r].slot
    BY <1>3, <1>6, <1>10, <1>11
  <1>14. IsTable(f) /\ DOMAIN f = DOMAIN items
    BY <1>6, <1>12, <1>13 DEF IsTable, RowsOK
  <1>15. \A k \in 1 .. Len(order) : order[k] \in Stacks(items, item)
    BY <1>2 DEF Stacks
  <1>16. Fill(items, f, item, quantity, order, l)
    BY <1>2, <1>5, <1>6, <1>7, <1>10, <1>11, <1>13, <1>14, <1>15 DEF Fill
  <1> QED BY <1>8, <1>16

\* It fills stacks of its item, adds stacks of it in free slots, and leaves
\* every row of another item alone.
LEMMA CreatesRows ==
  ASSUME RowsOK, NEW item \in Items, NEW quantity \in Quantity,
         CreatesItem(item, quantity)
  PROVE  /\ RowsOK' /\ (SlotsOK => SlotsOK')
         /\ last'.item = item
         /\ \A r \in DOMAIN items :
              items[r].item # item => r \in DOMAIN items' /\ items'[r] = items[r]
  <1>1. PICK f, order, left :
          /\ Fill(items, f, item, quantity, order, left)
          /\ \E slots, n : Adds(f, item, quantity, left[Len(order)],
                                Updates(items, order, left), slots, n)
    BY CreateUnfolds
  <1>2. PICK slots, n : Adds(f, item, quantity, left[Len(order)],
                             Updates(items, order, left), slots, n)
    BY <1>1
  <1>3. /\ IsTable(f) /\ DOMAIN f = DOMAIN items /\ DOMAIN f \subseteq 1 .. nextId - 1
        /\ nextId \in Nat \ {0}
        /\ \A r \in DOMAIN items : f[r].slot = items[r].slot
    BY <1>1 DEF Fill, RowsOK
  <1>4. \A r \in DOMAIN items : items[r].item # item => f[r] = items[r]
    BY <1>1 DEF Fill, Stacks
  <1>5. PICK end \in Nat : end = left[Len(order)]
    <2>1. Len(order) \in 0 .. Len(order) /\ \A k \in 0 .. Len(order) : left[k] \in Quantity
      BY <1>1 DEF Fill, LeftBy
    <2> QED BY <2>1 DEF Quantity
  <1>6. PICK p : p = Portions(end)
    OBVIOUS
  <1>7. n \in Nat /\ \A k \in 1 .. n : p[k] \in 0 .. SlotMax
    BY <1>2, <1>5, <1>6, PortionsHold DEF Adds
  <1>8. /\ \A k \in 1 .. n : slots[k] \in FreeSlots(WithStacks(f, item, p, slots, k - 1))
        /\ items' = WithStacks(f, item, p, slots, n)
        /\ nextId' = nextId + n /\ last'.item = item
    BY <1>2, <1>5, <1>6 DEF Adds
  <1>9. /\ IsTable(items') /\ DOMAIN items' \subseteq 1 .. nextId + n - 1
        /\ \A r \in DOMAIN f : r \in DOMAIN items' /\ items'[r] = f[r]
        /\ Distinct(f) /\ ~Occupied(f, Temp) => Distinct(items') /\ ~Occupied(items', Temp)
    BY <1>3, <1>7, <1>8, WithStacksRows
  <1>10. SlotsOK => Distinct(f) /\ ~Occupied(f, Temp)
    BY <1>3 DEF SlotsOK, Distinct, Occupied
  <1>11. RowsOK'
    BY <1>3, <1>7, <1>8, <1>9 DEF RowsOK
  <1>12. SlotsOK => SlotsOK'
    BY <1>9, <1>10 DEF SlotsOK
  <1> QED BY <1>3, <1>4, <1>8, <1>9, <1>11, <1>12

LEMMA HeldIs ==
  ASSUME NEW t, NEW item
  PROVE  Held(t, item) = Total(t, Stacks(t, item))
  BY DEF Held, Total

\* The stacks of a table, and what they hold.
LEMMA StacksCount ==
  ASSUME NEW t, IsTable(t), NEW item
  PROVE  /\ IsFiniteSet(Stacks(t, item)) /\ Counts(t, Stacks(t, item))
         /\ \A r \in Stacks(t, item) : r \in DOMAIN t /\ t[r].quantity \in 0 .. SlotMax
  <1>1. Stacks(t, item) \subseteq DOMAIN t
    BY DEF Stacks
  <1>2. IsFiniteSet(Stacks(t, item))
    BY <1>1, FS_Subset DEF IsTable
  <1>3. \A r \in Stacks(t, item) : t[r].quantity \in 0 .. SlotMax
    BY <1>1 DEF IsTable, Row
  <1>4. 0 .. SlotMax \subseteq Int
    BY ItemAssumption
  <1> QED BY <1>1, <1>2, <1>3, <1>4 DEF Counts

\* What the stacks take and what the new rows hold is what was asked for.
LEMMA CreateGives ==
  ASSUME RowsOK, NEW item \in Items, NEW quantity \in Quantity,
         CreatesItem(item, quantity)
  PROVE  LET gained == Held(items', item) - Held(items, item) IN
         /\ last'.op = "create" /\ last'.item = item /\ last'.quantity = quantity
         /\ (gained - quantity) % Word = 0
         /\ ~Wraps(quantity) => gained = quantity
  <1>1. PICK f, order, left :
          /\ Fill(items, f, item, quantity, order, left)
          /\ \E slots, n : Adds(f, item, quantity, left[Len(order)],
                                Updates(items, order, left), slots, n)
    BY CreateUnfolds
  <1>2. PICK slots, n : Adds(f, item, quantity, left[Len(order)],
                             Updates(items, order, left), slots, n)
    BY <1>1
  <1>3. PICK N \in Nat : N = Len(order)
    BY <1>1 DEF Fill
  <1>4. PICK end \in Nat : end = left[N]
    <2>1. N \in 0 .. N /\ \A k \in 0 .. N : left[k] \in Quantity
      BY <1>1, <1>3 DEF Fill, LeftBy
    <2> QED BY <2>1 DEF Quantity
  <1>5. PICK S : S = Stacks(items, item)
    OBVIOUS
  <1>6. /\ IsFiniteSet(S) /\ Counts(items, S)
        /\ \A r \in S : r \in DOMAIN items /\ items[r].quantity \in 0 .. SlotMax
    BY <1>5, StacksCount DEF RowsOK
  <1>7. /\ Total(f, S) \in Int /\ Total(items, S) \in Int
        /\ Surplus(S, items, f, end, quantity) % Word = 0
        /\ quantity + SlotMax <= Word => Surplus(S, items, f, end, quantity) = 0
    <2>1. /\ \A k \in 1 .. N : order[k] \in S
          /\ \A j, k \in 1 .. N : order[j] = order[k] => j = k
      BY <1>1, <1>3, <1>5 DEF Fill
    <2>2. /\ left[0] = quantity
          /\ \A k \in 0 .. N : left[k] \in Quantity
          /\ \A k \in 1 .. N : left[k] = LeftAfter(items[order[k]].quantity, left[k - 1])
      BY <1>1, <1>3 DEF Fill, LeftBy
    <2>3. \A k \in 1 .. N : f[order[k]].quantity = StackAfter(items[order[k]].quantity, left[k - 1])
      BY <1>1, <1>3 DEF Fill
    <2>4. \A r \in S : (\A k \in 1 .. N : order[k] # r) => f[r].quantity = items[r].quantity
      BY <1>1, <1>3, <1>6 DEF Fill
    <2>5. \A r \in S : items[r].quantity \in 0 .. SlotMax
      BY <1>6
    <2>6. Taken(S, items, f, N, order, quantity, left)
      BY <1>6, <2>1, <2>2, <2>3, <2>4, <2>5 DEF Taken
    <2> QED BY <1>4, <2>6, StacksAdd
  <1>8. PICK p : p = Portions(end)
    OBVIOUS
  <1>9. /\ n \in Nat /\ n = Len(Portions(end))
        /\ items' = WithStacks(f, item, p, slots, n)
        /\ last'.op = "create" /\ last'.item = item /\ last'.quantity = quantity
    BY <1>2, <1>3, <1>4, <1>8, PortionsHold DEF Adds
  <1>10. /\ DOMAIN f = DOMAIN items /\ \A r \in DOMAIN items : f[r].item = items[r].item
         /\ nextId \in Nat \ {0} /\ DOMAIN items \subseteq 1 .. nextId - 1
    BY <1>1 DEF Fill, RowsOK
  <1>11. /\ DOMAIN items' = DOMAIN items \cup nextId .. nextId + n - 1
         /\ \A r \in DOMAIN items : items'[r] = f[r]
         /\ \A r \in nextId .. nextId + n - 1 :
              items'[r].item = item /\ items'[r].quantity = p[r - nextId + 1]
    <2>1. \A r \in nextId .. nextId + n - 1 : r \notin DOMAIN items
      BY <1>10
    <2> DEFINE w == WithStacks(f, item, p, slots, n)
    <2>2. /\ DOMAIN w = DOMAIN items \cup nextId .. nextId + n - 1
          /\ \A r \in DOMAIN items : w[r] = f[r]
      BY <1>10 DEF WithStacks
    <2>3. ASSUME NEW r \in nextId .. nextId + n - 1
          PROVE  w[r].item = item /\ w[r].quantity = p[r - nextId + 1]
      <3>1. PICK s, q : s = slots[r - nextId + 1] /\ q = p[r - nextId + 1]
        OBVIOUS
      <3>2. w[r] = [item |-> item, slot |-> s, quantity |-> q]
        BY <1>10, <2>1, <3>1 DEF WithStacks
      <3> HIDE DEF w
      <3> QED BY <3>1, <3>2
    <2> HIDE DEF w
    <2>4. items' = w
      BY <1>9 DEF w
    <2> QED BY <2>2, <2>3, <2>4
  <1>12. Stacks(items', item) = S \cup nextId .. nextId + n - 1
    BY <1>5, <1>10, <1>11 DEF Stacks
  <1>13. Total(items', S \cup nextId .. nextId + n - 1) = Total(items', S) + end
    <2>1. \A r \in S : r \in Int /\ r < nextId
      BY <1>6, <1>10
    <2>2. \A k \in 1 .. n : items'[nextId + k - 1].quantity = Portions(end)[k]
      <3>1. ASSUME NEW k \in 1 .. n
            PROVE  items'[nextId + k - 1].quantity = Portions(end)[k]
        <4>1. PICK r \in nextId .. nextId + n - 1 : r = nextId + k - 1
          BY <1>9, <1>10
        <4>2. r - nextId + 1 = k
          BY <1>9, <1>10, <4>1
        <4> QED BY <1>8, <1>11, <4>1, <4>2
      <3> QED BY <3>1
    <2>3. \A r \in S : items'[r].quantity = f[r].quantity
      BY <1>6, <1>11
    <2>4. \A r \in S : items'[r].quantity \in Int
      <3>1. \A r \in S : f[r].quantity \in 0 .. SlotMax
        BY <1>1, <1>6, <1>10 DEF Fill, IsTable, Row
      <3> QED BY <2>3, <3>1, ItemAssumption
    <2>5. nextId \in Nat
      BY <1>10
    <2>6. PICK w : w = items'
      OBVIOUS
    <2>7. Portioned(w, S, nextId, end, n)
      BY <1>6, <1>9, <2>1, <2>2, <2>4, <2>6 DEF Portioned
    <2> QED BY <2>5, <2>6, <2>7, PortionsAdd
  <1>14. Total(items', S) = Total(f, S)
    <2>1. \A r \in S : items'[r].quantity = f[r].quantity
      BY <1>6, <1>11
    <2>2. Counts(f, S)
      <3>1. \A r \in S : f[r].quantity \in 0 .. SlotMax
        BY <1>1, <1>6, <1>10 DEF Fill, IsTable, Row
      <3> QED BY <1>6, <3>1, ItemAssumption DEF Counts
    <2>3. PICK w : w = items'
      OBVIOUS
    <2> QED BY <2>1, <2>2, <2>3, SumSame
  <1>15. Held(items', item) = Total(f, S) + end /\ Held(items, item) = Total(items, S)
    BY <1>5, <1>12, <1>13, <1>14, HeldIs
  <1>16. (Held(items', item) - Held(items, item)) - quantity
           = Surplus(S, items, f, end, quantity)
    <2>1. PICK a \in Int : a = Total(f, S)
      BY <1>7
    <2>2. PICK b \in Int : b = Total(items, S)
      BY <1>7
    <2>3. quantity \in Int
      BY DEF Quantity
    <2> QED BY <1>15, <2>1, <2>2, <2>3 DEF Surplus
  <1>17. Held(items', item) \in Int /\ Held(items, item) \in Int /\ quantity \in Int
    BY <1>7, <1>15 DEF Quantity
  <1>18. quantity + SlotMax <= Word <=> ~Wraps(quantity)
    BY <1>17, ItemAssumption DEF Wraps
  <1> QED BY <1>7, <1>9, <1>16, <1>17, <1>18

-----------------------------------------------------------------------------
(***************************************************************************)
(* What the events of a command show of it.                                *)
(***************************************************************************)
\* In a table with distinct slots the row a consumer finds is the only one.
LEMMA RowAtOnly ==
  ASSUME NEW t, IsTable(t), Distinct(t), NEW r \in DOMAIN t
  PROVE  RowAt(t, t[r].slot) = r
  <1>1. r \in Nat /\ \A q \in DOMAIN t : t[q].slot = t[r].slot => q = r
    BY DEF IsTable, Distinct
  <1>2. t[r].slot = t[r].slot /\ \A q \in DOMAIN t : t[q].slot = t[r].slot => r <= q
    BY <1>1
  <1>3. \A x \in DOMAIN t :
          (t[x].slot = t[r].slot /\ \A q \in DOMAIN t : t[q].slot = t[r].slot => x <= q)
          => x = r
    BY <1>1
  <1> QED BY <1>2, <1>3 DEF RowAt

Pic(t) == Picture(t, Stack)

\* A picture with something in a slot, and with nothing in it.
Shown(p, s, i) == [x \in DOMAIN p \cup {s} |-> IF x = s THEN i ELSE p[x]]
Blanked(p, s) == [x \in DOMAIN p \ {s} |-> p[x]]

\* A picture is one of a table if it shows each row where it is, and no more.
LEMMA PicIs ==
  ASSUME NEW t, IsTable(t), Distinct(t), NEW p, p = [s \in DOMAIN p |-> p[s]],
         \A s \in DOMAIN p : Occupied(t, s),
         \A r \in DOMAIN t : t[r].slot \in DOMAIN p /\ p[t[r].slot] = Stack(t[r])
  PROVE  Pic(t) = p
  <1>1. DOMAIN p = SlotsOf(t)
    BY DEF SlotsOf, Occupied
  <1>2. ASSUME NEW s \in SlotsOf(t) PROVE Stack(t[RowAt(t, s)]) = p[s]
    <2>1. PICK r \in DOMAIN t : t[r].slot = s
      BY DEF SlotsOf
    <2> QED BY <2>1, RowAtOnly
  <1> QED BY <1>1, <1>2 DEF Pic, Picture

LEMMA PicShows ==
  ASSUME NEW t, IsTable(t), Distinct(t)
  PROVE  /\ DOMAIN Pic(t) = SlotsOf(t) /\ Pic(t) = [s \in SlotsOf(t) |-> Pic(t)[s]]
         /\ \A s : s \in SlotsOf(t) <=> Occupied(t, s)
         /\ \A r \in DOMAIN t : t[r].slot \in SlotsOf(t) /\ Pic(t)[t[r].slot] = Stack(t[r])
  <1>1. DOMAIN Pic(t) = SlotsOf(t) /\ Pic(t) = [s \in SlotsOf(t) |-> Pic(t)[s]]
    BY DEF Pic, Picture
  <1>2. \A s : s \in SlotsOf(t) <=> Occupied(t, s)
    BY DEF SlotsOf, Occupied
  <1>3. ASSUME NEW r \in DOMAIN t
        PROVE  t[r].slot \in SlotsOf(t) /\ Pic(t)[t[r].slot] = Stack(t[r])
    BY RowAtOnly DEF SlotsOf, Pic, Picture
  <1> QED BY <1>1, <1>2, <1>3

\* A MOVE event shows two slots exchanged.
LEMMA PicTraded ==
  ASSUME NEW t, IsTable(t), Distinct(t), NEW s \in Int, NEW d \in Int,
         NEW e, Traded(t, e, s, d)
  PROVE  Pic(e) = Exchanged(Pic(t), s, d)
  <1> DEFINE p == Exchanged(Pic(t), s, d)
  <1>1. /\ DOMAIN e = DOMAIN t
        /\ \A r \in DOMAIN t :
             e[r].slot = IF t[r].slot = s THEN d ELSE IF t[r].slot = d THEN s ELSE t[r].slot
        /\ \A r \in DOMAIN t : Stack(e[r]) = Stack(t[r])
    BY DEF Traded, Stack
  <1>2. IsTable(e) /\ Distinct(e)
    BY DEF Traded
  <1>3. /\ p = [x \in DOMAIN p |-> p[x]]
        /\ \A x : x \in DOMAIN p <=> \/ x \notin {s, d} /\ Occupied(t, x)
                                     \/ x = s /\ Occupied(t, d)
                                     \/ x = d /\ Occupied(t, s)
    BY PicShows DEF Exchanged
  <1>4. \A x \in DOMAIN p : p[x] = IF x = s THEN Pic(t)[d] ELSE IF x = d THEN Pic(t)[s] ELSE Pic(t)[x]
    BY DEF Exchanged
  <1> HIDE DEF p
  <1>5. ASSUME NEW x \in DOMAIN p PROVE Occupied(e, x)
    BY <1>1, <1>3 DEF Occupied
  <1>6. ASSUME NEW r \in DOMAIN e PROVE e[r].slot \in DOMAIN p /\ p[e[r].slot] = Stack(e[r])
    <2>1. r \in DOMAIN t /\ Occupied(t, t[r].slot) /\ Pic(t)[t[r].slot] = Stack(t[r])
      BY <1>1, PicShows
    <2> QED BY <1>1, <1>3, <1>4, <2>1
  <1>7. Pic(e) = p
    BY <1>2, <1>3, <1>5, <1>6, PicIs
  <1> QED BY <1>7 DEF p

\* A REMOVE event shows a table without the row that was in its slot.
LEMMA PicWithout ==
  ASSUME NEW t, IsTable(t), Distinct(t), NEW row \in DOMAIN t,
         NEW w, IsTable(w), Distinct(w), w = Without(t, row)
  PROVE  Pic(w) = Blanked(Pic(t), t[row].slot)
  <1> DEFINE s == t[row].slot
             p == [y \in DOMAIN Pic(t) \ {s} |-> Pic(t)[y]]
  <1>1. DOMAIN w = DOMAIN t \ {row} /\ \A r \in DOMAIN w : w[r] = t[r]
    BY DEF Without
  <1>2. \A r \in DOMAIN t : t[r].slot = s => r = row
    BY DEF Distinct
  <1>3. DOMAIN p = SlotsOf(t) \ {s} /\ p = [y \in DOMAIN p |-> p[y]]
        /\ \A y \in DOMAIN p : p[y] = Pic(t)[y]
    BY PicShows
  <1> HIDE DEF p
  <1>4. ASSUME NEW y \in DOMAIN p PROVE Occupied(w, y)
    BY <1>1, <1>3 DEF SlotsOf, Occupied
  <1>5. ASSUME NEW r \in DOMAIN w PROVE w[r].slot \in DOMAIN p /\ p[w[r].slot] = Stack(w[r])
    <2>1. r \in DOMAIN t /\ w[r] = t[r] /\ t[r].slot # s
      BY <1>1, <1>2
    <2> QED BY <1>3, <2>1, PicShows
  <1>6. Pic(w) = p
    BY <1>3, <1>4, <1>5, PicIs
  <1> QED BY <1>6 DEF p, Blanked

\* u is t with one row more, or another quantity in one.
Written(t, u, row) ==
  /\ IsTable(u) /\ Distinct(u) /\ row \in DOMAIN u /\ DOMAIN u = DOMAIN t \cup {row}
  /\ row \in DOMAIN t => u[row].slot = t[row].slot
  /\ \A q \in DOMAIN t : q # row => u[q] = t[q]

\* An ADD or an UPDATE event shows that.
LEMMA PicWritten ==
  ASSUME NEW t, IsTable(t), Distinct(t), NEW row, NEW u, Written(t, u, row)
  PROVE  Pic(u) = Shown(Pic(t), u[row].slot, Stack(u[row]))
  <1> DEFINE s == u[row].slot
             p == [x \in DOMAIN Pic(t) \cup {s} |-> IF x = s THEN Stack(u[row]) ELSE Pic(t)[x]]
  <1>1. /\ IsTable(u) /\ Distinct(u) /\ row \in DOMAIN u
        /\ DOMAIN u = DOMAIN t \cup {row} /\ \A q \in DOMAIN t : q # row => u[q] = t[q]
        /\ row \in DOMAIN t => u[row].slot = t[row].slot
    BY DEF Written
  <1>2. DOMAIN p = SlotsOf(t) \cup {s} /\ p = [x \in DOMAIN p |-> p[x]]
        /\ \A x \in DOMAIN p : p[x] = IF x = s THEN Stack(u[row]) ELSE Pic(t)[x]
    BY PicShows
  <1> HIDE DEF p
  <1>3. ASSUME NEW x \in DOMAIN p PROVE Occupied(u, x)
    <2>1. CASE x = s
      BY <1>1, <2>1 DEF Occupied
    <2>2. CASE x # s
      <3>1. PICK q \in DOMAIN t : t[q].slot = x
        BY <1>2, <2>2 DEF SlotsOf
      <3> QED BY <1>1, <2>2, <3>1 DEF Occupied
    <2> QED BY <2>1, <2>2
  <1>4. ASSUME NEW q \in DOMAIN u PROVE u[q].slot \in DOMAIN p /\ p[u[q].slot] = Stack(u[q])
    <2>1. CASE q = row
      BY <1>2, <2>1
    <2>2. CASE q # row
      <3>1. q \in DOMAIN t /\ u[q] = t[q] /\ u[q].slot # s
        BY <1>1, <2>2 DEF Distinct
      <3> QED BY <1>2, <3>1, PicShows
    <2> QED BY <2>1, <2>2
  <1>5. Pic(u) = p
    BY <1>1, <1>2, <1>3, <1>4, PicIs
  <1> QED BY <1>5 DEF p, Shown

-----------------------------------------------------------------------------
\* The events that write a row: the others are the only ones of their command.
Event == [type : {"ADD", "UPDATE"}, item : Items, quantity : Int, slot : Int]

\* pics are the pictures from p to q, before and after each event.
Pictures(p, es, q, n, pics) ==
  /\ pics[0] = p /\ pics[n] = q
  /\ \A k \in 1 .. n : pics[k] = Apply(pics[k - 1], es[k], Stack)

LEMMA ReplaySteps ==
  ASSUME NEW n \in Nat, NEW es, Len(es) = n, NEW p, NEW q, NEW pics, Pictures(p, es, q, n, pics)
  PROVE  Replay(p, es, Stack) = q
  <1> DEFINE A(x, k) == Apply(x, es[k], Stack)
             F(f) == f = [k \in 0 .. n |-> IF k = 0 THEN p ELSE A(f[k - 1], k)]
             f == CHOOSE g : F(g)
             g == [k \in 0 .. n |-> pics[k]]
  <1>1. Replay(p, es, Stack) = f[n]
    BY DEF Replay
  <1>2. pics[0] = p /\ pics[n] = q /\ \A k \in 1 .. n : pics[k] = A(pics[k - 1], k)
    BY DEF Pictures
  <1> HIDE DEF A
  <1>3. F(g)
    <2>1. \A k \in 0 .. n : g[k] = IF k = 0 THEN p ELSE A(g[k - 1], k)
      <3>1. \A k \in 1 .. n : k - 1 \in 0 .. n
        OBVIOUS
      <3> QED BY <1>2, <3>1
    <2> QED BY <2>1
  <1>4. F(f)
    <2> HIDE DEF F, g
    <2> QED BY <1>3
  <1> HIDE DEF f
  <1> DEFINE Good == {k \in 0 .. n : f[k] = pics[k]}
  <1>5. 0 \in Good
    BY <1>2, <1>4
  <1>6. \A k \in 1 .. n : k - 1 \in Good => k \in Good
    BY <1>2, <1>4
  <1>7. Good \in SUBSET (0 .. n)
    OBVIOUS
  <1>8. \A k \in Good : f[k] = pics[k]
    OBVIOUS
  <1> HIDE DEF Good
  <1>9. n \in Good
    BY <1>5, <1>6, <1>7, UpTo
  <1> QED BY <1>1, <1>2, <1>8, <1>9

\* The events es lead from the picture p to the picture q.
Leads(p, es, q) == es \in Seq(Event) /\ \E pics : Pictures(p, es, q, Len(es), pics)

LEMMA LeadsReplay ==
  ASSUME NEW p, NEW es, NEW q, Leads(p, es, q)
  PROVE  Replay(p, es, Stack) = q
  <1>1. PICK pics : Pictures(p, es, q, Len(es), pics)
    BY DEF Leads
  <1>2. Len(es) \in Nat
    BY DEF Leads
  <1> QED BY <1>1, <1>2, ReplaySteps

LEMMA LeadsNowhere == ASSUME NEW p PROVE Leads(p, <<>>, p)
  <1> DEFINE pics == [k \in 0 .. 0 |-> p]
  <1>1. pics[0] = p
    OBVIOUS
  <1> HIDE DEF pics
  <1>2. <<>> \in Seq(Event) /\ Len(<<>>) = 0
    OBVIOUS
  <1>3. Pictures(p, <<>>, p, 0, pics)
    BY <1>1 DEF Pictures
  <1> QED BY <1>2, <1>3 DEF Leads

\* One event after another, and all of one list after all of another.
LEMMA LeadsOn ==
  ASSUME NEW p, NEW es, NEW q, Leads(p, es, q), NEW fs, NEW r, Leads(q, fs, r)
  PROVE  Leads(p, es \o fs, r)
  <1>1. PICK a : Pictures(p, es, q, Len(es), a)
    BY DEF Leads
  <1>2. PICK b : Pictures(q, fs, r, Len(fs), b)
    BY DEF Leads
  <1>3. PICK m \in Nat, n \in Nat : m = Len(es) /\ n = Len(fs)
    BY DEF Leads
  <1>4. PICK gs : gs = es \o fs
    OBVIOUS
  <1>5. /\ gs \in Seq(Event) /\ Len(gs) = m + n
        /\ \A k \in 1 .. m : gs[k] = es[k]
        /\ \A k \in 1 .. n : gs[m + k] = fs[k]
    BY <1>3, <1>4 DEF Leads
  <1> DEFINE c == [k \in 0 .. m + n |-> IF k <= m THEN a[k] ELSE b[k - m]]
  <1>6. \A k \in 0 .. m : c[k] = a[k]
    OBVIOUS
  <1>7. \A k \in 0 .. n : c[m + k] = b[k]
    <2>1. c[m] = a[m] /\ a[m] = b[0]
      BY <1>1, <1>2, <1>3 DEF Pictures
    <2>2. ASSUME NEW k \in 1 .. n PROVE c[m + k] = b[k]
      <3>1. m + k \in 0 .. m + n /\ ~ (m + k <= m) /\ (m + k) - m = k
        OBVIOUS
      <3> QED BY <3>1
    <2>3. \A k \in 0 .. n : k = 0 \/ k \in 1 .. n
      OBVIOUS
    <2> HIDE DEF c
    <2> QED BY <2>1, <2>2, <2>3
  <1> HIDE DEF c
  <1>8. ASSUME NEW k \in 1 .. m + n PROVE c[k] = Apply(c[k - 1], gs[k], Stack)
    <2>1. CASE k \in 1 .. m
      <3>1. k \in 0 .. m /\ k - 1 \in 0 .. m
        BY <2>1
      <3>2. a[k] = Apply(a[k - 1], es[k], Stack)
        BY <1>1, <1>3, <2>1 DEF Pictures
      <3>3. c[k] = a[k] /\ c[k - 1] = a[k - 1] /\ gs[k] = es[k]
        BY <1>5, <1>6, <2>1, <3>1
      <3> QED BY <3>2, <3>3
    <2>2. CASE k \notin 1 .. m
      <3>1. PICK j \in 1 .. n : k = m + j
        <4>1. k - m \in 1 .. n /\ k = m + (k - m)
          BY <2>2
        <4> QED BY <4>1
      <3>2. b[j] = Apply(b[j - 1], fs[j], Stack)
        BY <1>2, <1>3, <3>1 DEF Pictures
      <3>3. j \in 0 .. n /\ j - 1 \in 0 .. n /\ k - 1 = m + (j - 1)
        BY <3>1
      <3>4. c[k] = b[j] /\ c[k - 1] = b[j - 1] /\ gs[k] = fs[j]
        BY <1>5, <1>7, <3>1, <3>3
      <3> QED BY <3>2, <3>4
    <2> QED BY <2>1, <2>2
  <1>9. c[0] = p /\ c[m + n] = r
    <2>1. 0 \in 0 .. m /\ n \in 0 .. n
      OBVIOUS
    <2>2. c[0] = a[0] /\ c[m + n] = b[n]
      BY <1>6, <1>7, <2>1
    <2> QED BY <1>1, <1>2, <1>3, <2>2 DEF Pictures
  <1>10. Pictures(p, gs, r, m + n, c)
    BY <1>8, <1>9 DEF Pictures
  <1> QED BY <1>4, <1>5, <1>10 DEF Leads

LEMMA LeadsOne ==
  ASSUME NEW p, NEW e \in Event
  PROVE  Leads(p, <<e>>, Shown(p, e.slot, Stack(e)))
  <1>1. PICK q : q = Shown(p, e.slot, Stack(e))
    OBVIOUS
  <1> DEFINE pics == [k \in 0 .. 1 |-> IF k = 0 THEN p ELSE q]
  <1>2. pics[0] = p /\ pics[1] = q
    OBVIOUS
  <1> HIDE DEF pics
  <1>3. <<e>> \in Seq(Event) /\ Len(<<e>>) = 1 /\ <<e>>[1] = e
    OBVIOUS
  <1>4. Apply(p, e, Stack) = q
    <2>1. e.type \in {"ADD", "UPDATE"}
      BY DEF Event
    <2>2. Apply(p, e, Stack) = Shown(p, e.slot, Stack(e))
      BY <2>1 DEF Apply, Shown
    <2> QED BY <1>1, <2>2
  <1>5. \A k \in 1 .. 1 : pics[k] = Apply(pics[k - 1], <<e>>[k], Stack)
    BY <1>2, <1>3, <1>4
  <1>6. Pictures(p, <<e>>, q, 1, pics)
    BY <1>2, <1>5 DEF Pictures
  <1> QED BY <1>1, <1>3, <1>6 DEF Leads

\* g is the list of events es of the stacks in on, after each of n stacks.
Told(g, on, es, n) ==
  g = [k \in 0 .. n |-> IF k = 0 THEN <<>>
                        ELSE IF k \in on THEN Append(g[k - 1], es[k]) ELSE g[k - 1]]

LEMMA ToldExists ==
  ASSUME NEW n \in Nat, NEW on, NEW es
  PROVE  \E g : Told(g, on, es, n)
  <1> DEFINE Good == {k \in 0 .. n : \E g : Told(g, on, es, k)}
  <1>1. 0 \in Good
    <2> DEFINE g == [k \in 0 .. 0 |-> <<>>]
    <2>1. g = [k \in 0 .. 0 |-> IF k = 0 THEN <<>>
                                ELSE IF k \in on THEN Append(g[k - 1], es[k]) ELSE g[k - 1]]
      OBVIOUS
    <2> HIDE DEF g
    <2>2. Told(g, on, es, 0)
      BY <2>1 DEF Told
    <2> QED BY <2>2
  <1>2. ASSUME NEW k \in 1 .. n, k - 1 \in Good PROVE k \in Good
    <2>1. PICK g : Told(g, on, es, k - 1)
      BY <1>2
    <2>2. PICK end : end = IF k \in on THEN Append(g[k - 1], es[k]) ELSE g[k - 1]
      OBVIOUS
    <2> DEFINE h == [j \in 0 .. k |-> IF j = k THEN end ELSE g[j]]
    <2>3. h[k] = end /\ \A j \in 0 .. k - 1 : h[j] = g[j]
      OBVIOUS
    <2>4. h = [j \in 0 .. k |-> h[j]]
      OBVIOUS
    <2> HIDE DEF h
    <2>5. ASSUME NEW j \in 0 .. k
          PROVE  h[j] = IF j = 0 THEN <<>>
                        ELSE IF j \in on THEN Append(h[j - 1], es[j]) ELSE h[j - 1]
      <3>1. CASE j = k
        <4>1. k - 1 \in 0 .. k - 1 /\ j # 0
          BY <3>1
        <4>2. h[j] = end /\ h[j - 1] = g[j - 1]
          BY <2>3, <3>1, <4>1
        <4> QED BY <2>2, <3>1, <4>1, <4>2
      <3>2. CASE j # k
        <4>1. j \in 0 .. k - 1 /\ (j # 0 => j - 1 \in 0 .. k - 1)
          BY <3>2
        <4>2. h[j] = g[j] /\ (j # 0 => h[j - 1] = g[j - 1])
          BY <2>3, <4>1
        <4>3. g[j] = IF j = 0 THEN <<>>
                     ELSE IF j \in on THEN Append(g[j - 1], es[j]) ELSE g[j - 1]
          BY <2>1, <4>1 DEF Told
        <4> QED BY <4>2, <4>3
      <3> QED BY <3>1, <3>2
    <2>6. Told(h, on, es, k)
      BY <2>4, <2>5 DEF Told
    <2> QED BY <2>6
  <1>3. Good \in SUBSET (0 .. n)
    OBVIOUS
  <1>4. \A k \in Good : \E g : Told(g, on, es, k)
    OBVIOUS
  <1> HIDE DEF Good
  <1> QED BY <1>1, <1>2, <1>3, <1>4, UpTo

\* The updates are those of the stacks that are filled, in turn.
Tells(told, t, order, left, n) ==
  /\ told[0] = <<>>
  /\ \A k \in 1 .. n :
       LET row == t[order[k]]
           new == NewQuantity(row.quantity, left[k - 1])
       IN told[k] = IF Fills(row.quantity, left[k - 1])
                    THEN Append(told[k - 1], Updated(row.item, new, row.slot))
                    ELSE told[k - 1]

LEMMA UpdatesAre ==
  ASSUME NEW t, NEW order, NEW left, NEW n \in Nat, n = Len(order)
  PROVE  \E told : Tells(told, t, order, left, n) /\ Updates(t, order, left) = told[n]
  <1> DEFINE filled(k) == Fills(t[order[k]].quantity, left[k - 1])
             new(k) == NewQuantity(t[order[k]].quantity, left[k - 1])
             event(k) == TellsQuantity(t[order[k]], new(k))
             F(g) == g = [k \in 0 .. n |->
                            IF k = 0 THEN <<>>
                            ELSE IF filled(k) THEN Append(g[k - 1], event(k)) ELSE g[k - 1]]
             told == CHOOSE g : F(g)
             on == {k \in 1 .. n : filled(k)}
             es == [k \in 1 .. n |-> event(k)]
  <1>1. Updates(t, order, left) = told[n]
    BY DEF Updates
  <1>2. \A k \in 1 .. n : event(k) = Updated(t[order[k]].item, new(k), t[order[k]].slot)
    BY DEF TellsQuantity
  <1> HIDE DEF filled, new, event
  <1>3. \A k \in 1 .. n : (k \in on <=> filled(k)) /\ es[k] = event(k)
    OBVIOUS
  <1> HIDE DEF on, es
  <1>4. \E g : F(g)
    <2>1. PICK g : Told(g, on, es, n)
      BY ToldExists
    <2>2. ASSUME NEW k \in 0 .. n
          PROVE  g[k] = IF k = 0 THEN <<>>
                        ELSE IF filled(k) THEN Append(g[k - 1], event(k)) ELSE g[k - 1]
      <3>1. g[k] = IF k = 0 THEN <<>>
                   ELSE IF k \in on THEN Append(g[k - 1], es[k]) ELSE g[k - 1]
        BY <2>1 DEF Told
      <3>2. k # 0 => k \in 1 .. n
        OBVIOUS
      <3> QED BY <1>3, <3>1, <3>2
    <2>3. g = [k \in 0 .. n |-> g[k]]
      BY <2>1 DEF Told
    <2> QED BY <2>2, <2>3
  <1>5. F(told)
    <2> HIDE DEF F
    <2> QED BY <1>4
  <1> HIDE DEF told
  <1>6. told[0] = <<>>
    BY <1>5
  <1>7. \A k \in 1 .. n : told[k] = IF filled(k) THEN Append(told[k - 1], event(k)) ELSE told[k - 1]
    <2>1. \A k \in 0 .. n : told[k] = IF k = 0 THEN <<>>
                                      ELSE IF filled(k) THEN Append(told[k - 1], event(k))
                                      ELSE told[k - 1]
      BY <1>5
    <2>2. \A k \in 1 .. n : k \in 0 .. n /\ k # 0
      OBVIOUS
    <2> QED BY <2>1, <2>2
  <1>8. Tells(told, t, order, left, n)
    BY <1>2, <1>6, <1>7 DEF Tells, filled, new
  <1> QED BY <1>1, <1>8

\* The table after k stacks.
Filled(t, f, order, k) ==
  [r \in DOMAIN t |-> IF \E j \in 1 .. k : order[j] = r THEN f[r] ELSE t[r]]

\* They show the stacks filled.
LEMMA UpdatesLead ==
  ASSUME NEW t, IsTable(t), Distinct(t), NEW f, NEW item, NEW quantity, NEW order, NEW left,
         Fill(t, f, item, quantity, order, left)
  PROVE  Leads(Pic(t), Updates(t, order, left), Pic(f))
  <1>1. PICK n \in Nat : n = Len(order)
    BY DEF Fill
  <1>2. PICK told : Tells(told, t, order, left, n) /\ Updates(t, order, left) = told[n]
    BY <1>1, UpdatesAre
  <1>3. /\ \A k \in 1 .. n : order[k] \in DOMAIN t
        /\ \A j, k \in 1 .. n : order[j] = order[k] => j = k
        /\ DOMAIN f = DOMAIN t /\ f = [r \in DOMAIN t |-> f[r]]
        /\ \A r \in DOMAIN t : f[r].item = t[r].item /\ f[r].slot = t[r].slot
        /\ \A r \in DOMAIN t : (\A k \in 1 .. n : order[k] # r) => f[r] = t[r]
        /\ \A k \in 1 .. n :
             f[order[k]].quantity = StackAfter(t[order[k]].quantity, left[k - 1])
    BY <1>1 DEF Fill, Stacks, IsTable
  <1>4. \A r \in DOMAIN t : t[r] \in Row /\ f[r] \in Row
    BY DEF Fill, IsTable
  <1> DEFINE u(k) == Filled(t, f, order, k)
  <1>5. ASSUME NEW k \in 0 .. n
        PROVE  /\ IsTable(u(k)) /\ Distinct(u(k)) /\ DOMAIN u(k) = DOMAIN t
               /\ \A r \in DOMAIN t :
                    u(k)[r] = IF \E j \in 1 .. k : order[j] = r THEN f[r] ELSE t[r]
    <2>1. DOMAIN u(k) = DOMAIN t /\ u(k) = [r \in DOMAIN t |-> u(k)[r]]
      BY DEF Filled
    <2>2. \A r \in DOMAIN t : u(k)[r] = IF \E j \in 1 .. k : order[j] = r THEN f[r] ELSE t[r]
      BY DEF Filled
    <2> HIDE DEF u
    <2>3. \A r \in DOMAIN t : u(k)[r] \in Row /\ u(k)[r].slot = t[r].slot
      BY <1>3, <1>4, <2>2
    <2>4. IsTable(u(k))
      BY <2>1, <2>3 DEF IsTable
    <2>5. Distinct(u(k))
      BY <2>1, <2>3 DEF Distinct
    <2> QED BY <2>1, <2>2, <2>4, <2>5
  <1>6. u(0) = t
    <2>1. t = [r \in DOMAIN t |-> t[r]]
      BY DEF IsTable
    <2> QED BY <2>1 DEF Filled
  <1>7. u(n) = f
    <2>1. \A r \in DOMAIN t : u(n)[r] = f[r]
      BY <1>3 DEF Filled
    <2>2. u(n) = [r \in DOMAIN t |-> u(n)[r]]
      BY DEF Filled
    <2> HIDE DEF u
    <2> QED BY <1>3, <2>1, <2>2
  <1>8. \A k \in 0 .. n : u(k) = [r \in DOMAIN t |-> u(k)[r]]
    BY DEF Filled
  <1> HIDE DEF u
  <1> DEFINE Good == {k \in 0 .. n : Leads(Pic(t), told[k], Pic(u(k)))}
  <1>9. 0 \in Good
    BY <1>2, <1>6, LeadsNowhere DEF Tells
  <1>10. ASSUME NEW k \in 1 .. n, k - 1 \in Good PROVE k \in Good
    <2>1. k \in 0 .. n /\ k - 1 \in 0 .. n
      OBVIOUS
    <2>2. PICK q \in DOMAIN t : q = order[k]
      BY <1>3
    <2>3. PICK v, w : v = u(k - 1) /\ w = u(k)
      OBVIOUS
    <2>4. w[q] = f[q] /\ v[q] = t[q]
      <3>1. w[q] = f[q]
        <4>1. k \in 1 .. k /\ order[k] = q
          BY <2>2
        <4> QED BY <1>5, <2>1, <2>3, <4>1
      <3>2. ~ \E j \in 1 .. k - 1 : order[j] = q
        BY <1>3, <2>2
      <3> QED BY <1>5, <2>1, <2>3, <3>1, <3>2
    <2>5. ASSUME NEW r \in DOMAIN t, r # q PROVE w[r] = v[r]
      <3>1. (\E j \in 1 .. k - 1 : order[j] = r) <=> (\E j \in 1 .. k : order[j] = r)
        <4>1. \A j \in 1 .. k : j \in 1 .. k - 1 \/ j = k
          OBVIOUS
        <4>2. \A j \in 1 .. k - 1 : j \in 1 .. k
          OBVIOUS
        <4> QED BY <2>2, <2>5, <4>1, <4>2
      <3> QED BY <1>5, <2>1, <2>3, <3>1
    <2>6. /\ IsTable(v) /\ Distinct(v) /\ DOMAIN v = DOMAIN t
          /\ IsTable(w) /\ Distinct(w) /\ DOMAIN w = DOMAIN t
          /\ w = [r \in DOMAIN t |-> w[r]] /\ v = [r \in DOMAIN t |-> v[r]]
      BY <1>5, <1>8, <2>1, <2>3
    <2>7. PICK old, new : old = t[q].quantity /\ new = NewQuantity(old, left[k - 1])
      OBVIOUS
    <2>8. told[k] = IF Fills(old, left[k - 1])
                    THEN Append(told[k - 1], Updated(t[q].item, new, t[q].slot))
                    ELSE told[k - 1]
      BY <1>2, <2>2, <2>7 DEF Tells
    <2>9. f[q].quantity = IF Fills(old, left[k - 1]) THEN new ELSE old
      BY <1>3, <2>2, <2>7 DEF StackAfter
    <2>10. PICK es : es = told[k - 1] /\ Leads(Pic(t), es, Pic(v))
      BY <1>10, <2>3
    <2>11. CASE Fills(old, left[k - 1])
      <3>1. PICK e : e = Updated(t[q].item, new, t[q].slot)
        OBVIOUS
      <3>2. e \in Event /\ e.slot = w[q].slot /\ Stack(e) = Stack(w[q])
        <4>1. /\ f[q].item = t[q].item /\ f[q].slot = t[q].slot /\ f[q].quantity = new
              /\ new \in Int /\ t[q].item \in Items /\ t[q].slot \in Int
          BY <1>3, <1>4, <2>9, <2>11 DEF Row
        <4> QED BY <2>4, <3>1, <4>1 DEF Event, Updated, Stack
      <3>3. Written(v, w, q)
        BY <1>3, <2>4, <2>5, <2>6 DEF Written
      <3>4. Pic(w) = Shown(Pic(v), e.slot, Stack(e))
        BY <2>6, <3>2, <3>3, PicWritten
      <3>5. Leads(Pic(v), <<e>>, Pic(w))
        BY <3>2, <3>4, LeadsOne
      <3>6. Leads(Pic(t), es \o <<e>>, Pic(w))
        BY <2>10, <3>5, LeadsOn
      <3>7. told[k] = es \o <<e>>
        <4>1. es \in Seq(Event) /\ e \in Event
          BY <2>10, <3>2 DEF Leads
        <4>2. told[k] = Append(es, e)
          BY <2>8, <2>10, <2>11, <3>1
        <4> QED BY <4>1, <4>2
      <3> QED BY <2>1, <2>3, <3>6, <3>7
    <2>12. CASE ~Fills(old, left[k - 1])
      <3>1. f[q] = t[q]
        BY <1>3, <1>4, <2>7, <2>9, <2>12 DEF Row
      <3>2. w = v
        BY <2>4, <2>5, <2>6, <3>1
      <3>3. told[k] = es
        BY <2>8, <2>10, <2>12
      <3> QED BY <2>1, <2>3, <2>10, <3>2, <3>3
    <2> QED BY <2>11, <2>12
  <1>11. Good \in SUBSET (0 .. n)
    OBVIOUS
  <1>12. \A k \in Good : Leads(Pic(t), told[k], Pic(u(k)))
    OBVIOUS
  <1> HIDE DEF Good
  <1>13. n \in Good
    BY <1>9, <1>10, <1>11, UpTo
  <1> QED BY <1>2, <1>7, <1>12, <1>13

\* One more row of what is left.
LEMMA NextStack ==
  ASSUME NEW t, IsTable(t), Distinct(t), ~Occupied(t, Temp),
         nextId \in Nat \ {0}, DOMAIN t \subseteq 1 .. nextId - 1,
         NEW item \in Items, NEW k \in Nat \ {0}, NEW p, NEW slots,
         \A j \in 1 .. k : p[j] \in 0 .. SlotMax,
         \A j \in 1 .. k : slots[j] \in FreeSlots(WithStacks(t, item, p, slots, j - 1)),
         NEW v, v = WithStacks(t, item, p, slots, k - 1),
         NEW w, w = WithStacks(t, item, p, slots, k)
  PROVE  /\ IsTable(v) /\ Distinct(v)
         /\ \E row : /\ Written(v, w, row)
                     /\ w[row].item = item /\ w[row].quantity = p[k] /\ w[row].slot = slots[k]
  <1>1. IsTable(w) /\ Distinct(w)
    BY WithStacksRows
  <1>2. IsTable(v) /\ Distinct(v)
    <2>1. k - 1 \in Nat /\ \A j \in 1 .. k - 1 : j \in 1 .. k
      OBVIOUS
    <2>2. /\ \A j \in 1 .. k - 1 : p[j] \in 0 .. SlotMax
          /\ \A j \in 1 .. k - 1 : slots[j] \in FreeSlots(WithStacks(t, item, p, slots, j - 1))
      BY <2>1
    <2>3. PICK m \in Nat : m = k - 1
      BY <2>1
    <2>4. v = WithStacks(t, item, p, slots, m)
      BY <2>3
    <2> QED BY <2>2, <2>3, <2>4, WithStacksRows
  <1>3. PICK row : row = nextId + k - 1
    OBVIOUS
  <1>4. row \notin DOMAIN t /\ row - nextId + 1 = k /\ row \in Nat /\ nextId <= row
        /\ nextId + (k - 1) - 1 = row - 1
    BY <1>3
  <1>5. DOMAIN w = DOMAIN t \cup nextId .. row /\ DOMAIN v = DOMAIN t \cup nextId .. row - 1
    BY <1>3, <1>4 DEF WithStacks
  <1>6. PICK s, x : s = slots[k] /\ x = p[k]
    OBVIOUS
  <1>7. w[row] = [item |-> item, slot |-> s, quantity |-> x]
    BY <1>3, <1>4, <1>5, <1>6 DEF WithStacks
  <1>8. \A q \in DOMAIN v : w[q] = v[q]
    BY <1>4, <1>5 DEF WithStacks
  <1>9. DOMAIN w = DOMAIN v \cup {row} /\ row \notin DOMAIN v /\ row \in DOMAIN w
    BY <1>4, <1>5
  <1>10. Written(v, w, row)
    BY <1>1, <1>8, <1>9 DEF Written
  <1>11. w[row].item = item /\ w[row].quantity = x /\ w[row].slot = s
    BY <1>7
  <1> QED BY <1>2, <1>6, <1>10, <1>11

\* The rest of the events show the new rows.
LEMMA AddsLead ==
  ASSUME NEW t, IsTable(t), Distinct(t), ~Occupied(t, Temp),
         nextId \in Nat \ {0}, DOMAIN t \subseteq 1 .. nextId - 1,
         NEW item \in Items, NEW n \in Nat, NEW p, NEW slots,
         \A k \in 1 .. n : p[k] \in 0 .. SlotMax,
         \A k \in 1 .. n : slots[k] \in FreeSlots(WithStacks(t, item, p, slots, k - 1))
  PROVE  Leads(Pic(t), [k \in 1 .. n |-> Added(item, p[k], slots[k])],
               Pic(WithStacks(t, item, p, slots, n)))
  <1> DEFINE u(k) == WithStacks(t, item, p, slots, k)
             pics == [k \in 0 .. n |-> Pic(u(k))]
  <1>1. \A k \in 1 .. n : k \in 0 .. n /\ k - 1 \in 0 .. n /\ k \in Nat \ {0}
    OBVIOUS
  <1>2. \A k \in 0 .. n : pics[k] = Pic(u(k))
    OBVIOUS
  <1> HIDE DEF pics
  <1>3. PICK es : es = [k \in 1 .. n |-> Added(item, p[k], slots[k])]
    OBVIOUS
  <1>4. \A k \in 1 .. n : es[k] = Added(item, p[k], slots[k])
    BY <1>3
  <1>5. ASSUME NEW k \in 1 .. n
        PROVE  es[k] \in Event /\ pics[k] = Apply(pics[k - 1], es[k], Stack)
    <2>1. /\ \A j \in 1 .. k : p[j] \in 0 .. SlotMax
          /\ \A j \in 1 .. k : slots[j] \in FreeSlots(WithStacks(t, item, p, slots, j - 1))
      OBVIOUS
    <2>2. PICK v, w : v = u(k - 1) /\ w = u(k)
      OBVIOUS
    <2>3. /\ IsTable(v) /\ Distinct(v)
          /\ \E row : /\ Written(v, w, row)
                      /\ w[row].item = item /\ w[row].quantity = p[k] /\ w[row].slot = slots[k]
      BY <1>1, <2>1, <2>2, NextStack
    <2>4. PICK row, x, s : /\ Written(v, w, row) /\ x = p[k] /\ s = slots[k]
                           /\ w[row].item = item /\ w[row].quantity = x /\ w[row].slot = s
      BY <2>3
    <2>5. PICK e : e = es[k] /\ e = Added(item, x, s)
      BY <1>4, <2>4
    <2>6. e.type = "ADD" /\ e.slot = w[row].slot /\ Stack(e) = Stack(w[row])
      BY <2>4, <2>5 DEF Added, Stack
    <2>7. e \in Event
      <3>1. w[row] \in Row
        BY <2>4 DEF Written, IsTable
      <3>2. x \in Int /\ s \in Int
        BY <2>4, <3>1 DEF Row
      <3> QED BY <2>5, <3>2 DEF Added, Event
    <2>8. Pic(w) = Shown(Pic(v), e.slot, Stack(e))
      BY <2>3, <2>4, <2>6, PicWritten
    <2>9. Apply(Pic(v), e, Stack) = Shown(Pic(v), e.slot, Stack(e))
      BY <2>6 DEF Apply, Shown
    <2>10. pics[k] = Pic(w) /\ pics[k - 1] = Pic(v)
      BY <1>1, <1>2, <2>2
    <2> QED BY <2>5, <2>7, <2>8, <2>9, <2>10
  <1>6. es \in Seq(Event) /\ Len(es) = n
    BY <1>3, <1>4, <1>5
  <1>7. u(0) = t
    <2>1. nextId .. nextId + 0 - 1 = {} /\ t = [r \in DOMAIN t |-> t[r]]
      BY DEF IsTable
    <2> QED BY <2>1 DEF WithStacks
  <1>8. pics[0] = Pic(t) /\ pics[n] = Pic(u(n))
    BY <1>2, <1>7
  <1> HIDE DEF u
  <1>9. Pictures(Pic(t), es, Pic(u(n)), n, pics)
    BY <1>5, <1>8 DEF Pictures
  <1>10. Leads(Pic(t), es, Pic(u(n)))
    BY <1>6, <1>9 DEF Leads
  <1> QED BY <1>3, <1>10 DEF u

\* The events published account for what has become of the rows.
Accounted == Replay(Pic(items), last'.events, Stack) = Pic(items')

LEMMA CreateTells ==
  ASSUME RowsOK, SlotsOK, NEW item \in Items, NEW quantity \in Quantity,
         CreatesItem(item, quantity)
  PROVE  Accounted
  <1>1. PICK f, order, left :
          /\ Fill(items, f, item, quantity, order, left)
          /\ \E slots, n : Adds(f, item, quantity, left[Len(order)],
                                Updates(items, order, left), slots, n)
    BY CreateUnfolds
  <1>2. PICK slots, n : Adds(f, item, quantity, left[Len(order)],
                             Updates(items, order, left), slots, n)
    BY <1>1
  <1>3. PICK end \in Nat : end = left[Len(order)]
    <2>1. Len(order) \in 0 .. Len(order) /\ \A k \in 0 .. Len(order) : left[k] \in Quantity
      BY <1>1 DEF Fill, LeftBy
    <2> QED BY <2>1 DEF Quantity
  <1>4. PICK p : p = Portions(end)
    OBVIOUS
  <1>5. n \in Nat /\ \A k \in 1 .. n : p[k] \in 0 .. SlotMax
    BY <1>2, <1>3, <1>4, PortionsHold DEF Adds
  <1>6. PICK told, new : /\ told = Updates(items, order, left)
                         /\ new = [k \in 1 .. n |-> Added(item, p[k], slots[k])]
    OBVIOUS
  <1>7. /\ \A k \in 1 .. n : slots[k] \in FreeSlots(WithStacks(f, item, p, slots, k - 1))
        /\ items' = WithStacks(f, item, p, slots, n)
        /\ last'.events = told \o new
    BY <1>2, <1>3, <1>4, <1>6 DEF Adds
  <1>8. /\ IsTable(items) /\ Distinct(items)
        /\ IsTable(f) /\ DOMAIN f \subseteq 1 .. nextId - 1 /\ nextId \in Nat \ {0}
        /\ Distinct(f) /\ ~Occupied(f, Temp)
    <2>1. DOMAIN f = DOMAIN items /\ \A r \in DOMAIN items : f[r].slot = items[r].slot
      BY <1>1 DEF Fill
    <2>2. Distinct(f) /\ ~Occupied(f, Temp)
      BY <2>1 DEF SlotsOK, Distinct, Occupied
    <2> QED BY <1>1, <2>1, <2>2 DEF Fill, RowsOK, SlotsOK
  <1>9. Leads(Pic(items), told, Pic(f))
    BY <1>1, <1>6, <1>8, UpdatesLead
  <1>10. Leads(Pic(f), new, Pic(items'))
    BY <1>5, <1>6, <1>7, <1>8, AddsLead
  <1>11. Leads(Pic(items), told \o new, Pic(items'))
    BY <1>9, <1>10, LeadsOn
  <1> QED BY <1>7, <1>11, LeadsReplay DEF Accounted

\* A command that does nothing publishes nothing, or an exchange of a slot with
\* itself.
LEMMA NothingTold ==
  ASSUME items' = items, last'.events = <<>>
  PROVE  Accounted
  <1>1. Leads(Pic(items), <<>>, Pic(items))
    BY LeadsNowhere
  <1> QED BY <1>1, LeadsReplay DEF Accounted

LEMMA RollBackTells ==
  ASSUME NEW command, RollsBack(command)
  PROVE  Accounted
  <1>1. items' = items /\ last'.events = <<>>
    BY DEF RollsBack, Reports
  <1> QED BY <1>1, NothingTold

\* One event is applied as it is.
LEMMA ReplayOne ==
  ASSUME NEW p, NEW e, NEW q, Apply(p, e, Stack) = q
  PROVE  Replay(p, <<e>>, Stack) = q
  <1> DEFINE pics == [k \in 0 .. 1 |-> IF k = 0 THEN p ELSE q]
  <1>1. pics[0] = p /\ pics[1] = q
    OBVIOUS
  <1> HIDE DEF pics
  <1>2. Len(<<e>>) = 1 /\ <<e>>[1] = e
    OBVIOUS
  <1>3. \A k \in 1 .. 1 : pics[k] = Apply(pics[k - 1], <<e>>[k], Stack)
    BY <1>1, <1>2
  <1>4. Pictures(p, <<e>>, q, 1, pics)
    BY <1>1, <1>3 DEF Pictures
  <1> QED BY <1>2, <1>4, ReplaySteps

-----------------------------------------------------------------------------
\* A command that names a slot names one a client can: not zero, which the
\* queries take for every row.
NoSlotZero == 0 \notin CommandSlots

\* What every step does, for the three properties at once.
Named == \A r \in DOMAIN items :
           \/ items[r].slot \in {last'.source, last'.destination}
           \/ items[r].item = last'.item
           \/ r \in DOMAIN items' /\ items'[r] = items[r]

Keeps == RowsOK' /\ (NoSlotZero /\ SlotsOK => SlotsOK' /\ Named)

LEMMA SameRowsKeep ==
  ASSUME RowsOK, UNCHANGED <<items, nextId>>
  PROVE  Keeps
  BY DEF RowsOK, SlotsOK, Keeps, Named

LEMMA RollBackKeeps ==
  ASSUME RowsOK, NEW command, RollsBack(command)
  PROVE  Keeps
  BY SameRowsKeep DEF RollsBack

\* A create that fails leaves the rows, under ids below those it took.
LEMMA FailedCreate ==
  ASSUME RowsOK, NEW item, NEW quantity \in Quantity, FailsToCreate(item, quantity)
  PROVE  /\ Keeps
         /\ items' = items /\ last'.op = "create"
         /\ last'.result = "failed" /\ last'.events = <<>>
  <1>1. PICK n \in Nat : n = Len(Portions(quantity))
    <2>1. PICK n : n = Len(Portions(quantity))
      OBVIOUS
    <2>2. quantity \in Nat
      BY ItemAssumption DEF Quantity
    <2> QED BY <2>1, <2>2, PortionsHold
  <1>2. PICK taken \in 0 .. n : nextId' = nextId + taken
    BY <1>1 DEF FailsToCreate
  <1>3. /\ items' = items /\ last'.op = "create"
        /\ last'.result = "failed" /\ last'.events = <<>>
    BY DEF FailsToCreate, Reports, Command
  <1>4. nextId' \in Nat \ {0} /\ DOMAIN items \subseteq 1 .. nextId' - 1
    BY <1>2 DEF RowsOK
  <1>5. RowsOK'
    BY <1>3, <1>4 DEF RowsOK
  <1> QED BY <1>3, <1>5 DEF Keeps, SlotsOK, Named

LEMMA CreateKeeps ==
  ASSUME RowsOK, NEW item \in Items, NEW quantity \in Quantities, CreateItem(item, quantity)
  PROVE  Keeps
  <1>1. PICK asked \in Quantity : asked = IF quantity = 0 THEN 1 ELSE quantity
    BY ItemAssumption DEF Quantity
  <1>2. CASE CreatesItem(item, asked)
    BY <1>2, CreatesRows DEF Keeps, Named
  <1>3. CASE FailsToCreate(item, asked)
    BY <1>3, FailedCreate
  <1> QED BY <1>1, <1>2, <1>3 DEF CreateItem

LEMMA MoveKeeps ==
  ASSUME RowsOK, NEW source \in CommandSlots, NEW destination \in CommandSlots,
         moveItem(source, destination)
  PROVE  Keeps
  <1>0. SUFFICES ASSUME ~RollsBack(Command("move", source, destination, NoItem, 0))
                 PROVE  Keeps
    BY RollBackKeeps
  <1>1. /\ items' = Exchange(items, source, destination) /\ nextId' = nextId
        /\ last'.source = source /\ last'.destination = destination
    BY <1>0 DEF moveItem, Reports, Command
  <1>2. source \in Int /\ destination \in Int /\ Temp \in Int
    BY ItemAssumption DEF Temp
  <1>3. RowsOK'
    <2> DEFINE a == MoveRow(items, destination, Temp)
               b == MoveRow(a, source, destination)
               e == MoveRow(b, Temp, source)
    <2>1. Reslots(items, a)
      BY <1>2, MoveRowReslots DEF RowsOK
    <2> HIDE DEF a
    <2>2. Reslots(a, b)
      BY <1>2, <2>1, MoveRowReslots DEF Reslots
    <2> HIDE DEF b
    <2>3. Reslots(b, e)
      BY <1>2, <2>2, MoveRowReslots DEF Reslots
    <2>4. items' = e
      BY <1>1 DEF Exchange, ExchangeUnrestored, a, b
    <2> HIDE DEF e
    <2> QED BY <1>1, <2>1, <2>2, <2>3, <2>4 DEF Reslots, RowsOK
  <1>4. ASSUME NoSlotZero, SlotsOK PROVE SlotsOK' /\ Named
    <2>1. source \in Slot /\ destination \in Slot
      BY <1>2, <1>4, ItemAssumption DEF NoSlotZero, Slot
    <2>2. /\ DOMAIN items' = DOMAIN items /\ Distinct(items') /\ ~Occupied(items', Temp)
          /\ \A r \in DOMAIN items :
               items[r].slot \notin {source, destination} => items'[r] = items[r]
      BY <1>1, <1>4, <2>1, ExchangeRows DEF RowsOK, SlotsOK, Traded
    <2> QED BY <1>1, <2>2 DEF SlotsOK, Named
  <1> QED BY <1>3, <1>4 DEF Keeps

\* One row goes.
LEMMA WithoutRow ==
  ASSUME RowsOK, NEW row, items' = Without(items, row), nextId' = nextId
  PROVE  /\ RowsOK' /\ (SlotsOK => SlotsOK')
         /\ \A r \in DOMAIN items : r # row => r \in DOMAIN items' /\ items'[r] = items[r]
  <1>1. /\ DOMAIN items' = DOMAIN items \ {row}
        /\ \A r \in DOMAIN items' : items'[r] = items[r]
    BY DEF Without
  <1>2. IsFiniteSet(DOMAIN items')
    BY <1>1, FS_Subset DEF RowsOK, IsTable
  <1>3. items' \in [DOMAIN items' -> Row]
    BY <1>1 DEF RowsOK, IsTable, Without
  <1>4. RowsOK'
    BY <1>1, <1>2, <1>3 DEF RowsOK, IsTable
  <1>5. SlotsOK => SlotsOK'
    BY <1>1 DEF SlotsOK, Distinct, Occupied
  <1> QED BY <1>1, <1>4, <1>5

\* One row has another quantity.
LEMMA RowLeft ==
  ASSUME RowsOK, NEW row \in DOMAIN items, NEW rest \in 0 .. SlotMax,
         items' = [items EXCEPT ![row].quantity = rest], nextId' = nextId
  PROVE  /\ RowsOK' /\ (SlotsOK => SlotsOK')
         /\ \A r \in DOMAIN items : r # row => r \in DOMAIN items' /\ items'[r] = items[r]
  <1>1. \A r \in DOMAIN items : items[r] \in Row
    BY DEF RowsOK, IsTable
  <1>2. /\ DOMAIN items' = DOMAIN items
        /\ \A r \in DOMAIN items : r # row => items'[r] = items[r]
        /\ items'[row] = [items[row] EXCEPT !.quantity = rest]
    OBVIOUS
  <1>3. items'[row] \in Row /\ items'[row].slot = items[row].slot
    BY <1>1, <1>2 DEF Row
  <1>4. items' \in [DOMAIN items -> Row]
    BY <1>1, <1>2, <1>3
  <1>5. RowsOK'
    BY <1>2, <1>4 DEF RowsOK, IsTable
  <1>6. SlotsOK => SlotsOK'
    BY <1>2, <1>3 DEF SlotsOK, Distinct, Occupied
  <1> QED BY <1>2, <1>5, <1>6

LEMMA DropKeeps ==
  ASSUME RowsOK, NEW source \in CommandSlots, NEW quantity \in Drops,
         dropItem(source, quantity)
  PROVE  Keeps
  <1> DEFINE row == Found(items, source)
             asked == Uint32(quantity)
             initial == items[row].quantity
  <1>1. CASE RollsBack(Command("drop", source, 0, NoItem, quantity))
    BY <1>1, RollBackKeeps
  <1>2. CASE ~RollsBack(Command("drop", source, 0, NoItem, quantity))
    <2>1. /\ Matches(items, source) # {} /\ nextId' = nextId /\ last'.source = source
          /\ \/ items' = Without(items, row)
             \/ /\ ~DropsAll(initial, asked)
                /\ items' = [items EXCEPT ![row].quantity = Rest(initial, asked)]
      BY <1>2 DEF dropItem, Reports, Command
    <2>2. row \in DOMAIN items /\ (source # 0 => items[row].slot = source)
      BY <2>1, FoundIs DEF RowsOK
    <2>3. initial \in 0 .. SlotMax
      BY <2>2 DEF RowsOK, IsTable, Row
    <2>4. asked \in Nat
      <3>1. Word \in Nat \ {0} /\ quantity \in Int
        BY ItemAssumption
      <3> QED BY <3>1 DEF Uint32
    <2>5. ~DropsAll(initial, asked) => Rest(initial, asked) \in 0 .. SlotMax
      BY <2>3, <2>4, ItemAssumption DEF DropsAll, Rest
    <2>6. /\ RowsOK' /\ (SlotsOK => SlotsOK')
          /\ \A r \in DOMAIN items : r # row => r \in DOMAIN items' /\ items'[r] = items[r]
      <3> HIDE DEF row, initial, asked
      <3>1. CASE items' = Without(items, row)
        BY <2>1, <3>1, WithoutRow
      <3>2. CASE /\ ~DropsAll(initial, asked)
                 /\ items' = [items EXCEPT ![row].quantity = Rest(initial, asked)]
        <4>1. PICK rest \in 0 .. SlotMax : rest = Rest(initial, asked)
          BY <2>5, <3>2
        <4> QED BY <2>1, <2>2, <3>2, <4>1, RowLeft
      <3> QED BY <2>1, <3>1, <3>2
    <2>7. NoSlotZero => items[row].slot = last'.source
      BY <2>1, <2>2 DEF NoSlotZero
    <2> QED BY <2>6, <2>7 DEF Keeps, Named
  <1> QED BY <1>1, <1>2

\* What a drop of quantity takes of the row it finds.
Takes(row, quantity) ==
  IF quantity < 0 THEN items[row].quantity ELSE Min({quantity, items[row].quantity})

LEMMA TakenIs ==
  ASSUME RowsOK, NEW row \in DOMAIN items, NEW quantity \in Drops
  PROVE  LET initial == items[row].quantity
             asked == Uint32(quantity)
         IN /\ initial \in 0 .. SlotMax /\ Takes(row, quantity) \in 0 .. initial
            /\ DropsAll(initial, asked) => Takes(row, quantity) = initial
            /\ ~DropsAll(initial, asked) => Rest(initial, asked) = initial - Takes(row, quantity)
  <1>1. PICK initial \in 0 .. SlotMax : initial = items[row].quantity
    BY DEF RowsOK, IsTable, Row
  <1>2. /\ SlotMax \in Nat \ {0} /\ Word \in Nat \ {0} /\ SlotMax < Word
        /\ quantity \in Int /\ SlotMax - Word <= quantity /\ quantity < Word
    BY ItemAssumption
  <1>3. PICK asked \in Int : asked = Uint32(quantity)
    BY <1>2 DEF Uint32
  <1>4. asked = IF quantity < 0 THEN quantity + Word ELSE quantity
    <2>1. 0 - Word <= quantity /\ quantity < Word + Word
      BY <1>2
    <2> QED BY <1>2, <1>3, <2>1, ModNear DEF Uint32
  <1>5. Takes(row, quantity) = IF quantity < 0 THEN initial
                               ELSE IF quantity <= initial THEN quantity ELSE initial
    BY <1>1, <1>2, MinOfTwo DEF Takes
  <1> QED BY <1>1, <1>2, <1>3, <1>4, <1>5 DEF DropsAll, Rest

\* It takes it of that row and nothing of any other.
LEMMA DropTakes ==
  ASSUME RowsOK, NEW source \in CommandSlots, NEW quantity \in Drops,
         dropItem(source, quantity), last'.result = "ok"
  PROVE  LET row == Found(items, source) IN
         /\ last'.source = source /\ last'.quantity = quantity
         /\ \A item \in Items :
              Held(items', item) =
                Held(items, item) - (IF items[row].item # item THEN 0 ELSE Takes(row, quantity))
  <1> DEFINE asked == Uint32(quantity)
             found == Found(items, source)
             initial == items[found].quantity
  <1>1. /\ Matches(items, source) # {}
        /\ last'.source = source /\ last'.quantity = quantity
        /\ \/ DropsAll(initial, asked) /\ items' = Without(items, found)
           \/ /\ ~DropsAll(initial, asked)
              /\ items' = [items EXCEPT ![found].quantity = Rest(initial, asked)]
    BY DEF dropItem, RollsBack, Reports, Command
  <1>2. PICK row \in DOMAIN items : row = found
    BY <1>1, FoundIs DEF RowsOK
  <1>3. PICK taken \in Int : taken = Takes(row, quantity)
    BY <1>2, TakenIs, ItemAssumption
  <1>4. /\ items[row].quantity \in 0 .. SlotMax /\ taken \in 0 .. items[row].quantity
        /\ \/ taken = items[row].quantity /\ items' = Without(items, row)
           \/ items' = [items EXCEPT ![row].quantity = items[row].quantity - taken]
    BY <1>1, <1>2, <1>3, TakenIs
  <1>5. ASSUME NEW item \in Items
        PROVE  Held(items', item) =
                 Held(items, item) - (IF items[row].item # item THEN 0 ELSE taken)
    <2>1. PICK S : S = Stacks(items, item)
      OBVIOUS
    <2>2. Counts(items, S) /\ Total(items, S) \in Int
      BY <2>1, StacksCount, SumIsInt DEF RowsOK
    <2>3. row \in S <=> items[row].item = item
      BY <2>1 DEF Stacks
    <2>4. Held(items, item) = Total(items, S)
      BY <2>1, HeldIs
    <2>5. PICK w : w = items'
      OBVIOUS
    <2>6. Held(items', item) = Total(w, Stacks(w, item))
      BY <2>5, HeldIs
    <2>7. CASE taken = items[row].quantity /\ items' = Without(items, row)
      <3>1. PICK R : R = S \ {row}
        OBVIOUS
      <3>2. Stacks(w, item) = R /\ \A r \in R : w[r].quantity = items[r].quantity
        BY <2>1, <2>5, <2>7, <3>1 DEF Stacks, Without
      <3>3. Counts(items, R)
        <4>1. IsFiniteSet(R)
          BY <2>2, <3>1, FS_RemoveElement DEF Counts
        <4> QED BY <2>2, <3>1, <4>1 DEF Counts
      <3>4. Total(w, R) = Total(items, R) /\ Total(items, R) \in Int
        BY <3>2, <3>3, SumSame, SumIsInt
      <3>5. CASE items[row].item = item
        <4>1. Total(items, S) = items[row].quantity + Total(items, R)
          BY <2>2, <2>3, <3>1, <3>5, SumLeaves
        <4> QED BY <1>4, <2>4, <2>6, <2>7, <3>2, <3>4, <3>5, <4>1
      <3>6. CASE items[row].item # item
        <4>1. R = S
          BY <2>3, <3>1, <3>6
        <4> QED BY <2>2, <2>4, <2>6, <3>2, <3>4, <3>6, <4>1
      <3> QED BY <3>5, <3>6
    <2>8. CASE items' = [items EXCEPT ![row].quantity = items[row].quantity - taken]
      <3>1. PICK rest \in Int : rest = items[row].quantity - taken
        BY <1>4, ItemAssumption
      <3>2. /\ DOMAIN w = DOMAIN items
            /\ \A r \in DOMAIN items : r # row => w[r] = items[r]
            /\ w[row] = [items[row] EXCEPT !.quantity = rest]
        BY <2>5, <2>8, <3>1
      <3>3. w[row].item = items[row].item /\ w[row].quantity = rest
        <4>1. items[row] \in Row
          BY DEF RowsOK, IsTable
        <4> QED BY <3>2, <4>1 DEF Row
      <3>4. Stacks(w, item) = S
        BY <2>1, <3>2, <3>3 DEF Stacks
      <3>5. \A r \in S : r # row => w[r].quantity = items[r].quantity
        BY <2>1, <3>2 DEF Stacks
      <3>6. CASE items[row].item = item
        <4>1. row \in S /\ w[row].quantity \in Int
          BY <2>3, <3>1, <3>3, <3>6
        <4>2. Total(w, S) = Total(items, S) + (w[row].quantity - items[row].quantity)
          BY <2>2, <3>5, <4>1, SumChanges
        <4> QED BY <1>4, <2>2, <2>4, <2>6, <3>1, <3>3, <3>4, <3>6, <4>2
      <3>7. CASE items[row].item # item
        <4>1. \A r \in S : w[r].quantity = items[r].quantity
          BY <2>3, <3>5, <3>7
        <4>2. Total(w, S) = Total(items, S)
          BY <2>2, <4>1, SumSame
        <4> QED BY <2>2, <2>4, <2>6, <3>4, <3>7, <4>2
      <3> QED BY <3>6, <3>7
    <2> QED BY <1>4, <2>7, <2>8
  <1> QED BY <1>1, <1>2, <1>3, <1>5

\* An exchange that publishes nothing found nothing at its source, or had one
\* slot for both.
LEMMA MoveTells ==
  ASSUME RowsOK, SlotsOK, NoSlotZero, NEW source \in CommandSlots, NEW destination \in CommandSlots,
         moveItem(source, destination)
  PROVE  \/ Accounted
         \/ /\ last'.op = "move" /\ last'.events = <<>>
            /\ ~Occupied(items, last'.source)
  <1>0. SUFFICES ASSUME ~RollsBack(Command("move", source, destination, NoItem, 0))
                 PROVE  \/ Accounted
                        \/ /\ last'.op = "move" /\ last'.events = <<>>
                           /\ ~Occupied(items, last'.source)
    BY RollBackTells
  <1>1. source \in Slot /\ destination \in Slot /\ Temp \in Int
    BY ItemAssumption DEF NoSlotZero, Slot, Temp
  <1>2. PICK parked : parked = MoveRow(items, destination, Temp)
    OBVIOUS
  <1>3. PICK e : e = MovedTo(parked[Found(parked, source)].item, source, destination)
    OBVIOUS
  <1>4. /\ items' = Exchange(items, source, destination)
        /\ last'.op = "move" /\ last'.source = source
        /\ last'.events = IF Matches(parked, source) = {} THEN <<>> ELSE <<e>>
    BY <1>0, <1>2, <1>3 DEF moveItem, Reports, Command
  <1>5. IsTable(items) /\ Distinct(items) /\ ~Occupied(items, Temp)
    BY DEF RowsOK, SlotsOK
  <1>6. PICK u : u = items' /\ Traded(items, u, source, destination)
    BY <1>1, <1>4, <1>5, ExchangeRows
  <1>7. CASE Matches(parked, source) # {}
    <2>1. e.type = "MOVE" /\ e.oldSlot = source /\ e.slot = destination
      BY <1>3 DEF MovedTo
    <2>2. Apply(Pic(items), e, Stack) = Exchanged(Pic(items), source, destination)
      BY <2>1 DEF Apply
    <2>3. Pic(u) = Exchanged(Pic(items), source, destination)
      BY <1>1, <1>5, <1>6, PicTraded DEF Slot
    <2>4. Replay(Pic(items), <<e>>, Stack) = Pic(u)
      BY <2>2, <2>3, ReplayOne
    <2> QED BY <1>4, <1>6, <1>7, <2>4 DEF Accounted
  <1>8. CASE Matches(parked, source) = {} /\ Occupied(items, source)
    <2>1. PICK r \in DOMAIN items : items[r].slot = source
      BY <1>8 DEF Occupied
    <2>2. DOMAIN parked = DOMAIN items
      BY <1>1, <1>2, <1>5, MoveRowReslots DEF Reslots, Slot
    <2>3. parked[r].slot = IF items[r].slot = destination THEN Temp ELSE items[r].slot
      BY <1>1, <1>2, <1>5, MoveRowRows DEF Slot
    <2>4. source = destination
      BY <1>8, <2>1, <2>2, <2>3 DEF Matches
    <2>5. ASSUME NEW q \in DOMAIN items PROVE u[q] = items[q]
      <3>1. u[q].slot = items[q].slot /\ u[q].item = items[q].item /\ u[q].quantity = items[q].quantity
        BY <1>6, <2>4 DEF Traded
      <3>2. u[q] \in Row /\ items[q] \in Row
        BY <1>5, <1>6 DEF Traded, IsTable
      <3> QED BY <3>1, <3>2 DEF Row
    <2>6. items' = items
      BY <1>5, <1>6, <2>5 DEF Traded, IsTable
    <2> QED BY <1>4, <1>8, <2>6, NothingTold
  <1> QED BY <1>4, <1>7, <1>8

LEMMA DropTells ==
  ASSUME RowsOK, SlotsOK, NEW source \in CommandSlots, NEW quantity \in Drops,
         dropItem(source, quantity)
  PROVE  Accounted
  <1> DEFINE asked == Uint32(quantity)
             found == Found(items, source)
             initial == items[found].quantity
  <1>1. \/ RollsBack(Command("drop", source, 0, NoItem, quantity))
        \/ /\ Matches(items, source) # {} /\ nextId' = nextId
           /\ \/ /\ items' = Without(items, found)
                 /\ last'.events = <<Removed(items[found].item, items[found].slot)>>
              \/ /\ ~DropsAll(initial, asked)
                 /\ items' = [items EXCEPT ![found].quantity = Rest(initial, asked)]
                 /\ last'.events = <<TellsQuantity(items[found], Rest(initial, asked))>>
    BY DEF dropItem, Reports, Command
  <1>2. CASE RollsBack(Command("drop", source, 0, NoItem, quantity))
    BY <1>2, RollBackTells
  <1>3. CASE Matches(items, source) # {} /\ nextId' = nextId
    <2>1. PICK row \in DOMAIN items : row = found
      BY <1>3, FoundIs DEF RowsOK
    <2>2. items[row] \in Row
      BY DEF RowsOK, IsTable
    <2>3. PICK rest : rest = Rest(initial, asked)
      OBVIOUS
    <2>4. ~DropsAll(initial, asked) => rest \in 0 .. SlotMax
      <3>1. asked \in Nat
        <4>1. Word \in Nat \ {0} /\ quantity \in Int
          BY ItemAssumption
        <4> QED BY <4>1 DEF Uint32
      <3>2. initial \in 0 .. SlotMax
        BY <2>1, <2>2 DEF Row
      <3> HIDE DEF asked, initial
      <3> QED BY <2>3, <3>1, <3>2, ItemAssumption DEF DropsAll, Rest
    <2>5. PICK u : u = items'
      OBVIOUS
    <2>6. CASE /\ items' = Without(items, row)
               /\ last'.events = <<Removed(items[row].item, items[row].slot)>>
      <3>1. PICK e : e = Removed(items[row].item, items[row].slot)
        OBVIOUS
      <3>2. RowsOK' /\ SlotsOK'
        BY <1>3, <2>6, WithoutRow
      <3>3. Pic(u) = Blanked(Pic(items), items[row].slot)
        BY <2>5, <2>6, <3>2, PicWithout DEF RowsOK, SlotsOK
      <3>4. e.type = "REMOVE" /\ e.slot = items[row].slot
        BY <3>1 DEF Removed
      <3>5. Apply(Pic(items), e, Stack) = Blanked(Pic(items), items[row].slot)
        BY <3>4 DEF Apply, Blanked
      <3>6. Replay(Pic(items), <<e>>, Stack) = Pic(u)
        BY <3>3, <3>5, ReplayOne
      <3> QED BY <2>5, <2>6, <3>1, <3>6 DEF Accounted
    <2>7. CASE /\ ~DropsAll(initial, asked)
               /\ items' = [items EXCEPT ![row].quantity = rest]
               /\ last'.events = <<TellsQuantity(items[row], rest)>>
      <3>1. PICK e : e = TellsQuantity(items[row], rest)
        OBVIOUS
      <3>2. rest \in 0 .. SlotMax
        BY <2>4, <2>7
      <3>3. /\ RowsOK' /\ SlotsOK'
            /\ \A r \in DOMAIN items : r # row => r \in DOMAIN items' /\ items'[r] = items[r]
        BY <1>3, <2>7, <3>2, RowLeft
      <3>4. DOMAIN u = DOMAIN items /\ u[row] = [items[row] EXCEPT !.quantity = rest]
        BY <2>5, <2>7
      <3>5. /\ u[row].item = items[row].item /\ u[row].slot = items[row].slot
            /\ u[row].quantity = rest
        BY <2>2, <3>4 DEF Row
      <3>6. Written(items, u, row)
        BY <2>5, <3>3, <3>4, <3>5 DEF Written, RowsOK, SlotsOK
      <3>7. Pic(u) = Shown(Pic(items), u[row].slot, Stack(u[row]))
        BY <3>6, PicWritten DEF RowsOK, SlotsOK
      <3>8. e.type = "UPDATE" /\ e.slot = u[row].slot /\ Stack(e) = Stack(u[row])
        BY <3>1, <3>5 DEF TellsQuantity, Updated, Stack
      <3>9. Apply(Pic(items), e, Stack) = Shown(Pic(items), u[row].slot, Stack(u[row]))
        BY <3>8 DEF Apply, Shown
      <3>10. Replay(Pic(items), <<e>>, Stack) = Pic(u)
        BY <3>7, <3>9, ReplayOne
      <3> QED BY <2>5, <2>7, <3>1, <3>10 DEF Accounted
    <2> QED BY <1>1, <1>2, <2>1, <2>3, <2>6, <2>7
  <1> QED BY <1>1, <1>2, <1>3

LEMMA NextKeeps == RowsOK /\ [Next]_vars => Keeps
  BY SameRowsKeep, CreateKeeps, MoveKeeps, DropKeeps DEF Next, vars

LEMMA InitRows == Init => RowsOK /\ SlotsOK
  <1>1. IsFiniteSet({})
    BY FS_EmptySet
  <1> QED BY <1>1 DEF Init, RowsOK, SlotsOK, IsTable, Distinct, Occupied

-----------------------------------------------------------------------------
\* Whatever is asked for, every row is a stack of at most the maximum: a request
\* that wraps the uint32 sum and a drop of a negative quantity included
\* (ItemInventory.TypeOK).
THEOREM RowsInvariant == Spec => []RowsOK
  <1>1. RowsOK /\ [Next]_vars => RowsOK'
    BY NextKeeps DEF Keeps
  <1> QED BY InitRows, <1>1, PTL DEF Spec

THEOREM StackTypes == Spec => []TypeOK
  <1>1. RowsOK => TypeOK
    BY DEF RowsOK, IsTable, Row, TypeOK
  <1> QED BY <1>1, RowsInvariant, PTL

\* No command puts two rows in one slot or leaves one parked, as long as none
\* names slot zero (ItemInventory.SlotsUnique).
THEOREM SlotsInvariant ==
  ASSUME NoSlotZero
  PROVE  Spec => []SlotsOK
  <1>1. RowsOK /\ SlotsOK /\ [Next]_vars => SlotsOK'
    BY NextKeeps DEF Keeps
  <1> QED BY InitRows, <1>1, RowsInvariant, PTL DEF Spec

THEOREM StacksApart ==
  ASSUME NoSlotZero
  PROVE  Spec => []SlotsUnique
  <1>1. SlotsOK => SlotsUnique
    BY DEF SlotsOK, Distinct, SlotsUnique
  <1> QED BY <1>1, SlotsInvariant, PTL

\* A command changes the rows it names and no others, as long as none names slot
\* zero: the run on slot zero shows one that does (ItemInventory.OnlyNamedRows).
THEOREM OthersUntouched ==
  ASSUME NoSlotZero
  PROVE  Spec => OnlyNamedRows
  <1>1. RowsOK /\ SlotsOK /\ [Next]_vars =>
          [\A r \in DOMAIN items :
             \/ items[r].slot \in {last'.source, last'.destination}
             \/ items[r].item = last'.item
             \/ r \in DOMAIN items' /\ items'[r] = items[r]]_vars
    BY NextKeeps DEF Keeps, Named
  <1> QED BY <1>1, RowsInvariant, SlotsInvariant, PTL DEF Spec, OnlyNamedRows

\* A create request gives what it asks for, in the stacks and in the new rows
\* together: to the word always, and exactly unless its sum with a stack wraps
\* (ItemInventory.CreateGivesWhatWasAsked).
THEOREM CreatesExactly == Spec => CreateGivesWhatWasAsked
  <1> DEFINE Asked == last'.op = "create" /\ last'.result = "ok" =>
                        LET gained == Held(items', last'.item) - Held(items, last'.item) IN
                        /\ (gained - last'.quantity) % Word = 0
                        /\ ~Wraps(last'.quantity) => gained = last'.quantity
  <1>1. ASSUME RowsOK, NEW item \in Items, NEW quantity \in Quantities,
               CreateItem(item, quantity)
        PROVE  Asked
    <2>1. PICK asked \in Quantity : asked = IF quantity = 0 THEN 1 ELSE quantity
      BY ItemAssumption DEF Quantity
    <2>2. CASE CreatesItem(item, asked)
      BY <1>1, <2>2, CreateGives
    <2>3. CASE FailsToCreate(item, asked)
      BY <1>1, <2>3, FailedCreate
    <2> QED BY <1>1, <2>1, <2>2, <2>3 DEF CreateItem
  <1>2. ASSUME NEW source, NEW destination, moveItem(source, destination)
        PROVE  last'.op # "create"
    BY <1>2 DEF moveItem, RollsBack, Reports, Command
  <1>3. ASSUME NEW source, NEW quantity, dropItem(source, quantity)
        PROVE  last'.op # "create"
    BY <1>3 DEF dropItem, RollsBack, Reports, Command
  <1>4. RowsOK /\ [Next]_vars => [Asked]_vars
    <2> HIDE DEF Asked
    <2>1. ASSUME last'.op # "create" PROVE Asked
      BY <2>1 DEF Asked
    <2> QED BY <1>1, <1>2, <1>3, <2>1 DEF Next
  <1> QED BY <1>4, RowsInvariant, PTL DEF Spec, CreateGivesWhatWasAsked

\* A drop takes what it names, or all there is, of the stack it finds: a negative
\* quantity takes all of it (ItemInventory.DropTakesWhatWasAsked).
THEOREM DropsExactly == Spec => DropTakesWhatWasAsked
  <1> DEFINE Dropped ==
        last'.op = "drop" /\ last'.result = "ok" =>
          \A item \in Items :
            Held(items', item) = Held(items, item) -
              LET row == Found(items, last'.source) IN
              IF items[row].item # item THEN 0
              ELSE IF last'.quantity < 0 THEN items[row].quantity
              ELSE Min({last'.quantity, items[row].quantity})
  <1>1. ASSUME RowsOK, NEW source \in CommandSlots, NEW quantity \in Drops,
               dropItem(source, quantity)
        PROVE  Dropped
    <2>1. ASSUME last'.result = "ok"
          PROVE  LET row == Found(items, source) IN
                 /\ last'.source = source /\ last'.quantity = quantity
                 /\ \A item \in Items :
                      Held(items', item) = Held(items, item) -
                        (IF items[row].item # item THEN 0 ELSE Takes(row, quantity))
      BY <1>1, <2>1, DropTakes
    <2> QED BY <2>1 DEF Takes
  <1>2. ASSUME NEW source, NEW destination, moveItem(source, destination)
        PROVE  last'.op # "drop"
    BY <1>2 DEF moveItem, RollsBack, Reports, Command
  <1>3. ASSUME RowsOK, NEW item \in Items, NEW quantity \in Quantities,
               CreateItem(item, quantity)
        PROVE  last'.op # "drop"
    <2>1. PICK asked \in Quantity : asked = IF quantity = 0 THEN 1 ELSE quantity
      BY ItemAssumption DEF Quantity
    <2>2. CASE CreatesItem(item, asked)
      BY <1>3, <2>2, CreateGives
    <2>3. CASE FailsToCreate(item, asked)
      BY <1>3, <2>3, FailedCreate
    <2> QED BY <1>3, <2>1, <2>2, <2>3 DEF CreateItem
  <1>4. RowsOK /\ [Next]_vars => [Dropped]_vars
    <2> HIDE DEF Dropped
    <2>1. ASSUME last'.op # "drop" PROVE Dropped
      BY <2>1 DEF Dropped
    <2> QED BY <1>1, <1>2, <1>3, <2>1 DEF Next
  <1> QED BY <1>4, RowsInvariant, PTL DEF Spec, DropTakesWhatWasAsked
\* A consumer that applies the events of a command in order has the stacks that
\* the command left, but for a move from an empty slot, which may change rows and
\* tells nothing (ItemInventory.EventsTellTheChange), as long as no command names
\* slot zero.
THEOREM EventsTell ==
  ASSUME NoSlotZero
  PROVE  Spec => EventsTellTheChange
  <1> DEFINE Silent == /\ last'.op = "move" /\ last'.events = <<>>
                       /\ ~Occupied(items, last'.source)
  <1>1. ASSUME RowsOK, SlotsOK, NEW item \in Items, NEW quantity \in Quantities,
               CreateItem(item, quantity)
        PROVE  Accounted
    <2>1. PICK asked \in Quantity : asked = IF quantity = 0 THEN 1 ELSE quantity
      BY ItemAssumption DEF Quantity
    <2>2. CASE CreatesItem(item, asked)
      BY <1>1, <2>2, CreateTells
    <2>3. CASE FailsToCreate(item, asked)
      BY <1>1, <2>3, FailedCreate, NothingTold
    <2> QED BY <1>1, <2>1, <2>2, <2>3 DEF CreateItem
  <1>2. RowsOK /\ SlotsOK /\ [Next]_vars => [Accounted \/ Silent]_vars
    BY <1>1, MoveTells, DropTells DEF Next
  <1>3. [Accounted \/ Silent]_vars =>
          [\/ Picture(items', Stack) = Replay(Picture(items, Stack), last'.events, Stack)
           \/ /\ last'.op = "move" /\ last'.events = <<>>
              /\ ~Occupied(items, last'.source)]_vars
    BY DEF Accounted, Pic
  <1> QED BY <1>2, <1>3, RowsInvariant, SlotsInvariant, PTL DEF Spec, EventsTellTheChange
=============================================================================
