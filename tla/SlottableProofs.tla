--------------------------- MODULE SlottableProofs --------------------------
(***************************************************************************)
(* The loop of MinFreeSlot, for every width of a slot and every sorted     *)
(* input: what it returns, and when it can spin.                           *)
(***************************************************************************)
EXTENDS Slottable, TLAPS

\* What the loop knows of the items behind it: they are below the candidate,
\* they fill every slot of the bag below it, and no two share one.
Behind == /\ slot \in 1 .. i + 1
          /\ \A j \in 1 .. i : items[j] < slot
          /\ \A s \in 1 .. slot - 1 : \E j \in 1 .. i : items[j] = s
          /\ \A j, k \in 1 .. i : items[j] = items[k] /\ items[j] > 0 => j = k
          /\ pc = "done" => FindsGap

IInv == TypeOK /\ (Len(items) < MaxSlot => Behind)

\* An input is a sequence of integers, in order.
LEMMA InputIsSorted ==
  ASSUME TypeOK
  PROVE  /\ items \in Seq(SlotRange) /\ Len(items) \in Nat
         /\ DOMAIN items = 1 .. Len(items)
         /\ \A j \in 1 .. Len(items) : items[j] \in Int
         /\ \A j, k \in 1 .. Len(items) : j <= k => items[j] <= items[k]
  <1>1. items \in Seq(SlotRange) /\ Sorted(items)
    BY InputsAssumption DEF TypeOK
  <1>2. SlotRange \subseteq Int
    BY MaxSlotAssumption DEF SlotRange
  <1>3. /\ Len(items) \in Nat /\ DOMAIN items = 1 .. Len(items)
        /\ \A j \in 1 .. Len(items) : items[j] \in SlotRange
    BY <1>1
  <1> QED BY <1>1, <1>2, <1>3 DEF Sorted

\* The loop starts with nothing behind it.
LEMMA InitIInv == Init => IInv
  <1> SUFFICES ASSUME Init PROVE IInv
    OBVIOUS
  <1>1. items \in Seq(SlotRange) /\ Len(items) \in Nat
    BY InputsAssumption DEF Init
  <1>2. TypeOK
    BY <1>1, MaxSlotAssumption DEF Init, TypeOK, SlotRange
  <1>3. Behind
    BY DEF Init, Behind
  <1> QED BY <1>2, <1>3 DEF IInv

\* Every iteration keeps what the loop knows.
LEMMA NextIInv == IInv /\ [Next]_vars => IInv'
  <1> SUFFICES ASSUME IInv, [Next]_vars PROVE IInv'
    OBVIOUS
  <1> USE MaxSlotAssumption
  <1>0. /\ TypeOK /\ i \in 0 .. Len(items) /\ slot \in SlotRange /\ slot \in Int
        /\ Len(items) \in Nat
        /\ \A j \in 1 .. Len(items) : items[j] \in Int
    BY InputIsSorted DEF IInv, TypeOK, SlotRange
  <1>1. CASE Iterate /\ FindsGap /\ Return
    <2>1. TypeOK'
      BY <1>0, <1>1 DEF TypeOK, Return
    <2>2. Behind => Behind'
      BY <1>0, <1>1 DEF Behind, Return, FindsGap, AtEnd, NextItem
    <2> QED BY <2>1, <2>2, <1>1 DEF IInv, Return
  <1>2. CASE Iterate /\ ~FindsGap /\ SkipsTaken
    <2>1. i + 1 \in 1 .. Len(items) /\ i' = i + 1 /\ items' = items /\ pc' = pc
      BY <1>0, <1>2 DEF FindsGap, AtEnd, SkipsTaken
    <2>2. TypeOK'
      BY <1>0, <1>2, <2>1 DEF TypeOK, SkipsTaken, NextSlot, SlotRange
    <2>3. ASSUME Behind, Len(items) < MaxSlot PROVE Behind'
      <3>1. slot' = slot + 1 /\ items[i + 1] = slot /\ pc = "loop"
        BY <1>0, <1>2, <2>1, <2>3 DEF Behind, SkipsTaken, NextSlot, NextItem, Iterate
      <3>2. slot' \in 1 .. i' + 1 /\ \A j \in 1 .. i' : items'[j] < slot'
        BY <1>0, <2>1, <2>3, <3>1 DEF Behind
      <3>3. \A s \in 1 .. slot' - 1 : \E j \in 1 .. i' : items'[j] = s
        <4> SUFFICES ASSUME NEW s \in 1 .. slot PROVE \E j \in 1 .. i + 1 : items[j] = s
          BY <1>0, <2>1, <3>1
        <4>1. CASE s = slot
          BY <4>1, <1>0, <2>1, <3>1
        <4>2. CASE s # slot
          <5>1. PICK j \in 1 .. i : items[j] = s
            BY <4>2, <2>3, <1>0 DEF Behind
          <5> QED BY <5>1, <1>0
        <4> QED BY <4>1, <4>2
      <3>4. \A j, k \in 1 .. i' :
              items'[j] = items'[k] /\ items'[j] > 0 => j = k
        BY <1>0, <2>1, <2>3, <3>1 DEF Behind
      <3> QED BY <3>1, <3>2, <3>3, <3>4, <2>1 DEF Behind
    <2> QED BY <2>1, <2>2, <2>3 DEF IInv
  <1>3. CASE Iterate /\ ~FindsGap /\ SkipsWorn
    <2>1. /\ i + 1 \in 1 .. Len(items) /\ i' = i + 1
          /\ items' = items /\ pc' = pc /\ slot' = slot
          /\ items[i + 1] <= 0 /\ pc = "loop"
      BY <1>0, <1>3 DEF FindsGap, AtEnd, SkipsWorn, Worn, NextItem, Iterate
    <2>2. TypeOK'
      BY <1>0, <2>1 DEF TypeOK
    <2>3. ASSUME Behind PROVE Behind'
      <3>1. slot' \in 1 .. i' + 1 /\ \A j \in 1 .. i' : items'[j] < slot'
        BY <1>0, <2>1, <2>3 DEF Behind
      <3>2. \A s \in 1 .. slot' - 1 : \E j \in 1 .. i' : items'[j] = s
        <4> SUFFICES ASSUME NEW s \in 1 .. slot - 1
                     PROVE \E j \in 1 .. i + 1 : items[j] = s
          BY <1>0, <2>1
        <4>1. PICK j \in 1 .. i : items[j] = s
          BY <2>3 DEF Behind
        <4> QED BY <4>1, <1>0
      <3>3. \A j, k \in 1 .. i' :
              items'[j] = items'[k] /\ items'[j] > 0 => j = k
        BY <1>0, <2>1, <2>3 DEF Behind
      <3> QED BY <3>1, <3>2, <3>3, <2>1 DEF Behind
    <2> QED BY <2>1, <2>2, <2>3 DEF IInv
  <1>4. CASE UNCHANGED vars
    BY <1>4 DEF vars, IInv, TypeOK, Behind, FindsGap, AtEnd, NextItem
  <1> QED BY <1>1, <1>2, <1>3, <1>4 DEF Next, Iterate, GoesRound

\* The loop's invariant, for every behaviour.
THEOREM LoopInvariant == Spec => []IInv
  BY InitIInv, NextIInv, PTL DEF Spec

\* The candidate is a slot and the loop stays within the rows, also when the
\* int16 wraps (Slottable.TypeOK).
THEOREM LoopTypes == Spec => []TypeOK
  BY LoopInvariant, PTL DEF IInv

\* MinFreeSlot returns the first free slot of the bag.
THEOREM FirstFreeReturned == Spec => []ReturnsFirstFree
  <1>1. IInv => ReturnsFirstFree
    <2> SUFFICES ASSUME IInv, pc = "done", Len(items) < MaxSlot
                 PROVE  /\ slot \in 1 .. MaxSlot
                        /\ \A j \in DOMAIN items : items[j] # slot
                        /\ \A s \in 1 .. slot - 1 :
                             \E j \in DOMAIN items :
                               /\ items[j] = s
                               /\ \A k \in DOMAIN items : items[k] = s => k = j
      BY DEF ReturnsFirstFree
    <2>0. DOMAIN items = 1 .. Len(items)
      BY InputIsSorted DEF IInv
    <2>1. /\ Behind /\ i \in 0 .. Len(items) /\ Len(items) \in Nat
          /\ \A j \in 1 .. Len(items) : items[j] \in Int
          /\ \A j, k \in 1 .. Len(items) : j <= k => items[j] <= items[k]
      BY InputIsSorted DEF IInv, TypeOK
    <2>2. \A j \in 1 .. Len(items) : j > i => slot < items[j]
      <3> SUFFICES ASSUME NEW j \in 1 .. Len(items), j > i PROVE slot < items[j]
        OBVIOUS
      <3>1. i # Len(items) /\ i + 1 \in 1 .. Len(items) /\ i + 1 <= j
        BY <2>1
      <3>2. slot < items[i + 1]
        BY <2>1, <3>1 DEF Behind, FindsGap, AtEnd, NextItem
      <3>3. items[i + 1] <= items[j]
        BY <2>1, <3>1
      <3> QED BY <2>1, <3>1, <3>2, <3>3 DEF Behind
    <2>3. slot \in 1 .. MaxSlot
      BY <2>1, MaxSlotAssumption DEF Behind
    <2>4. \A j \in 1 .. Len(items) : items[j] # slot
      BY <2>1, <2>2, <2>3 DEF Behind
    <2>5. ASSUME NEW s \in 1 .. slot - 1
          PROVE  \E j \in 1 .. Len(items) :
                   /\ items[j] = s
                   /\ \A k \in 1 .. Len(items) : items[k] = s => k = j
      <3>1. PICK j \in 1 .. i : items[j] = s
        BY <2>1 DEF Behind
      <3>2. ASSUME NEW k \in 1 .. Len(items), items[k] = s PROVE k = j
        BY <2>1, <2>2, <2>3, <3>1, <3>2 DEF Behind
      <3> QED BY <2>1, <3>1, <3>2
    <2> QED BY <2>0, <2>3, <2>4, <2>5
  <1> QED BY <1>1, LoopInvariant, PTL

\* What the loop knows when no two rows share a slot of the bag, however many
\* rows there are: the candidate wraps only over the last of them.
Ahead == \/ i = Len(items)
         \/ /\ slot \in 1 .. MaxSlot
            /\ \A s \in 1 .. slot - 1 : \E j \in 1 .. i : items[j] = s

AheadInv == TypeOK /\ (~Duplicate => Ahead)

\* The loop goes round only when an item in the bag is behind the candidate.
LEMMA AheadGoesOn == AheadInv /\ Spins => Duplicate
  <1> SUFFICES ASSUME AheadInv, Spins, ~Duplicate PROVE FALSE
    OBVIOUS
  <1>1. /\ i \in 0 .. Len(items) /\ Len(items) \in Nat
        /\ \A j \in 1 .. Len(items) : items[j] \in Int
    BY InputIsSorted DEF AheadInv, TypeOK
  <1>d. DOMAIN items = 1 .. Len(items)
    BY InputIsSorted DEF AheadInv
  <1>2. i # Len(items) /\ slot > items[i + 1] /\ ~(items[i + 1] <= 0)
    BY DEF Spins, FindsGap, AtEnd, NextItem, Worn
  <1>3. i + 1 \in 1 .. Len(items) /\ items[i + 1] \in Int
    BY <1>1, <1>2
  <1>4. /\ items[i + 1] \in 1 .. slot - 1
        /\ \A s \in 1 .. slot - 1 : \E j \in 1 .. i : items[j] = s
    BY <1>1, <1>2, <1>3, MaxSlotAssumption DEF AheadInv, Ahead
  <1>6. PICK j \in 1 .. i : items[j] = items[i + 1]
    BY <1>4
  <1>5. j \in 1 .. Len(items) /\ j < i + 1
    BY <1>1, <1>3
  <1> QED BY <1>d, <1>2, <1>3, <1>6, <1>5 DEF Duplicate

\* Every iteration keeps it.
LEMMA NextAhead == AheadInv /\ TypeOK' /\ [Next]_vars => AheadInv'
  <1> SUFFICES ASSUME AheadInv, TypeOK', [Next]_vars, ~Duplicate' PROVE Ahead'
    BY DEF AheadInv
  <1> USE MaxSlotAssumption
  <1>0. /\ i \in 0 .. Len(items) /\ slot \in Int /\ Len(items) \in Nat
        /\ \A j \in 1 .. Len(items) : items[j] \in SlotRange
        /\ \A j \in 1 .. Len(items) : items[j] \in Int
        /\ \A j, k \in 1 .. Len(items) : j <= k => items[j] <= items[k]
    <2>1. items \in Seq(SlotRange)
      BY InputsAssumption DEF AheadInv, TypeOK
    <2> QED BY <2>1, InputIsSorted DEF AheadInv, TypeOK, SlotRange
  <1>d. DOMAIN items = 1 .. Len(items)
    BY InputIsSorted DEF AheadInv
  <1>1. items' = items
    BY DEF Next, Iterate, Return, SkipsTaken, SkipsWorn, GoesRound, vars
  <1>2. Ahead /\ ~Duplicate
    BY <1>1 DEF AheadInv, Duplicate
  <1>3. CASE UNCHANGED <<items, slot, i>>
    BY <1>2, <1>3 DEF Ahead
  <1>4. CASE ~FindsGap /\ SkipsTaken
    <2>1. i + 1 \in 1 .. Len(items) /\ items[i + 1] = slot /\ i' = i + 1
      BY <1>0, <1>4 DEF FindsGap, AtEnd, SkipsTaken, NextItem
    <2>2. /\ slot \in 1 .. MaxSlot
          /\ \A s \in 1 .. slot - 1 : \E j \in 1 .. i : items[j] = s
      BY <1>0, <1>2, <2>1 DEF Ahead
    <2>3. CASE slot = MaxSlot
      <3> SUFFICES ASSUME i + 1 # Len(items) PROVE FALSE
        BY <1>1, <2>1 DEF Ahead
      <3>1. i + 2 \in 1 .. Len(items)
        BY <1>0, <2>1
      <3>2. items[i + 2] \in SlotRange /\ items[i + 1] <= items[i + 2]
        BY <1>0, <2>1, <3>1
      <3>3. items[i + 2] = MaxSlot
        BY <3>2, <2>1, <2>3 DEF SlotRange
      <3>4. i + 1 < i + 2 /\ items[i + 1] = items[i + 2] /\ items[i + 1] > 0
        BY <1>0, <2>1, <2>3, <3>1, <3>3
      <3>5. i + 1 \in DOMAIN items /\ i + 2 \in DOMAIN items
        BY <1>d, <2>1, <3>1
      <3> QED BY <1>2, <3>4, <3>5 DEF Duplicate
    <2>4. CASE slot # MaxSlot
      <3>1. slot' = slot + 1 /\ slot' \in 1 .. MaxSlot
        BY <1>4, <2>2, <2>4 DEF SkipsTaken, NextSlot
      <3>2. ASSUME NEW s \in 1 .. slot PROVE \E j \in 1 .. i + 1 : items[j] = s
        <4>1. CASE s = slot
          BY <4>1, <1>0, <2>1
        <4>2. CASE s # slot
          <5>1. PICK j \in 1 .. i : items[j] = s
            BY <4>2, <2>2
          <5> QED BY <5>1, <1>0
        <4> QED BY <4>1, <4>2
      <3> QED BY <1>1, <2>1, <2>2, <3>1, <3>2 DEF Ahead
    <2> QED BY <2>3, <2>4
  <1>5. CASE ~FindsGap /\ SkipsWorn
    <2>1. i + 1 \in 1 .. Len(items) /\ i' = i + 1 /\ slot' = slot
      BY <1>0, <1>5 DEF FindsGap, AtEnd, SkipsWorn
    <2>2. /\ slot \in 1 .. MaxSlot
          /\ \A s \in 1 .. slot - 1 : \E j \in 1 .. i : items[j] = s
      BY <1>0, <1>2, <2>1 DEF Ahead
    <2>3. ASSUME NEW s \in 1 .. slot - 1 PROVE \E j \in 1 .. i + 1 : items[j] = s
      <3>1. PICK j \in 1 .. i : items[j] = s
        BY <2>2
      <3> QED BY <3>1, <1>0
    <2> QED BY <1>1, <2>1, <2>2, <2>3 DEF Ahead
  <1> QED BY <1>3, <1>4, <1>5 DEF Next, Iterate, Return, GoesRound, vars

\* The loop's second invariant, for every behaviour.
THEOREM AheadInvariant == Spec => []AheadInv
  <1>1. Init /\ TypeOK => AheadInv
    BY MaxSlotAssumption DEF Init, AheadInv, Ahead
  <1> QED BY <1>1, NextAhead, LoopTypes, PTL DEF Spec

\* The loop spins only on two rows that share a slot of the bag.
THEOREM SpinNeedsDuplicate == Spec => []SpinsOnlyOnDuplicate
  <1>1. AheadInv => SpinsOnlyOnDuplicate
    BY AheadGoesOn DEF SpinsOnlyOnDuplicate
  <1> QED BY <1>1, AheadInvariant, PTL

\* Termination but for the scheduling (Slottable.DistinctReturns): on rows with
\* distinct slots, however many they are, no iteration changes nothing, and one
\* that changes something returns or leaves one item fewer ahead.
THEOREM DistinctAdvances ==
  Spec => /\ [](~Duplicate => ~Spins)
          /\ [][pc' = "done" \/ (i' = i + 1 /\ i' <= Len(items'))]_vars
  <1>1. TypeOK /\ TypeOK' /\ [Next]_vars
          => [pc' = "done" \/ (i' = i + 1 /\ i' <= Len(items'))]_vars
    <2> SUFFICES ASSUME TypeOK, TypeOK', Next, ~UNCHANGED vars
                 PROVE pc' = "done" \/ (i' = i + 1 /\ i' <= Len(items'))
      OBVIOUS
    <2>1. CASE Return
      BY <2>1 DEF Return
    <2>2. CASE SkipsTaken \/ SkipsWorn
      <3>1. i' \in 0 .. Len(items') /\ Len(items) \in Nat /\ items' = items
        BY <2>2, InputIsSorted DEF TypeOK, SkipsTaken, SkipsWorn
      <3> QED BY <2>2, <3>1 DEF SkipsTaken, SkipsWorn
    <2> QED BY <2>1, <2>2 DEF Next, Iterate, GoesRound
  <1>2. AheadInv => (~Duplicate => ~Spins)
    BY AheadGoesOn
  <1> QED BY <1>1, <1>2, AheadInvariant, LoopTypes, PTL DEF Spec
=============================================================================
