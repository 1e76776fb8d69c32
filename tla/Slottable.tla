----------------------------- MODULE Slottable ------------------------------
(***************************************************************************)
(* slottable.GetNextFreeSlot and the loop of MinFreeSlot, one iteration a  *)
(* step, on the slots the rows of one inventory have.  Slots are 16 bits   *)
(* wide in the code: here they run from -MaxSlot - 1 to MaxSlot and wrap.  *)
(***************************************************************************)
EXTENDS Integers, Sequences

CONSTANT MaxSlot,      \* 32767 in the code
         Inputs        \* the sequences of slots the loop is run on

ASSUME MaxSlotAssumption == MaxSlot \in Nat \ {0}

SlotRange == -MaxSlot - 1 .. MaxSlot

\* sort.Slice has put the rows in the order of their slots.
Sorted(s) == \A j, k \in DOMAIN s : j <= k => s[j] <= s[k]

ASSUME InputsAssumption ==
  Inputs \subseteq {s \in Seq(SlotRange) : Sorted(s)}

VARIABLES items,       \* the sorted slots
          slot,        \* the candidate
          i,           \* how many items are behind the loop
          pc           \* "loop" until the function returns

vars == <<items, slot, i, pc>>

Init == /\ items \in Inputs
        /\ slot = 1
        /\ i = 0
        /\ pc = "loop"

\* slot += 1 on an int16
NextSlotUnwrapped(s) == s + 1

NextSlot(s) == IF s = MaxSlot THEN -MaxSlot - 1 ELSE s + 1

\* Slots the bag does not have: worn, or slot 0.
WornBelowZero(s) == s < 0

Worn(s) == s <= 0

AtEnd == i = Len(items)
NextItem == items[i + 1]

FindsTakenGap == IF AtEnd THEN TRUE ELSE slot <= NextItem

FindsGap == IF AtEnd THEN TRUE ELSE slot < NextItem

Return == /\ pc' = "done"
          /\ UNCHANGED <<items, slot, i>>

SkipsTakenInPlace == /\ slot = NextItem
                     /\ slot' = NextSlot(slot)
                     /\ UNCHANGED <<items, i, pc>>

SkipsTaken == /\ slot = NextItem
              /\ slot' = NextSlot(slot) /\ i' = i + 1
              /\ UNCHANGED <<items, pc>>

SkipsWorn == /\ slot > NextItem /\ Worn(NextItem)
             /\ i' = i + 1
             /\ UNCHANGED <<items, slot, pc>>

\* No branch takes an item that is behind the candidate and in the bag: the
\* loop goes round without a change.
GoesRound == slot > NextItem /\ ~Worn(NextItem) /\ UNCHANGED vars

\* One iteration: the branches in their order.
Iterate == /\ pc = "loop"
           /\ \/ FindsGap /\ Return
              \/ ~FindsGap /\ (SkipsTaken \/ SkipsWorn \/ GoesRound)

Next == Iterate \/ (pc = "done" /\ UNCHANGED vars)

\* The loop runs on a goroutine of its own: Go keeps scheduling it.
Spec == Init /\ [][Next]_vars /\ WF_vars(Iterate)

-----------------------------------------------------------------------------
Spins == pc = "loop" /\ ~FindsGap /\ slot > NextItem /\ ~Worn(NextItem)

\* Two rows share a slot of the bag.
Duplicate == \E j, k \in DOMAIN items : j < k /\ items[j] = items[k] /\ items[j] > 0

TypeOK == /\ items \in Inputs
          /\ slot \in SlotRange
          /\ i \in 0 .. Len(items)
          /\ pc \in {"loop", "done"}

\* The slot returned is in the bag, no row has it, and every smaller slot of
\* the bag has exactly one row, as long as there are fewer rows than slots.
ReturnsFirstFree ==
  pc = "done" /\ Len(items) < MaxSlot =>
    /\ slot \in 1 .. MaxSlot
    /\ \A j \in DOMAIN items : items[j] # slot
    /\ \A s \in 1 .. slot - 1 :
         \E j \in DOMAIN items : /\ items[j] = s
                                 /\ \A k \in DOMAIN items : items[k] = s => k = j

\* The loop spins for ever only when two rows share a slot of the bag, however
\* many rows there are: the candidate wraps only over the last of them.
SpinsOnlyOnDuplicate == Spins => Duplicate

\* On rows with distinct slots the function returns.
DistinctReturns == ~Duplicate ~> (pc = "done")
=============================================================================
