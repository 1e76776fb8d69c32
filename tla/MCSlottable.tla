---------------------------- MODULE MCSlottable -----------------------------
(* Every sorted sequence of up to MaxRows slots of a narrow integer. *)
EXTENDS Slottable

CONSTANT MaxRows

MCInputs == UNION {{s \in [1 .. n -> -1 .. MaxSlot] : Sorted(s)} : n \in 0 .. MaxRows}
=============================================================================
