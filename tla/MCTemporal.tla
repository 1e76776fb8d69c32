---------------------------- MODULE MCTemporal ----------------------------
(* Two goroutines, two characters; movements that keep, and that give, a   *)
(* stance.                                                                 *)
EXTENDS TemporalRegistry

MCStances == {0, 1}

\* A stretch of flight names no stance; a step and a jump each name one.
Flight == [start |-> Origin,
           elements |-> <<[type |-> "FLYING_BLOCK", position |-> Origin, action |-> 1]>>]

StepAndJump == [start |-> Origin,
                elements |-> <<[type |-> "NORMAL", position |-> "field", action |-> 0],
                               [type |-> "JUMP", position |-> Origin, action |-> 1]>>]

\* One character moves and goes through a portal beside the view of another.
MCRequests ==
  [ann |-> {Move(Flight), Move(StepAndJump), Portal("field")}, bob |-> {Show}]
=============================================================================
