--------------------------- MODULE MCLifecycle ---------------------------
(* Two goroutines; one name in two spellings and one that is malformed; a  *)
(* level that is in bounds and one that is not; two maps.                  *)
EXTENDS CharacterLifecycle

MCLower == [n \in Names |-> IF n = "Ann" THEN "ann" ELSE n]

MCLevels == {1, 201}
=============================================================================
