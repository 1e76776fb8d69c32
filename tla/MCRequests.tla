---------------------------- MODULE MCRequests -----------------------------
(* CharacterRequests for TLC: two characters and two goroutines.            *)
EXTENDS CharacterRequests, TLC

\* The bag, the top and the cash top.
SlotsMC == {1, -5, -105}

\* The bag and the top.
OneTop == {1, -5}

Alike == Permutations(Handlers)
=============================================================================
