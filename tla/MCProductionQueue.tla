------------------------- MODULE MCProductionQueue -------------------------
(* Instances of ProductionQueue for TLC. *)
EXTENDS ProductionQueue, TLC

RequestSymmetry == Permutations(Requests)
=============================================================================
