--------------------------- MODULE MCShedExecutor ---------------------------
(* Instances of ShedExecutor for TLC.                                      *)
EXTENDS ShedExecutor, TLC

Symmetry == Permutations(Loads)
=============================================================================
