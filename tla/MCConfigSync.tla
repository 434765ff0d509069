---------------------------- MODULE MCConfigSync ----------------------------
(* Instances of ConfigSync small enough for TLC. *)
EXTENDS ConfigSync, TLC

CONSTANTS r1, r2

OneRequest  == {r1}
TwoRequests == {r1, r2}
Symmetry    == Permutations(Requests)

AllOps == DOMAIN OpTables
=============================================================================
