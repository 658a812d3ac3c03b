------------------------- MODULE MCPositionsabgleich -------------------------
(* Small instances of Positionsabgleich for TLC. *)
EXTENDS Positionsabgleich, TLC

CONSTANTS a1, a2, a3

Symmetrie == Permutations(Artikel)
=============================================================================
