---------------------------- MODULE MCDateiablage ----------------------------
(* Small instances of Dateiablage for TLC. *)
EXTENDS Dateiablage, TLC

Symmetrie == Permutations(Anfragen)
=============================================================================
