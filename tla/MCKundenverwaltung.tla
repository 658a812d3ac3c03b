------------------------- MODULE MCKundenverwaltung -------------------------
(* Small instances of Kundenverwaltung for TLC. *)
EXTENDS Kundenverwaltung, TLC

CONSTANTS p1, p2, klein, gross, k1, k2

EineEmail == k1 :> <<p1, klein>>

ZweiEmails == k1 :> <<p1, klein>> @@ k2 :> <<p2, klein>>

Symmetrie == Permutations(Anfragen) \cup Permutations(Orte \ {ErsterOrt})
=============================================================================
