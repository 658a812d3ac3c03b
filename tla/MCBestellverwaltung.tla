------------------------ MODULE MCBestellverwaltung ------------------------
(* Small instances of Bestellverwaltung for TLC. *)
EXTENDS Bestellverwaltung, TLC

Symmetrie == Permutations(Anfragen)

\* In a run without symmetry the requests are numbered by their kinds: which of
\* the free numbers a request gets makes no difference.
Nummer == [position |-> 1, warenkorb |-> 2, direkt |-> 3,
           loeschen |-> 4, kundeRemover |-> 5, warenkorbRemover |-> 6]

NachArtNumeriert ==
    \A r, s \in Anfragen :
        r < s /\ {tx[r].art, tx[s].art} \subseteq DOMAIN Nummer
            => Nummer[tx[r].art] <= Nummer[tx[s].art]

\* No request has to come, and with the numbers that are left perhaps none can.
KeineAnfrageMehr == (\A r \in Anfragen : ~ Laeuft(r)) /\ UNCHANGED vars

NumerierterSchritt == (Next /\ NachArtNumeriert') \/ KeineAnfrageMehr

NumerierteFairSpec == Init /\ [][NumerierterSchritt]_vars /\ Fairness
=============================================================================
