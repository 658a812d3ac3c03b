--------------------------- MODULE Warenkorbzusage ---------------------------
(***************************************************************************)
(* What the shop promises about the lines of the persistent carts, without *)
(* transactions, locks or versions.                                        *)
(*                                                                         *)
(* A line is "neu" until its customer puts it into the cart, then "offen". *)
(* It leaves the cart for good, either into exactly one order of its own   *)
(* customer ("bestellt") or by being removed ("entfernt").  An order that  *)
(* was being built when the clean-up removed a line may still take it: the *)
(* one thing that never changes again is a line that has been ordered.     *)
(***************************************************************************)
CONSTANTS
    Positionen,      \* ids of cart lines
    Bestellungen,    \* ids of orders
    Kunden,          \* customers
    Niemand,         \* no customer, for a line that is "neu"
    Keine            \* no order

VARIABLES
    status,          \* what has become of each line
    eigner,          \* whose cart it is or was in
    bestellung       \* the order a line "bestellt" belongs to

vars == <<status, eigner, bestellung>>

Status == {"neu", "offen", "bestellt", "entfernt"}

TypeOK ==
    /\ status \in [Positionen -> Status]
    /\ eigner \in [Positionen -> Kunden \cup {Niemand}]
    /\ bestellung \in [Positionen -> Bestellungen \cup {Keine}]

Init ==
    /\ status = [p \in Positionen |-> "neu"]
    /\ eigner = [p \in Positionen |-> Niemand]
    /\ bestellung = [p \in Positionen |-> Keine]

Offen(k) == {p \in Positionen : status[p] = "offen" /\ eigner[p] = k}

Bestellbar(k) == Offen(k) \cup {p \in Positionen : status[p] = "entfernt" /\ eigner[p] = k}

Setze(f, S, w) == [p \in Positionen |-> IF p \in S THEN w ELSE f[p]]

\* Customer k puts a new line into the cart.
Ablegen(p, k) ==
    /\ status[p] = "neu"
    /\ status' = Setze(status, {p}, "offen")
    /\ eigner' = Setze(eigner, {p}, k)
    /\ UNCHANGED bestellung

\* Customer k orders the lines S with an order b that has no lines yet; the
\* lines L of the cart are removed along with them.
Bestellen(b, k, S, L) ==
    /\ \A p \in Positionen : bestellung[p] # b
    /\ S \cap L = {}
    /\ status' = Setze(Setze(status, S, "bestellt"), L, "entfernt")
    /\ bestellung' = Setze(bestellung, S, b)
    /\ UNCHANGED eigner

\* Old carts are removed, whoever they belong to.
Entfernen(S) ==
    /\ S # {}
    /\ \A p \in S : status[p] = "offen"
    /\ status' = Setze(status, S, "entfernt")
    /\ UNCHANGED <<eigner, bestellung>>

Next ==
    \/ \E k \in Kunden, p \in Positionen : Ablegen(p, k)
    \/ \E k \in Kunden : \E S \in (SUBSET Bestellbar(k)) \ {{}} : \E L \in SUBSET Offen(k) :
          \E b \in Bestellungen : Bestellen(b, k, S, L)
    \/ \E S \in SUBSET Positionen : Entfernen(S)

Spec == Init /\ [][Next]_vars
=============================================================================
