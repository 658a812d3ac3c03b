----------------------------- MODULE MCSitzungen ----------------------------
(***************************************************************************)
(* The small instances of Rollenverwaltung, Artikelpflege and              *)
(* Bestelldialog.  They share no rows but those of the articles, which the *)
(* latter two change by PUT requests of their own; so one run checks them  *)
(* side by side: a behaviour is one of the part it has begun with, and the *)
(* others stand still.                                                     *)
(***************************************************************************)
EXTENDS Rollenverwaltung, Artikelpflege, Bestelldialog,
        FiniteSets, FiniteSetsExt

VARIABLE teil   \* "rollen", "pflege" or "dialog"

\* bound on the articles there are while customers shop; their prices change
MaxArtikel == 1

\* bound on the PUT requests meanwhile
MaxPuts == 1

\* bound on the pieces of articles in all carts
MaxStueckzahl == 2

\* bound on the prices while articles are maintained, where nobody computes
\* with them
PflegePreise == {1, Ohne}

alleVars == <<rollenVars, artikelVars, pflegeVars, dialogVars>>

\* where the parts stand that do not move
RollenRuhe ==
    /\ rollenKunden = Kunden
    /\ rollen = [k \in Kunden |-> {}]
    /\ rollenVersion = [k \in Kunden |-> 0]
    /\ bean = [s \in Sitzungen |-> LeereBean]
    /\ tx = [s \in Sitzungen |-> KeineTx]
    /\ gecacht = {}
    /\ cache = [k \in Kunden |-> {}]
    /\ anmeldung = [a \in Anmeldungen |-> KeineAnmeldung]
    /\ imFenster = {}

\* Requests, conversations, customers and articles are numbered in the order
\* in which they appear: which of the free numbers one gets makes no difference.
DerReiheNach(S) == S = 1..Cardinality(S)

SitzungenInit ==
    /\ teil \in {"rollen", "pflege", "dialog"}
    /\ PflegeInit
    /\ DialogInit
    /\ IF teil = "rollen" THEN RollenInit /\ vorhanden = {}
                          ELSE RollenRuhe /\ vorhanden # {}
    /\ DerReiheNach(vorhanden)
    /\ teil = "pflege" => \A id \in Artikel : zeile[id].preis \in PflegePreise
    /\ teil = "dialog" => Cardinality(vorhanden) <= MaxArtikel

\* the pieces in all carts and in the orders that are being made
Stueckzahl ==
    FoldSet(LAMBDA g, n : n + FoldSeq(LAMBDA p, m : m + p.anzahl, 0, positionen[g]),
            0, Gespraeche)

\* the customers who have left a trace in this browser
Bekannt == UNION {besitzer[g] \cup {lauf[g].kunde}
                    \cup UNION {{b.kunde} \cup b.besitzer : b \in Range(bestellungen[g])}
                  : g \in Gespraeche}

Gesendet == {p \in Puts : put[p].stufe # "frei"}
Begonnen == {g \in Gespraeche : gespraech[g] # "neu"}

SitzungenNext ==
    /\ UNCHANGED teil
    /\ \/ /\ teil = "rollen"
          /\ RollenNext
          /\ UNCHANGED <<artikelVars, pflegeVars, dialogVars>>
       \/ /\ teil = "pflege"
          /\ PflegeNext
          /\ DerReiheNach(vorhanden')
          /\ DerReiheNach(Gesendet')
          /\ \A id \in Artikel : zeile'[id].preis \in PflegePreise
          /\ \A m \in Masken : maske'[m].preis \in PflegePreise
          /\ DerReiheNach({q \in Gets : get'[q].stufe # "frei"})
          /\ UNCHANGED <<rollenVars, dialogVars>>
       \/ /\ teil = "dialog"
          /\ DialogNext
          /\ DerReiheNach(vorhanden') /\ Cardinality(vorhanden') <= MaxArtikel
          /\ DerReiheNach(Gesendet') /\ Cardinality(Gesendet') <= MaxPuts
          /\ DerReiheNach(Begonnen')
          /\ positionen' # positionen => Stueckzahl' <= MaxStueckzahl
          /\ principal' # principal => DerReiheNach((Bekannt \cup {principal'}) \ {Gast})
          /\ UNCHANGED <<rollenVars, pflegeVars>>

SitzungenSpec == SitzungenInit /\ [][SitzungenNext]_<<alleVars, teil>>

=============================================================================
