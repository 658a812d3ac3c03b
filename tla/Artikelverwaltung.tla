-------------------------- MODULE Artikelverwaltung -------------------------
(***************************************************************************)
(* The table of articles and the REST requests that write it               *)
(* (ArtikelResource, ArtikelService).  Who sends the requests is the       *)
(* matter of the modules that extend this one: Artikelpflege with the      *)
(* pages in the browser, Bestelldialog with customers who shop meanwhile.  *)
(*                                                                         *)
(* A PUT is one container transaction: it reads the row, lets the managed  *)
(* object take over all values the client has sent, and writes it at the   *)
(* commit, where the version that was read (not the one the client has     *)
(* sent) must still be the current one.                                    *)
(***************************************************************************)
EXTENDS Naturals

CONSTANTS
    Artikel,        \* ids
    Bezeichnungen,
    Preise,         \* in cents
    Ohne,           \* a field that has not been sent, or the id of no article
    Puts            \* PUT requests

ASSUME ArtikelAnnahme ==
    /\ Preise \subseteq Nat
    /\ Ohne \notin Artikel \cup Bezeichnungen \cup Nat

VARIABLES
    vorhanden,      \* the articles there are; none is ever deleted
    zeile,          \* the rows of table Artikel
    put             \* the PUT requests

artikelVars == <<vorhanden, zeile, put>>

-----------------------------------------------------------------------------
\* The values of an article, as a row or as an object a client sends.
Zeile == [bezeichnung : Bezeichnungen \cup {Ohne},
          preis : Preise \cup {Ohne},
          ausgesondert : BOOLEAN,
          version : Nat]

Put == [stufe : {"frei", "gesendet", "gelesen", "fertig", "abgelehnt"},
        maske : BOOLEAN,    \* sent by the form of Artikelpflege
        id : Artikel \cup {Ohne},
        werte : Zeile,
        alt : Zeile]        \* the row as it was read

ArtikelTypeOK ==
    /\ vorhanden \subseteq Artikel
    /\ zeile \in [Artikel -> Zeile]
    /\ put \in [Puts -> Put]

KeineZeile == [bezeichnung |-> Ohne, preis |-> Ohne,
               ausgesondert |-> FALSE, version |-> 0]

KeinPut == [stufe |-> "frei", maske |-> FALSE, id |-> Ohne,
            werte |-> KeineZeile, alt |-> KeineZeile]

\* what is left of a request that has been answered
Erledigt(stufe) == [KeinPut EXCEPT !.stufe = stufe]

\* forgotten
Gueltig_Fehler(z) == TRUE

\* @NotNull of the two fields, checked because the parameter is @Valid and
\* again when the row is written
Gueltig(z) == z.bezeichnung # Ohne /\ z.preis # Ohne

\* complete rows that have never been changed
NeueZeilen == [bezeichnung : Bezeichnungen, preis : Preise,
               ausgesondert : BOOLEAN, version : {0}]

ArtikelInit ==
    /\ vorhanden \in SUBSET Artikel
    /\ \E z \in [vorhanden -> NeueZeilen] :
           zeile = [id \in Artikel |-> IF id \in vorhanden THEN z[id] ELSE KeineZeile]
    /\ put = [p \in Puts |-> KeinPut]

-----------------------------------------------------------------------------
\* A client sends a PUT.
SendePut(p, id, werte, maske) ==
    /\ put[p].stufe = "frei"
    /\ put' = [put EXCEPT ![p] = [KeinPut EXCEPT
                  !.stufe = "gesendet", !.maske = maske,
                  !.id = id, !.werte = werte]]

\* ArtikelResource.updateArtikel: the row is read; the managed object takes
\* over the values, its version among them.
UpdateArtikel(p) ==
    /\ put[p].stufe = "gesendet"
    /\ Gueltig(put[p].werte)
    /\ put[p].id \in vorhanden
    /\ put' = [put EXCEPT ![p].stufe = "gelesen", ![p].alt = zeile[put[p].id]]
    /\ UNCHANGED <<vorhanden, zeile>>

\* 400 or 404
VerwerfePut(p) ==
    /\ put[p].stufe = "gesendet"
    /\ ~Gueltig(put[p].werte) \/ put[p].id \notin vorhanden
    /\ put' = [put EXCEPT ![p] = Erledigt("abgelehnt")]
    /\ UNCHANGED <<vorhanden, zeile>>

\* The merge in ArtikelService.updateArtikel finds the managed object; what
\* differs from the row that was read is written.
CommitPut(p) ==
    /\ put[p].stufe = "gelesen"
    /\ put[p].werte # put[p].alt
    /\ zeile[put[p].id].version = put[p].alt.version
    /\ zeile' = [zeile EXCEPT ![put[p].id] =
                    [put[p].werte EXCEPT !.version = put[p].alt.version + 1]]
    /\ put' = [put EXCEPT ![p] = Erledigt("fertig")]
    /\ UNCHANGED vorhanden

OhneUnterschied(p) ==
    /\ put[p].stufe = "gelesen"
    /\ put[p].werte = put[p].alt
    /\ put' = [put EXCEPT ![p] = Erledigt("fertig")]
    /\ UNCHANGED <<vorhanden, zeile>>

\* OptimisticLockException: another PUT was committed during this one.
KonfliktPut(p) ==
    /\ put[p].stufe = "gelesen"
    /\ put[p].werte # put[p].alt
    /\ zeile[put[p].id].version # put[p].alt.version
    /\ put' = [put EXCEPT ![p] = Erledigt("abgelehnt")]
    /\ UNCHANGED <<vorhanden, zeile>>

\* ArtikelService.createArtikel, called by ArtikelResource.createArtikel and
\* by ArtikelModel.createArtikel; the database generates the id.
CreateArtikel(id, werte) ==
    /\ id \notin vorhanden
    /\ Gueltig(werte)
    /\ vorhanden' = vorhanden \cup {id}
    /\ zeile' = [zeile EXCEPT ![id] = werte]
    /\ UNCHANGED put

ArtikelSchritt ==
    \E p \in Puts :
        \/ UpdateArtikel(p) \/ VerwerfePut(p)
        \/ CommitPut(p) \/ OhneUnterschied(p) \/ KonfliktPut(p)

-----------------------------------------------------------------------------
\* No article is ever stored without a name or a price, although a form can be
\* sent before its values have arrived (Artikelpflege).
NieUnvollstaendig ==
    \A id \in vorhanden : zeile[id].bezeichnung # Ohne /\ zeile[id].preis # Ohne

\* A PUT that has got past the checks is complete, and its article is there.
PutsStimmen ==
    \A p \in Puts : put[p].stufe = "gelesen" =>
        Gueltig(put[p].werte) /\ put[p].id \in vorhanden

=============================================================================
