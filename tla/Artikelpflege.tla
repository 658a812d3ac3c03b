---------------------------- MODULE Artikelpflege ---------------------------
(***************************************************************************)
(* The pages in the browser on which articles are looked up, changed and   *)
(* created (shop.js, factories.js), in front of Artikelverwaltung.         *)
(*                                                                         *)
(* Every call of a $resource returns an empty object at once and fills it  *)
(* when the answer arrives; answers arrive in any order or not at all, and *)
(* a callback runs even if the user has left the page that has asked.      *)
(* Each GET request q \in Gets stands for the object it returns as well.   *)
(***************************************************************************)
EXTENDS Artikelverwaltung

CONSTANTS
    Gets,           \* GET requests
    Masken          \* visits of the page artikelAendern, one controller each

ASSUME PflegeAnnahme == Ohne \notin Gets \cup Masken

VARIABLES
    get,            \* the GET requests
    anzeige,        \* $scope.artikel of the search page: the object it shows
    gesucht,        \* the id the user has searched for last
    maske,          \* $routeParams.id and $scope.artikel of each controller
    aktiv           \* the form in the browser, Ohne: another page

pflegeVars == <<get, anzeige, gesucht, maske, aktiv>>

-----------------------------------------------------------------------------
Get == [stufe : {"frei", "unterwegs", "beantwortet", "fertig", "fehler"},
        zweck : {"suche", "show", "update"},
        id : Artikel \cup {Ohne},
        maske : Masken \cup {Ohne},
        antwort : Zeile]

Maske == [id : Artikel \cup {Ohne},
          bezeichnung : Bezeichnungen \cup {Ohne},
          preis : Preise \cup {Ohne}]

PflegeTypeOK ==
    /\ ArtikelTypeOK
    /\ get \in [Gets -> Get]
    /\ anzeige \in Gets \cup {Ohne}
    /\ gesucht \in Artikel \cup {Ohne}
    /\ maske \in [Masken -> Maske]
    /\ aktiv \in Masken \cup {Ohne}

KeinGet == [stufe |-> "frei", zweck |-> "suche", id |-> Ohne,
            maske |-> Ohne, antwort |-> KeineZeile]

NeueMaske == [id |-> Ohne, bezeichnung |-> Ohne, preis |-> Ohne]

PflegeInit ==
    /\ ArtikelInit
    /\ get = [q \in Gets |-> KeinGet]
    /\ anzeige = Ohne
    /\ gesucht = Ohne
    /\ maske = [m \in Masken |-> NeueMaske]
    /\ aktiv = Ohne

\* what is left of a request whose answer has been used up
Verbraucht == [KeinGet EXCEPT !.stufe = "fertig"]

-----------------------------------------------------------------------------
(***************************************************************************)
(* GET requests.                                                           *)
(***************************************************************************)

SendeGet(q, zweck, id, m) ==
    /\ get[q].stufe = "frei"
    /\ get' = [get EXCEPT ![q] = [KeinGet EXCEPT
                  !.stufe = "unterwegs", !.zweck = zweck,
                  !.id = id, !.maske = m]]

\* ArtikelResource.findArtikelById
FindArtikelById(q) ==
    /\ get[q].stufe = "unterwegs"
    /\ get[q].id \in vorhanden
    /\ get' = [get EXCEPT ![q].stufe = "beantwortet",
                          ![q].antwort = zeile[get[q].id]]
    /\ UNCHANGED <<artikelVars, anzeige, gesucht, maske, aktiv>>

\* 404, or no answer at all
GetFehler(q) ==
    /\ get[q].stufe = "unterwegs"
    /\ get' = [get EXCEPT ![q] = IF @.zweck = "suche"
                                 THEN [@ EXCEPT !.stufe = "fehler"]
                                 ELSE Verbraucht]
    /\ UNCHANGED <<artikelVars, anzeige, gesucht, maske, aktiv>>

-----------------------------------------------------------------------------
(***************************************************************************)
(* alleArtikelController.                                                  *)
(***************************************************************************)

\* search: the page shows the object of this request from now on.
Search(q, id) ==
    /\ aktiv = Ohne
    /\ SendeGet(q, "suche", id, Ohne)
    /\ anzeige' = q
    /\ gesucht' = id
    /\ UNCHANGED <<artikelVars, maske, aktiv>>

\* the answer itself shown when it arrives, whichever search it belongs to
EmpfangeSuche_Fehler(q) ==
    /\ get[q].stufe = "beantwortet"
    /\ get[q].zweck = "suche"
    /\ get' = [get EXCEPT ![q].stufe = "fertig"]
    /\ anzeige' = q
    /\ UNCHANGED <<artikelVars, gesucht, maske, aktiv>>

\* The object of the request is filled, whether or not it is the one shown.
EmpfangeSuche(q) ==
    /\ get[q].stufe = "beantwortet"
    /\ get[q].zweck = "suche"
    /\ get' = [get EXCEPT ![q].stufe = "fertig"]
    /\ UNCHANGED <<artikelVars, anzeige, gesucht, maske, aktiv>>

-----------------------------------------------------------------------------
(***************************************************************************)
(* artikelAendernController.                                               *)
(***************************************************************************)

\* editArtikel, with the id in the input field: the page is opened, and its
\* controller asks for the values (ArtikelFactory.show).
EditArtikel(m, q, id) ==
    /\ aktiv = Ohne
    /\ maske[m].id = Ohne
    /\ SendeGet(q, "show", id, m)
    /\ maske' = [maske EXCEPT ![m].id = id]
    /\ aktiv' = m
    /\ UNCHANGED <<artikelVars, anzeige, gesucht>>

\* The values arrive, and replace what has been typed meanwhile.
EmpfangeShow(q) ==
    /\ get[q].stufe = "beantwortet"
    /\ get[q].zweck = "show"
    /\ get' = [get EXCEPT ![q] = Verbraucht]
    /\ maske' = [maske EXCEPT
           ![get[q].maske].bezeichnung = get[q].antwort.bezeichnung,
           ![get[q].maske].preis = get[q].antwort.preis]
    /\ UNCHANGED <<artikelVars, anzeige, gesucht, aktiv>>

\* The user types (ng-model).
Tippe(m, bezeichnung, preis) ==
    /\ aktiv = m
    /\ \/ maske' = [maske EXCEPT ![m].bezeichnung = bezeichnung]
       \/ maske' = [maske EXCEPT ![m].preis = preis]
    /\ UNCHANGED <<artikelVars, get, anzeige, gesucht, aktiv>>

\* updateArtikel: the article is fetched once more ...
UpdateKlick(m, q) ==
    /\ aktiv = m
    /\ SendeGet(q, "update", maske[m].id, m)
    /\ UNCHANGED <<artikelVars, anzeige, gesucht, maske, aktiv>>

\* an object that lacks the version
Objekt_OhneVersion(a, m) == [a EXCEPT !.bezeichnung = m.bezeichnung,
                                      !.preis = m.preis,
                                      !.version = Ohne]

\* a new object instead of the one that was fetched
Objekt_Fehler(a, m) == [a EXCEPT !.bezeichnung = m.bezeichnung,
                                 !.preis = m.preis,
                                 !.ausgesondert = FALSE]

\* The object that was fetched, with the name and the price of the form as it
\* is now; a field that is undefined is not sent.
Objekt(a, m) == [a EXCEPT !.bezeichnung = m.bezeichnung, !.preis = m.preis]

\* ... and sent back with the values of the form.  Nobody looks at the answer:
\* the page is left at once, whichever page that is by now.
EmpfangeUpdate(q, p) ==
    /\ get[q].stufe = "beantwortet"
    /\ get[q].zweck = "update"
    /\ get' = [get EXCEPT ![q] = Verbraucht]
    /\ SendePut(p, get[q].id, Objekt(get[q].antwort, maske[get[q].maske]), TRUE)
    /\ aktiv' = Ohne
    /\ UNCHANGED <<vorhanden, zeile, anzeige, gesucht, maske>>

\* cancel, or any other way to leave the page
Cancel ==
    /\ aktiv # Ohne
    /\ aktiv' = Ohne
    /\ UNCHANGED <<artikelVars, get, anzeige, gesucht, maske>>

\* artikelAnlegenController.createArtikel; incomplete input is refused.
AnlegenKlick(id, bezeichnung, preis) ==
    /\ aktiv = Ohne
    /\ CreateArtikel(id, [KeineZeile EXCEPT !.bezeichnung = bezeichnung,
                                            !.preis = preis])
    /\ UNCHANGED pflegeVars

\* Another client of the REST interface takes an article out of the offer, or
\* back in, with the version it has read.
Aussondern(p, id) ==
    /\ id \in vorhanden
    /\ SendePut(p, id, [zeile[id] EXCEPT !.ausgesondert = ~@], FALSE)
    /\ UNCHANGED <<vorhanden, zeile, pflegeVars>>

PflegeNext ==
    \/ ArtikelSchritt /\ UNCHANGED pflegeVars
    \/ \E q \in Gets :
          FindArtikelById(q) \/ GetFehler(q) \/ EmpfangeSuche(q) \/ EmpfangeShow(q)
    \/ \E q \in Gets, id \in Artikel : Search(q, id)
    \/ \E m \in Masken, q \in Gets, id \in Artikel : EditArtikel(m, q, id)
    \/ \E m \in Masken, b \in Bezeichnungen, c \in Preise : Tippe(m, b, c)
    \/ \E m \in Masken, q \in Gets : UpdateKlick(m, q)
    \/ \E q \in Gets, p \in Puts : EmpfangeUpdate(q, p)
    \/ Cancel
    \/ \E id \in Artikel, b \in Bezeichnungen \cup {Ohne}, c \in Preise \cup {Ohne} :
          AnlegenKlick(id, b, c)
    \/ \E p \in Puts, id \in Artikel : Aussondern(p, id)

PflegeSpec == PflegeInit /\ [][PflegeNext]_<<artikelVars, pflegeVars>>

-----------------------------------------------------------------------------
(***************************************************************************)
(* Properties.                                                             *)
(***************************************************************************)

\* In whatever order the answers of several searches arrive, the page shows
\* the article that was searched for last, or nothing yet
\* (alleArtikelController.search assigns the object, not the answer).
AnzeigeGehoertZurSuche ==
    anzeige # Ohne => get[anzeige].id = gesucht

\* The form has no field for it, and does not change whether an article is in
\* the offer, unless somebody has changed the article since the form has
\* fetched it (updateArtikel fetches it again, right before it sends it back,
\* for just that reason).
AusgesondertBleibt ==
    [][\A p \in Puts :
          put[p].maske /\ put[p].stufe = "gelesen" /\ put'[p].stufe = "fertig" =>
             \/ put[p].werte.version # zeile[put[p].id].version
             \/ zeile'[put[p].id].ausgesondert = zeile[put[p].id].ausgesondert
      ]_<<artikelVars, pflegeVars>>

-----------------------------------------------------------------------------
(* The parts of the inductive invariant of these properties. *)

\* The page shows a search, the last one.
AnzeigeStimmt ==
    anzeige # Ohne =>
        /\ get[anzeige].stufe # "frei"
        /\ get[anzeige].zweck = "suche"
        /\ get[anzeige].id = gesucht

\* A request that has been sent by a form knows which.
AnfrageDerMaske ==
    \A q \in Gets : get[q].zweck # "suche" => get[q].maske \in Masken

\* The values of an article that bear the version of the row agree with the
\* row about ausgesondert.
Stimmt(id, werte) ==
    /\ id \in vorhanden
    /\ werte.version <= zeile[id].version
    /\ werte.version = zeile[id].version => werte.ausgesondert = zeile[id].ausgesondert

AntwortStimmt ==
    \A q \in Gets : get[q].stufe = "beantwortet" => Stimmt(get[q].id, get[q].antwort)

FormularStimmt ==
    \A p \in Puts : put[p].maske /\ put[p].stufe \in {"gesendet", "gelesen"} =>
                        Stimmt(put[p].id, put[p].werte)

PflegeIInv ==
    /\ PflegeTypeOK
    /\ PutsStimmen
    /\ NieUnvollstaendig
    /\ AnzeigeStimmt
    /\ AnfrageDerMaske
    /\ AntwortStimmt
    /\ FormularStimmt

=============================================================================
