--------------------------- MODULE Kundenverwaltung ---------------------------
(***************************************************************************)
(* Registering, changing and deleting customers with optimistic locking.   *)
(*                                                                         *)
(* A change starts with a copy: a REST client keeps what GET has returned, *)
(* a JSF session keeps the entity it shows (KundeModel).  Much later the   *)
(* copy comes back with new values, and one transaction at READ COMMITTED  *)
(* compares versions and writes.  The Adresse of a customer is a row with  *)
(* a version of its own, which the two front ends treat differently: with  *)
(* REST it is read anew inside the transaction, with JSF it is the one     *)
(* that was loaded together with the customer.                             *)
(*                                                                         *)
(* A request inserts at most one customer; its name is the id of that row. *)
(***************************************************************************)
EXTENDS Integers

CONSTANTS
    Kunden,          \* ids of the customers there are in the beginning
    Anfragen,        \* the requests, and ids of the customers they insert
    Postfaecher,     \* mail boxes: UPPER(email)
    Schreibweisen,   \* the ways to write one mail box (upper and lower case)
    ErsteEmail,      \* the e-mail each first customer has
    Namen, Orte,     \* contents of a customer and of an address
    ErsterName, ErsterOrt

Ids == Kunden \cup Anfragen

Emails == Postfaecher \X Schreibweisen

ASSUME KonstantenAnnahme ==
    /\ Kunden \cap Anfragen = {}
    /\ Emails # {}
    /\ ErsteEmail \in [Kunden -> Emails]
    /\ \A j, k \in Kunden : ErsteEmail[j][1] = ErsteEmail[k][1] => j = k
    /\ ErsterName \in Namen
    /\ ErsterOrt \in Orte

VARIABLES
    kunden,          \* ids of the rows of table kunde
    zeile,           \* their columns
    adressen,        \* customers that have a row in table Adresse
    adresse,         \* its columns
    pc,              \* how far a request has come
    tx               \* what a request has read and is going to write

vars == <<kunden, zeile, adressen, adresse, pc, tx>>

Daten == [email : Emails, name : Namen]

Zeile == [daten : Daten, version : Nat]

Adresszeile == [ort : Orte, version : Nat]

\* The values a client sends.
Eingabe == [daten : Daten, ort : Orte]

Transaktion == [art : {"keine", "registrieren", "rest", "jsf", "loeschen"},
                id : Ids,             \* the customer it is about
                kopie : Zeile,        \* the copy, or what a deletion has read
                adrKopie : Adresszeile,
                adrGelesen : Adresszeile,  \* the managed entity, as loaded
                neu : Eingabe,
                einfuegen : BOOLEAN]  \* merge has made a new entity of the copy

Beendet == {"fertig", "abgelehnt"}

Stufen == {"bereit", "angezeigt", "vorhanden", "gefunden", "geprueft",
           "gemischt"} \cup Beendet

TypeOK ==
    /\ kunden \subseteq Ids
    /\ zeile \in [Ids -> Zeile]
    /\ adressen \subseteq Ids
    /\ adresse \in [Ids -> Adresszeile]
    /\ pc \in [Anfragen -> Stufen]
    /\ tx \in [Anfragen -> Transaktion]

\* Columns of a row nobody has inserted yet.
OhneZeile == [daten |-> [email |-> CHOOSE e \in Emails : TRUE, name |-> ErsterName],
              version |-> 0]

OhneAdresse == [ort |-> ErsterOrt, version |-> 0]

Init ==
    /\ kunden = Kunden
    /\ zeile = [i \in Ids |->
                  IF i \in Kunden
                  THEN [daten |-> [email |-> ErsteEmail[i], name |-> ErsterName],
                        version |-> 0]
                  ELSE OhneZeile]
    /\ adressen = Kunden
    /\ adresse = [i \in Ids |-> OhneAdresse]
    /\ pc = [r \in Anfragen |-> "bereit"]
    /\ tx = [r \in Anfragen |->
               [art |-> "keine", id |-> r, kopie |-> OhneZeile,
                adrKopie |-> OhneAdresse, adrGelesen |-> OhneAdresse,
                neu |-> [daten |-> OhneZeile.daten, ort |-> ErsterOrt],
                einfuegen |-> FALSE]]

-----------------------------------------------------------------------------
Gross(e) == e[1]

\* AbstractKunde.FIND_KUNDE_BY_EMAIL compares in upper case ...
FindKundenByEmail(e) == {k \in kunden : Gross(zeile[k].daten.email) = Gross(e)}

\* ... but the UNIQUE index of column email compares exactly.
IndexFrei(e, i) == \A k \in kunden \ {i} : zeile[k].daten.email # e

Weiter(r, stufe) == pc' = [pc EXCEPT ![r] = stufe]

\* Rollback, or the end of a request that has changed nothing.
Ablehnen(r) ==
    /\ Weiter(r, "abgelehnt")
    /\ UNCHANGED <<kunden, zeile, adressen, adresse, tx>>

\* (Definitions named ..._Fehler are what a plausible bug would make of the
\* definition that follows; the mutation runs put them in its place.)

\* without @Version
VersionPasst_Fehler(r) == tx[r].id \in kunden

\* UPDATE and DELETE of a customer carry WHERE id = ? AND version = ?, and
\* merge compares the versions beforehand.
VersionPasst(r) ==
    tx[r].id \in kunden /\ zeile[tx[r].id].version = tx[r].kopie.version

\* the address without @Version
AdressversionPasst_Fehler(r) == tx[r].id \in adressen

AdressversionPasst(r) ==
    tx[r].id \in adressen /\ adresse[tx[r].id].version = tx[r].adrGelesen.version

\* Only what has changed is written and gets a new version.
KundeGeaendert(r) == tx[r].neu.daten # tx[r].kopie.daten

AdresseGeaendert(r) == tx[r].neu.ort # tx[r].adrGelesen.ort

-----------------------------------------------------------------------------
(***************************************************************************)
(* POST /kunden, the registration page, SOAP createPrivatkunde.            *)
(***************************************************************************)

\* createKunde: the e-mail must be new (EmailExistsException).
Registrieren(r, neu) ==
    /\ pc[r] = "bereit"
    /\ tx' = [tx EXCEPT ![r].art = "registrieren", ![r].neu = neu]
    /\ Weiter(r, IF FindKundenByEmail(neu.daten.email) = {} THEN "geprueft"
                 ELSE "abgelehnt")
    /\ UNCHANGED <<kunden, zeile, adressen, adresse>>

\* INSERT of a customer; the UNIQUE index decides.
Einfuegen(r) ==
    /\ IndexFrei(tx[r].neu.daten.email, r)
    /\ kunden' = kunden \cup {r}
    /\ zeile' = [zeile EXCEPT ![r] = [daten |-> tx[r].neu.daten, version |-> 0]]
    /\ Weiter(r, "fertig")

CreateKunde(r) ==
    /\ tx[r].art = "registrieren"
    /\ pc[r] = "geprueft"
    /\ Einfuegen(r)
    /\ adressen' = adressen \cup {r}
    /\ adresse' = [adresse EXCEPT ![r] = [ort |-> tx[r].neu.ort, version |-> 0]]
    /\ UNCHANGED tx

VerwerfeCreateKunde(r) ==
    /\ tx[r].art = "registrieren"
    /\ pc[r] = "geprueft"
    /\ ~ IndexFrei(tx[r].neu.daten.email, r)
    /\ Ablehnen(r)

-----------------------------------------------------------------------------
(***************************************************************************)
(* Changing a customer.                                                    *)
(***************************************************************************)

\* the version forgotten
Gelesen_Fehler(r, a, k) ==
    tx' = [tx EXCEPT ![r].art = a, ![r].id = k, ![r].kopie = [daten |-> zeile[k].daten],
                     ![r].adrKopie = adresse[k], ![r].adrGelesen = adresse[k]]

\* What a find has returned.
Gelesen(r, a, k) ==
    tx' = [tx EXCEPT ![r].art = a, ![r].id = k, ![r].kopie = zeile[k],
                     ![r].adrKopie = adresse[k], ![r].adrGelesen = adresse[k]]

\* GET /kunden/{id}, or KundeModel.findKundeById: the copy.
FindKundeById(r, a, k) ==
    /\ pc[r] = "bereit"
    /\ a \in {"rest", "jsf"}
    /\ k \in kunden
    /\ Gelesen(r, a, k)
    /\ Weiter(r, "angezeigt")
    /\ UNCHANGED <<kunden, zeile, adressen, adresse>>

\* PUT /kunden: the row is read and takes over the values of the client.  For
\* the customer that includes the client's version, as updateKunde detaches it;
\* the Adresse stays managed, with the version that has just been read.
UpdateRest(r, neu) ==
    LET da == tx[r].id \in kunden IN
    /\ tx[r].art = "rest"
    /\ pc[r] = "angezeigt"
    /\ tx' = [tx EXCEPT ![r].neu = neu,
                        ![r].adrGelesen = IF da THEN adresse[tx[r].id] ELSE @]
    /\ Weiter(r, IF da THEN "vorhanden" ELSE "abgelehnt")
    /\ UNCHANGED <<kunden, zeile, adressen, adresse>>

\* KundeModel.update: both entities are those of the extended context.
UpdateJsf(r, neu) ==
    /\ tx[r].art = "jsf"
    /\ pc[r] = "angezeigt"
    /\ tx' = [tx EXCEPT ![r].neu = neu]
    /\ Weiter(r, "vorhanden")
    /\ UNCHANGED <<kunden, zeile, adressen, adresse>>

\* updateKunde: ConcurrentDeletedException if the row is gone.
PruefeGeloescht(r) ==
    /\ pc[r] = "vorhanden"
    /\ Weiter(r, IF tx[r].id \in kunden THEN "gefunden" ELSE "abgelehnt")
    /\ UNCHANGED <<kunden, zeile, adressen, adresse, tx>>

\* ... EmailExistsException, or a NonUniqueResultException.
PruefeEmail(r) ==
    /\ tx[r].art \in {"rest", "jsf"}
    /\ pc[r] = "gefunden"
    /\ Weiter(r, IF FindKundenByEmail(tx[r].neu.daten.email) \subseteq {tx[r].id}
                 THEN "geprueft" ELSE "abgelehnt")
    /\ UNCHANGED <<kunden, zeile, adressen, adresse, tx>>

\* em.merge: OptimisticLockException for an old version.  If the row has gone
\* since PruefeGeloescht, merge makes a new entity with a new id of the copy.
Merge(r) ==
    /\ tx[r].art \in {"rest", "jsf"}
    /\ pc[r] = "geprueft"
    /\ tx' = [tx EXCEPT ![r].einfuegen = tx[r].id \notin kunden]
    /\ Weiter(r, IF tx[r].id \notin kunden \/ VersionPasst(r) THEN "gemischt"
                 ELSE "abgelehnt")
    /\ UNCHANGED <<kunden, zeile, adressen, adresse>>

\* agbAkzeptiert copied by merge
AgbAkzeptiert_Fehler(r) == TRUE

\* @AssertTrue agbAkzeptiert, checked before an INSERT or UPDATE: the field is
\* @Transient, set by @PostLoad and not copied by merge, so that it is still
\* false in a new entity that merge has made.
AgbAkzeptiert(r) == ~ tx[r].einfuegen

UpdateMoeglich(r) ==
    /\ tx[r].einfuegen => AgbAkzeptiert(r) /\ IndexFrei(tx[r].neu.daten.email, r)
    /\ ~ tx[r].einfuegen /\ KundeGeaendert(r) =>
          VersionPasst(r) /\ IndexFrei(tx[r].neu.daten.email, tx[r].id)
    /\ AdresseGeaendert(r) => AdressversionPasst(r)

\* the version not counted
Schreiben_Fehler(r) ==
    /\ zeile' = [zeile EXCEPT ![tx[r].id].daten = tx[r].neu.daten]
    /\ Weiter(r, "fertig")
    /\ UNCHANGED kunden

\* The UPDATE statements of a commit.
Schreiben(r) ==
    LET k == tx[r].id IN
    /\ zeile' = IF KundeGeaendert(r)
                THEN [zeile EXCEPT ![k] = [daten |-> tx[r].neu.daten, version |-> @.version + 1]]
                ELSE zeile
    /\ Weiter(r, "fertig")
    /\ UNCHANGED kunden

\* (AgbAkzeptiert leaves no room for Einfuegen here.)
CommitUpdate(r) ==
    /\ tx[r].art \in {"rest", "jsf"}
    /\ pc[r] = "gemischt"
    /\ UpdateMoeglich(r)
    /\ IF tx[r].einfuegen THEN Einfuegen(r) ELSE Schreiben(r)
    /\ adresse' = IF AdresseGeaendert(r)
                  THEN [adresse EXCEPT ![tx[r].id] =
                          [ort |-> tx[r].neu.ort, version |-> @.version + 1]]
                  ELSE adresse
    /\ UNCHANGED <<adressen, tx>>

VerwerfeUpdate(r) ==
    /\ tx[r].art \in {"rest", "jsf"}
    /\ pc[r] = "gemischt"
    /\ ~ UpdateMoeglich(r)
    /\ Ablehnen(r)

-----------------------------------------------------------------------------
(***************************************************************************)
(* DELETE /kunden/{id} for a customer without orders; the Adresse goes     *)
(* with it (cascade REMOVE).                                               *)
(***************************************************************************)

DeleteKundeById(r, k) ==
    /\ pc[r] = "bereit"
    /\ k \in kunden
    /\ Gelesen(r, "loeschen", k)
    /\ Weiter(r, "gefunden")
    /\ UNCHANGED <<kunden, zeile, adressen, adresse>>

\* no version in the WHERE clause
LoeschenMoeglich_Fehler(r) == tx[r].id \in kunden

LoeschenMoeglich(r) ==
    VersionPasst(r) /\ (tx[r].id \in adressen => AdressversionPasst(r))

CommitDelete(r) ==
    /\ tx[r].art = "loeschen"
    /\ pc[r] = "gefunden"
    /\ LoeschenMoeglich(r)
    /\ kunden' = kunden \ {tx[r].id}
    /\ adressen' = adressen \ {tx[r].id}
    /\ Weiter(r, "fertig")
    /\ UNCHANGED <<zeile, adresse, tx>>

VerwerfeDelete(r) ==
    /\ tx[r].art = "loeschen"
    /\ pc[r] = "gefunden"
    /\ ~ LoeschenMoeglich(r)
    /\ Ablehnen(r)

-----------------------------------------------------------------------------
\* The user gives up, or the transaction fails for a reason of its own.
Abbruch(r) ==
    /\ pc[r] \notin Beendet \cup {"bereit"}
    /\ Ablehnen(r)

\* All requests of the bounded workload are done.
Ende ==
    /\ \A r \in Anfragen : pc[r] \in Beendet \cup {"bereit"}
    /\ UNCHANGED vars

Eingang(r) ==
    \/ \E neu \in Eingabe : Registrieren(r, neu)
    \/ \E k \in Ids : FindKundeById(r, "rest", k) \/ FindKundeById(r, "jsf", k)
    \/ \E k \in Ids : DeleteKundeById(r, k)

Schritt(r) ==
    \/ \E neu \in Eingabe : UpdateRest(r, neu) \/ UpdateJsf(r, neu)
    \/ CreateKunde(r) \/ VerwerfeCreateKunde(r)
    \/ PruefeGeloescht(r) \/ PruefeEmail(r) \/ Merge(r)
    \/ CommitUpdate(r) \/ VerwerfeUpdate(r)
    \/ CommitDelete(r) \/ VerwerfeDelete(r)

Next ==
    \/ \E r \in Anfragen : Eingang(r) \/ Schritt(r) \/ Abbruch(r)
    \/ Ende

Spec == Init /\ [][Next]_vars

-----------------------------------------------------------------------------
(***************************************************************************)
(* Safety.                                                                 *)
(***************************************************************************)

KundeAusKopie ==
    \A k \in kunden \cap kunden' : zeile'[k].daten # zeile[k].daten =>
        \E r \in Anfragen : /\ pc'[r] # pc[r]
                            /\ tx[r].id = k
                            /\ tx[r].kopie.daten = zeile[k].daten

\* No lost update of a customer: whoever overwrites a row has seen exactly what
\* is overwritten, however long ago GET or the JSF page read it.
KundeNichtUeberschrieben == [][KundeAusKopie]_vars

\* The same for the Adresse, for changes that come in by the ways in A.
AdresseAusKopie(A) ==
    \A k \in adressen \cap adressen' : adresse'[k].ort # adresse[k].ort =>
        \E r \in Anfragen : /\ pc'[r] # pc[r]
                            /\ tx[r].id = k
                            /\ tx[r].art \in A => tx[r].adrKopie.ort = adresse[k].ort

\* The JSF pages do not overwrite an Adresse they have not shown: the extended
\* persistence context has kept its version.
JsfAdresseNichtUeberschrieben == [][AdresseAusKopie({"jsf"})]_vars

KundeGeloescht ==
    \A r \in Anfragen : tx[r].art = "loeschen" /\ pc[r] # "fertig" /\ pc'[r] = "fertig" =>
        /\ zeile[tx[r].id].daten = tx[r].kopie.daten
        /\ tx[r].id \in adressen => adresse[tx[r].id].ort = tx[r].adrKopie.ort

\* A deletion only takes away what it has looked at: a change that was
\* committed in between makes it fail.
NurGesehenesGeloescht == [][KundeGeloescht]_vars

\* @NotNull private Adresse adresse: every customer has an Adresse, also if a
\* deletion comes between the find and the merge of updateKunde.
JederKundeHatAdresse == kunden \subseteq adressen

-----------------------------------------------------------------------------
(***************************************************************************)
(* The inductive invariant.                                                *)
(***************************************************************************)

\* r still works with a copy.
MitKopie(r) == tx[r].art \in {"rest", "jsf", "loeschen"} /\ pc[r] \notin Beendet

\* Rows, and copies of rows, come from requests that are finished.
HerkunftInv ==
    /\ \A i \in kunden \cup adressen : i \in Anfragen => pc[i] = "fertig"
    /\ \A r \in Anfragen : MitKopie(r) /\ tx[r].id \in Anfragen => pc[tx[r].id] = "fertig"
    /\ \A r \in Anfragen : pc[r] = "bereit" => tx[r].art = "keine"

\* The same version means the same contents, for every copy still in use.
KopieInv ==
    \A r \in Anfragen : MitKopie(r) =>
        \A k \in {tx[r].id} :
            /\ tx[r].kopie.version <= zeile[k].version
            /\ tx[r].kopie.version = zeile[k].version => tx[r].kopie.daten = zeile[k].daten
            /\ tx[r].adrGelesen.version <= adresse[k].version
            /\ tx[r].adrGelesen.version = adresse[k].version =>
                  tx[r].adrGelesen.ort = adresse[k].ort

\* JSF and the deletion keep the Adresse they have seen.
AdrKopieInv ==
    \A r \in Anfragen : tx[r].art \in {"jsf", "loeschen"} => tx[r].adrKopie = tx[r].adrGelesen

IInv == TypeOK /\ HerkunftInv /\ KopieInv /\ AdrKopieInv /\ JederKundeHatAdresse

-----------------------------------------------------------------------------
(***************************************************************************)
(* What the code does not keep.                                            *)
(***************************************************************************)

\* "Ein Kunde mit der gleichen Email-Adresse existiert bereits": no two
\* customers with one mail box.
EmailEindeutig ==
    \A j, k \in kunden : Gross(zeile[j].daten.email) = Gross(zeile[k].daten.email) => j = k

\* Two concurrent updates through REST: the second one is a CONFLICT.
AdresseNichtUeberschrieben == [][AdresseAusKopie({"rest", "jsf"})]_vars
=============================================================================
