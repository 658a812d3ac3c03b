-------------------------- MODULE Bestellverwaltung --------------------------
(***************************************************************************)
(* Orders, persistent shopping carts and the deletion of customers, as     *)
(* concurrent database transactions.                                       *)
(*                                                                         *)
(* Every HTTP request (class BestellungResource, KundeResource) and every  *)
(* run of a nightly job (WarenkorbRemover, KundeRemover) is one container  *)
(* transaction r \in Anfragen at isolation level READ COMMITTED.  Each     *)
(* database access of the code is one step: a read sees the rows committed *)
(* so far, a bulk DELETE locks the rows it hits until the transaction      *)
(* ends, and what the EntityManager has collected is written at the        *)
(* commit, where the version of every changed Kunde is compared with the   *)
(* version that was read.                                                  *)
(*                                                                         *)
(* A request creates at most one row, so its name also serves as the id of *)
(* the Warenkorbposition or the Bestellung it creates.                     *)
(***************************************************************************)
EXTENDS Naturals

CONSTANTS
    Kunden,          \* ids of the customers
    Admins,          \* the customers that also have the role "admin"
    Niemand,         \* stands for "no customer", and for "no order"
    Anfragen,        \* the requests and job runs
    VergangeneTage,  \* a cart this many days old is abandoned (30 in the code)
    MaxTag           \* bound on the days that pass

ASSUME KonstantenAnnahme ==
    /\ Admins \subseteq Kunden
    /\ Niemand \notin Kunden \cup Anfragen
    /\ VergangeneTage \in Nat
    /\ MaxTag \in Nat

VARIABLES
    \* committed rows
    kunden,          \* the rows of table kunde
    version,         \* column version of a customer (@Version)
    warenkorb,       \* the rows of table Warenkorbposition
    aktualisiert,    \* column aktualisiert of a cart line, in days
    bestellungen,    \* the rows of table Bestellung
    \* transactions
    pc,              \* how far a request has come
    tx,              \* what a request has read and built
    gesperrt,        \* the cart lines a request has deleted but not committed
    \* surroundings
    heute,           \* the current day
    mailAuftraege,   \* orders whose asynchronous observer has not run yet
    gesendet         \* orders for which a confirmation mail was sent

dbVars == <<kunden, version, warenkorb, aktualisiert, bestellungen>>
txVars == <<pc, tx, gesperrt>>
mailVars == <<mailAuftraege, gesendet>>
vars == <<dbVars, txVars, mailVars, heute>>

-----------------------------------------------------------------------------
(***************************************************************************)
(* What a transaction knows.  ziel is the set of customers it is going to  *)
(* change or delete, gelesen the version each of them had when it was      *)
(* read; positionen are the cart lines it turns into an order; idx is the  *)
(* place of that order in the customer's list (@OrderColumn).              *)
(***************************************************************************)

Arten == {"keine", "position", "warenkorb", "direkt", "loeschen",
          "kundeRemover", "warenkorbRemover"}

Stufen == {"bereit", "gelesen", "befuellt", "erfasst", "geleert",
           "fertig", "abgelehnt"}

Beendet == {"fertig", "abgelehnt"}

Transaktion == [art : Arten,
                kunde : Kunden \cup {Niemand},
                ziel : SUBSET Kunden,
                gelesen : [Kunden -> Nat],
                positionen : SUBSET Anfragen,
                idx : Nat]

TypeOK ==
    /\ kunden \subseteq Kunden
    /\ version \in [Kunden -> Nat]
    /\ warenkorb \subseteq Anfragen
    /\ aktualisiert \in [Anfragen -> Nat]
    /\ bestellungen \subseteq Anfragen
    /\ pc \in [Anfragen -> Stufen]
    /\ tx \in [Anfragen -> Transaktion]
    /\ gesperrt \in [Anfragen -> SUBSET Anfragen]
    /\ heute \in Nat
    /\ mailAuftraege \subseteq Anfragen
    /\ gesendet \subseteq Anfragen

Leer == [art |-> "keine", kunde |-> Niemand, ziel |-> {},
         gelesen |-> [k \in Kunden |-> 0], positionen |-> {}, idx |-> 0]

Init ==
    /\ kunden = Kunden
    /\ version = [k \in Kunden |-> 0]
    /\ warenkorb = {}
    /\ aktualisiert = [r \in Anfragen |-> 0]
    /\ bestellungen = {}
    /\ pc = [r \in Anfragen |-> "bereit"]
    /\ tx = [r \in Anfragen |-> Leer]
    /\ gesperrt = [r \in Anfragen |-> {}]
    /\ heute = 0
    /\ mailAuftraege = {}
    /\ gesendet = {}

-----------------------------------------------------------------------------
(***************************************************************************)
(* Queries.                                                                *)
(***************************************************************************)

\* (Definitions named ..._Fehler are what a plausible bug would make of the
\* definition that follows; the mutation runs put them in its place.)

\* without its WHERE clause
PositionenVon_Fehler(k) == warenkorb

\* Warenkorbposition.FIND_POSITIONEN_BY_KUNDE
PositionenVon(k) == {p \in warenkorb : tx[p].kunde = k}

\* AbstractKunde.bestellungen
BestellungenVon(k) == {b \in bestellungen : tx[b].kunde = k}

Indizes(k) == {tx[b].idx : b \in BestellungenVon(k)}

\* The list with the indices I ends at n.
Endet(I, n) ==
    /\ \A i \in I : i < n
    /\ n = 0 \/ \E i \in I : n = i + 1

\* the highest index instead of the one after it
Listenlaenge_Fehler(I) ==
    CHOOSE n \in {0} \cup I : \A i \in I : i <= n

\* The size of the list that is loaded for @OrderColumn idx: one more than
\* the highest index, whatever lies below it.
Listenlaenge(I) == CHOOSE n \in {0} \cup {i + 1 : i \in I} : Endet(I, n)

\* AbstractKunde.FIND_KUNDEN_OHNE_BESTELLUNGEN
KundenOhneBestellungen ==
    {k \in kunden : BestellungenVon(k) = {} /\ PositionenVon(k) = {}}

\* off by one day
AlteWarenkoerbe_Fehler ==
    {p \in warenkorb : \A q \in PositionenVon(tx[p].kunde) :
                          aktualisiert[q] + VergangeneTage <= heute}

\* The carts WarenkorbRemover looks for: MAX(aktualisiert) lies more than
\* VergangeneTage days back.
AlteWarenkoerbe ==
    {p \in warenkorb : \A q \in PositionenVon(tx[p].kunde) :
                          aktualisiert[q] + VergangeneTage < heute}

-----------------------------------------------------------------------------
(***************************************************************************)
(* The database's part in a transaction.                                   *)
(***************************************************************************)

\* without @Version
VersionAktuell_Fehler(r) == tx[r].ziel \subseteq kunden

\* Optimistic locking: no customer in ziel was changed or deleted since it
\* was read.
VersionAktuell(r) ==
    \A k \in tx[r].ziel : k \in kunden /\ version[k] = tx[r].gelesen[k]

\* only the orders are looked at
OhneVerweise_Fehler(S) == \A k \in S : BestellungenVon(k) = {}

\* Foreign keys kunde_fk of Bestellung and Warenkorbposition: the rows of the
\* customers S may go.
OhneVerweise(S) ==
    \A k \in S : BestellungenVon(k) = {} /\ PositionenVon(k) = {}

\* A DELETE waits while another transaction holds one of its rows.
Frei(r, zeilen) == \A s \in Anfragen \ {r} : gesperrt[s] \cap zeilen = {}

\* locks that survive their transaction
Freigabe_Fehler(r) == gesperrt' = gesperrt

\* The end of a transaction releases its row locks.
Freigabe(r) == gesperrt' = [gesperrt EXCEPT ![r] = {}]

Weiter(r, stufe) == pc' = [pc EXCEPT ![r] = stufe]

\* the target is taken from the user, also for a job that has none
Beginn_Fehler(r, a, k, S) ==
    tx' = [tx EXCEPT ![r] =
             [art |-> a, kunde |-> k, ziel |-> {k},
              gelesen |-> version, positionen |-> {}, idx |-> 0]]

Beginn(r, a, k, S) ==
    tx' = [tx EXCEPT ![r] =
             [art |-> a, kunde |-> k, ziel |-> S,
              gelesen |-> [j \in Kunden |-> IF j \in S THEN version[j] ELSE 0],
              positionen |-> {},
              idx |-> IF k \in Kunden THEN Listenlaenge(Indizes(k)) ELSE 0]]

\* Rollback: nothing the transaction did to the database remains.
Rollback(r) ==
    /\ Weiter(r, "abgelehnt")
    /\ Freigabe(r)
    /\ UNCHANGED <<dbVars, tx>>

-----------------------------------------------------------------------------
(***************************************************************************)
(* POST /bestellungen/warenkorbposition: one more line in the persistent   *)
(* cart.                                                                   *)
(***************************************************************************)

\* All requests of a logged-in customer begin with findKundeByUserName or
\* findKundeById; without a row they fail (@NotNull).  The new cart line does
\* not change its Kunde, so no version is compared for it.
LiesKunde(r, a, k) ==
    /\ pc[r] = "bereit"
    /\ a \in {"position", "warenkorb", "direkt"}
    /\ Beginn(r, a, k, IF a = "position" THEN {} ELSE {k} \cap kunden)
    /\ Weiter(r, IF k \in kunden THEN "gelesen" ELSE "abgelehnt")
    /\ UNCHANGED <<dbVars, gesperrt, mailVars, heute>>

\* em.persist and commit; the INSERT fails if the customer is gone (kunde_fk).
CreateWarenkorbposition(r) ==
    /\ tx[r].art = "position"
    /\ pc[r] = "gelesen"
    /\ tx[r].kunde \in kunden
    /\ warenkorb' = warenkorb \cup {r}
    /\ aktualisiert' = [aktualisiert EXCEPT ![r] = heute]
    /\ Weiter(r, "fertig")
    /\ UNCHANGED <<kunden, version, bestellungen, tx, gesperrt, mailVars, heute>>

VerwerfeWarenkorbposition(r) ==
    /\ tx[r].art = "position"
    /\ pc[r] = "gelesen"
    /\ tx[r].kunde \notin kunden
    /\ Rollback(r)
    /\ UNCHANGED <<mailVars, heute>>

-----------------------------------------------------------------------------
(***************************************************************************)
(* POST /bestellungen: an order from the persistent cart ("warenkorb") or  *)
(* from positions that come with the request or from the JSF session       *)
(* ("direkt").                                                             *)
(***************************************************************************)

\* SELECT of the cart lines; an empty cart ends the request without an order.
LiesPositionen(r) ==
    /\ tx[r].art = "warenkorb"
    /\ pc[r] = "gelesen"
    /\ tx' = [tx EXCEPT ![r].positionen = PositionenVon(tx[r].kunde)]
    /\ Weiter(r, IF PositionenVon(tx[r].kunde) = {} THEN "abgelehnt" ELSE "befuellt")
    /\ UNCHANGED <<dbVars, gesperrt, mailVars, heute>>

\* em.persist(bestellung); event.fire(bestellung): the asynchronous observer
\* is started now, long before the commit.
CreateBestellung(r) ==
    /\ \/ tx[r].art = "warenkorb" /\ pc[r] = "befuellt"
       \/ tx[r].art = "direkt" /\ pc[r] = "gelesen"
    /\ mailAuftraege' = mailAuftraege \cup {r}
    /\ Weiter(r, "erfasst")
    /\ UNCHANGED <<dbVars, tx, gesperrt, gesendet, heute>>

\* the DELETE forgotten
ZuLeeren_Fehler(r) == {}

\* DELETE FROM Warenkorbposition wp WHERE wp.kunde = ?
ZuLeeren(r) == PositionenVon(tx[r].kunde)

LeereWarenkorb(r) ==
    /\ tx[r].art = "warenkorb"
    /\ pc[r] = "erfasst"
    /\ Frei(r, ZuLeeren(r))
    /\ gesperrt' = [gesperrt EXCEPT ![r] = ZuLeeren(r)]
    /\ Weiter(r, "geleert")
    /\ UNCHANGED <<dbVars, tx, mailVars, heute>>

BereitZumBestellen(r) ==
    \/ tx[r].art = "warenkorb" /\ pc[r] = "geleert"
    \/ tx[r].art = "direkt" /\ pc[r] = "erfasst"

\* Commit: the new order changes the collection Kunde.bestellungen, so the
\* customer's version is compared and incremented.
CommitBestellung(r) ==
    /\ BereitZumBestellen(r)
    /\ VersionAktuell(r)
    /\ bestellungen' = bestellungen \cup {r}
    /\ version' = [version EXCEPT ![tx[r].kunde] = @ + 1]
    /\ warenkorb' = warenkorb \ gesperrt[r]
    /\ Weiter(r, "fertig")
    /\ Freigabe(r)
    /\ UNCHANGED <<kunden, aktualisiert, tx, mailVars, heute>>

\* OptimisticLockException: 409 CONFLICT.
VerwerfeBestellung(r) ==
    /\ BereitZumBestellen(r)
    /\ ~ VersionAktuell(r)
    /\ Rollback(r)
    /\ UNCHANGED <<mailVars, heute>>

-----------------------------------------------------------------------------
(***************************************************************************)
(* DELETE /kunden/{id} by an administrator.                                *)
(***************************************************************************)

\* A customer that does not exist is deleted already, one with orders is
\* refused (KundeDeleteBestellungException).
LiesZuLoeschenden(r, k) ==
    /\ pc[r] = "bereit"
    /\ Beginn(r, "loeschen", k, {k} \cap kunden)
    /\ Weiter(r, IF k \notin kunden THEN "fertig"
                 ELSE IF BestellungenVon(k) # {} THEN "abgelehnt"
                 ELSE "gelesen")
    /\ UNCHANGED <<dbVars, gesperrt, mailVars, heute>>

(***************************************************************************)
(* KundeRemover, every night at 2: one transaction for all customers that  *)
(* have neither orders nor a cart.                                         *)
(***************************************************************************)

SucheKunden(r) ==
    /\ pc[r] = "bereit"
    /\ Beginn(r, "kundeRemover", Niemand, KundenOhneBestellungen \ Admins)
    /\ Weiter(r, "befuellt")
    /\ UNCHANGED <<dbVars, gesperrt, mailVars, heute>>

\* deleteKunde for each of them loads the orders anew; a single customer that
\* has ordered meanwhile makes the whole run roll back.  The loop is one step:
\* an order that is committed while it runs is found by it or at the commit.
PruefeKunden(r) ==
    /\ tx[r].art = "kundeRemover"
    /\ pc[r] = "befuellt"
    /\ Weiter(r, IF \E k \in tx[r].ziel : BestellungenVon(k) # {}
                 THEN "abgelehnt" ELSE "gelesen")
    /\ UNCHANGED <<dbVars, tx, gesperrt, mailVars, heute>>

BereitZumLoeschen(r) ==
    tx[r].art \in {"loeschen", "kundeRemover"} /\ pc[r] = "gelesen"

\* Commit of em.remove(kunde), for one customer or for the whole batch.
CommitLoeschen(r) ==
    /\ BereitZumLoeschen(r)
    /\ VersionAktuell(r)
    /\ OhneVerweise(tx[r].ziel)
    /\ kunden' = kunden \ tx[r].ziel
    /\ Weiter(r, "fertig")
    /\ UNCHANGED <<version, warenkorb, aktualisiert, bestellungen, tx, gesperrt,
                   mailVars, heute>>

VerwerfeLoeschen(r) ==
    /\ BereitZumLoeschen(r)
    /\ ~ (VersionAktuell(r) /\ OhneVerweise(tx[r].ziel))
    /\ Rollback(r)
    /\ UNCHANGED <<mailVars, heute>>

-----------------------------------------------------------------------------
(***************************************************************************)
(* WarenkorbRemover, every night at 3: one bulk DELETE of the old carts.   *)
(***************************************************************************)

DeleteAlteWarenkoerbe(r) ==
    /\ pc[r] = "bereit"
    /\ Frei(r, AlteWarenkoerbe)
    /\ Beginn(r, "warenkorbRemover", Niemand, {})
    /\ gesperrt' = [gesperrt EXCEPT ![r] = AlteWarenkoerbe]
    /\ Weiter(r, "geleert")
    /\ UNCHANGED <<dbVars, mailVars, heute>>

CommitAlteWarenkoerbe(r) ==
    /\ tx[r].art = "warenkorbRemover"
    /\ pc[r] = "geleert"
    /\ warenkorb' = warenkorb \ gesperrt[r]
    /\ Weiter(r, "fertig")
    /\ Freigabe(r)
    /\ UNCHANGED <<kunden, version, aktualisiert, bestellungen, tx, mailVars, heute>>

-----------------------------------------------------------------------------
(***************************************************************************)
(* Everything a transaction can meet at any point: a lock timeout, a lost  *)
(* connection, a crash of the server, an exception on the way.             *)
(***************************************************************************)
Abbruch(r) ==
    /\ pc[r] \notin Beendet \cup {"bereit"}
    /\ Rollback(r)
    /\ UNCHANGED <<mailVars, heute>>

\* BestellungObserver.onCreateBestellung, in its own thread.
OnCreateBestellung(r) ==
    /\ r \in mailAuftraege
    /\ mailAuftraege' = mailAuftraege \ {r}
    /\ \/ gesendet' = gesendet \cup {r}
       \/ UNCHANGED gesendet            \* no sender, or a MessagingException
    /\ UNCHANGED <<dbVars, txVars, heute>>

NaechsterTag ==
    /\ heute < MaxTag
    /\ heute' = heute + 1
    /\ UNCHANGED <<dbVars, txVars, mailVars>>

\* All requests of the bounded workload are done.
Ende ==
    /\ \A r \in Anfragen : pc[r] \in Beendet
    /\ mailAuftraege = {}
    /\ UNCHANGED vars

-----------------------------------------------------------------------------
\* A request comes in, or a timer fires.
Eingang(r) ==
    \/ \E k \in Kunden :
          \/ \E a \in Arten : LiesKunde(r, a, k)
          \/ LiesZuLoeschenden(r, k)
    \/ SucheKunden(r)
    \/ DeleteAlteWarenkoerbe(r)

\* The thread of a request goes on.
Schritt(r) ==
    \/ CreateWarenkorbposition(r) \/ VerwerfeWarenkorbposition(r)
    \/ LiesPositionen(r) \/ CreateBestellung(r) \/ LeereWarenkorb(r)
    \/ CommitBestellung(r) \/ VerwerfeBestellung(r)
    \/ PruefeKunden(r) \/ CommitLoeschen(r) \/ VerwerfeLoeschen(r)
    \/ CommitAlteWarenkoerbe(r)

Next ==
    \/ \E r \in Anfragen :
          Eingang(r) \/ Schritt(r) \/ Abbruch(r) \/ OnCreateBestellung(r)
    \/ NaechsterTag
    \/ Ende

\* A request that has begun is not left alone by its container thread, and
\* the pool of the asynchronous observers works.  Nobody has to send a
\* request, and no transaction has to fail.
Fairness ==
    \A r \in Anfragen : WF_vars(Schritt(r)) /\ WF_vars(OnCreateBestellung(r))

Spec == Init /\ [][Next]_vars

FairSpec == Spec /\ Fairness

-----------------------------------------------------------------------------
(***************************************************************************)
(* Safety.                                                                 *)
(***************************************************************************)

\* However many orders are placed from one cart at the same time (a double
\* click, two browser tabs), a cart line is sold at most once: only the
\* version of the Kunde stands against it (BestellungService.createBestellung).
NurEinmalBestellt ==
    \A a, b \in bestellungen :
        a # b => tx[a].positionen \cap tx[b].positionen = {}

\* What has been ordered has left the cart, in the same moment, so that it
\* cannot be ordered once more (the DELETE at the end of createBestellung).
BestellteSindGeleert ==
    \A b \in bestellungen : tx[b].positionen \cap warenkorb = {}

\* The list AbstractKunde.bestellungen has neither gaps nor two orders at one
\* index: a gap would be a null in the list of every later reader.
LueckenloseListe ==
    \A k \in Kunden :
        /\ \A a, b \in BestellungenVon(k) : tx[a].idx = tx[b].idx => a = b
        /\ \A b \in BestellungenVon(k) : \A i \in 0 .. tx[b].idx :
              \E a \in BestellungenVon(k) : tx[a].idx = i

\* Neither an administrator nor KundeRemover takes away a customer under the
\* orders or the cart of a request that runs at the same time.
KeineWaisen ==
    /\ \A b \in bestellungen : tx[b].kunde \in kunden
    /\ \A p \in warenkorb : tx[p].kunde \in kunden

BerechtigtGeleert ==
    \A p \in warenkorb \ warenkorb' : \E r \in Anfragen :
        /\ p \in gesperrt[r]
        /\ pc'[r] = "fertig"
        /\ \/ r \in bestellungen' /\ tx[r].kunde = tx[p].kunde
           \/ aktualisiert[p] + VergangeneTage < heute

\* A cart line disappears only by an order of its own customer or because it
\* has become old: nobody empties someone else's cart, and the age that was
\* looked at by the DELETE still holds at the commit.
NurBerechtigtGeleert == [][BerechtigtGeleert]_vars

(***************************************************************************)
(* What a request can do without waiting for another one: the guards of    *)
(* the actions in Schritt.  A request waits only before the DELETE of the  *)
(* cart it has ordered.                                                    *)
(***************************************************************************)
Laeuft(r) == pc[r] \notin Beendet \cup {"bereit"}

KannWeiter(r) ==
    \/ tx[r].art = "position" /\ pc[r] = "gelesen"
    \/ tx[r].art = "warenkorb" /\ pc[r] \in {"gelesen", "befuellt"}
    \/ tx[r].art = "warenkorb" /\ pc[r] = "erfasst" /\ Frei(r, ZuLeeren(r))
    \/ tx[r].art = "direkt" /\ pc[r] = "gelesen"
    \/ BereitZumBestellen(r)
    \/ tx[r].art = "kundeRemover" /\ pc[r] = "befuellt"
    \/ BereitZumLoeschen(r)
    \/ tx[r].art = "warenkorbRemover" /\ pc[r] = "geleert"

\* There is no deadlock and no chain of waiting requests: whoever holds row
\* locks waits for nobody, because the DELETE is the last access before the
\* commit; and whoever cannot go on waits for one that holds a lock on his rows
\* (BestellungService.createBestellung, WarenkorbRemover).
KeinStillstand ==
    \A r \in Anfragen :
        /\ gesperrt[r] # {} => KannWeiter(r)
        /\ Laeuft(r) /\ ~ KannWeiter(r) =>
              \E s \in Anfragen \ {r} : gesperrt[s] \cap ZuLeeren(r) # {}

(***************************************************************************)
(* Refinement: what this module does to the cart lines is what             *)
(* Warenkorbzusage allows.  A line is "bestellt" as soon as a committed    *)
(* order holds it.                                                         *)
(***************************************************************************)
Bestellt(p) == \E b \in bestellungen : p \in tx[b].positionen

Abgelegt(p) == tx[p].art = "position" /\ pc[p] = "fertig"

Status(p) ==
    IF Bestellt(p) THEN "bestellt"
    ELSE IF p \in warenkorb THEN "offen"
    ELSE IF Abgelegt(p) THEN "entfernt" ELSE "neu"

Eigner(p) == IF Abgelegt(p) THEN tx[p].kunde ELSE Niemand

BestellungVon(p) ==
    IF Bestellt(p) THEN CHOOSE b \in bestellungen : p \in tx[b].positionen ELSE Niemand

Zusage == INSTANCE Warenkorbzusage WITH
    Positionen <- Anfragen,
    Bestellungen <- Anfragen,
    Keine <- Niemand,
    status <- [p \in Anfragen |-> Status(p)],
    eigner <- [p \in Anfragen |-> Eigner(p)],
    bestellung <- [p \in Anfragen |-> BestellungVon(p)]

\* Every line goes from the cart into at most one order of its own customer, or
\* is removed, and never comes back: the protocol with its reads, locks and
\* versions implements the simple life cycle of a cart line.
ErfuelltZusage == Zusage!Spec
-----------------------------------------------------------------------------
(***************************************************************************)
(* The inductive invariant behind the safety properties.                   *)
(***************************************************************************)

\* Who wrote the committed rows; their content does not change any more.
ZeilenInv ==
    /\ \A b \in bestellungen :
          pc[b] = "fertig" /\ tx[b].kunde \in Kunden /\ tx[b].art \in {"warenkorb", "direkt"}
    /\ \A p \in warenkorb : Abgelegt(p) /\ tx[p].kunde \in Kunden

\* Ordered lines are finished cart lines of the same customer.
PositionenInv ==
    \A r \in Anfragen :
        /\ \A p \in tx[r].positionen : Abgelegt(p) /\ tx[p].kunde = tx[r].kunde
        /\ tx[r].positionen # {} => tx[r].art = "warenkorb"

\* A lock is held only between the DELETE and the end of the transaction, on
\* lines this transaction may delete.
SperrenInv ==
    \A r \in Anfragen : \A p \in gesperrt[r] :
        /\ pc[r] = "geleert"
        /\ Abgelegt(p)
        /\ \/ tx[r].art = "warenkorb" /\ tx[p].kunde = tx[r].kunde
           \/ tx[r].art = "warenkorbRemover" /\ aktualisiert[p] + VergangeneTage < heute

\* An order on its way to the commit.
AmBestellen(r) ==
    /\ tx[r].art \in {"warenkorb", "direkt"}
    /\ pc[r] \in {"gelesen", "befuellt", "erfasst", "geleert"}

\* As long as the version an order has read is the current one, none of its
\* lines has been ordered by someone else and its place in the list is free.
VersionInv ==
    \A r \in Anfragen : AmBestellen(r) =>
        /\ tx[r].kunde \in Kunden
        /\ tx[r].ziel = {tx[r].kunde}
        /\ \A k \in tx[r].ziel :
              /\ tx[r].gelesen[k] <= version[k]
              /\ tx[r].gelesen[k] = version[k] =>
                    /\ \A b \in bestellungen : tx[b].positionen \cap tx[r].positionen = {}
                    /\ Endet(Indizes(k), tx[r].idx)

\* After the DELETE the lines of the order are locked, or gone already.
GeleertInv ==
    \A r \in Anfragen : tx[r].art = "warenkorb" /\ pc[r] = "geleert" =>
        tx[r].positionen \cap warenkorb \subseteq gesperrt[r]

ListenInv == \A k \in Kunden : Endet(Indizes(k), Listenlaenge(Indizes(k)))

\* The stages of each kind of request; needed for KeinStillstand only.
StufenInv ==
    \A r \in Anfragen : Laeuft(r) =>
        \/ tx[r].art \in {"position", "loeschen"} /\ pc[r] = "gelesen"
        \/ tx[r].art = "warenkorb"
        \/ tx[r].art = "direkt" /\ pc[r] \in {"gelesen", "erfasst"}
        \/ tx[r].art = "kundeRemover" /\ pc[r] \in {"befuellt", "gelesen"}
        \/ tx[r].art = "warenkorbRemover" /\ pc[r] = "geleert"

IInv ==
    /\ TypeOK
    /\ ZeilenInv
    /\ PositionenInv
    /\ SperrenInv
    /\ VersionInv
    /\ GeleertInv
    /\ ListenInv
    /\ NurEinmalBestellt
    /\ BestellteSindGeleert
    /\ LueckenloseListe
    /\ KeineWaisen

(***************************************************************************)
(* Liveness.                                                               *)
(***************************************************************************)

\* No request waits for a row lock for ever: each one that has begun is
\* answered.
JedeAnfrageEndet ==
    \A r \in Anfragen : pc[r] # "bereit" ~> pc[r] \in Beendet

(***************************************************************************)
(* What the code does not keep.                                            *)
(***************************************************************************)

\* "Neue Bestellung aus dem persistenten Warenkorb": what createBestellung
\* removes from the cart is what it has ordered.
GeleerteSindBestellt ==
    \A r \in Anfragen : pc[r] = "geleert" /\ tx[r].art = "warenkorb" =>
        gesperrt[r] \subseteq tx[r].positionen

\* The mail "Neue Bestellung Nr. ..." speaks of an order that exists or is
\* about to.
MailNurFuerBestellung ==
    \A r \in gesendet : r \in bestellungen \/ pc[r] \notin Beendet
=============================================================================
