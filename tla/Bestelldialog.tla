---------------------------- MODULE Bestelldialog ---------------------------
(***************************************************************************)
(* Shopping in the JSF pages: one browser session with its login           *)
(* (AuthModel), and in it conversations, each with the offer it has loaded *)
(* (ArtikelModel), its cart (Warenkorb), and the request that turns the    *)
(* cart into an order (BestellungModel).  Meanwhile the articles change    *)
(* (Artikelverwaltung).                                                    *)
(*                                                                         *)
(* The container lets one request at a time into a conversation, and none  *)
(* into one that has ended.  What is in a cart are detached copies of      *)
(* articles, which stay as they were when they were read.                  *)
(***************************************************************************)
EXTENDS Artikelverwaltung, Integers, Sequences, SequencesExt

CONSTANTS
    Benutzer,       \* customers who log in in this browser
    Gast,           \* nobody is logged in
    Gespraeche,     \* conversations of the session
    MaxPositionen,  \* bound on the positions of a cart
    MaxAnzahl       \* bound on the number of pieces of an article

ASSUME DialogAnnahme ==
    /\ Gast \notin Benutzer
    /\ MaxPositionen \in Nat /\ MaxAnzahl \in Nat

VARIABLES
    \* the session
    principal,      \* the login the container knows
    user,           \* field user of AuthModel
    kundeLoggedIn,  \* the @SessionScoped object AuthModel.getUser has produced
    \* the conversations
    gespraech,      \* "neu", "offen" (long-running) or "beendet"
    geladen,        \* the conversations that have loaded the offer
    verfuegbareArtikel, \* the offer
    positionen,     \* Warenkorb.positionen
    lauf,           \* a request BestellungModel.bestellen
    \* committed rows
    bestellungen,   \* the orders each conversation has led to
    \* observation
    erwartet,       \* what the cart costs at the prices the customer has seen
    besitzer        \* the customers who were logged in when it was filled

sitzungVars == <<principal, user, kundeLoggedIn>>
gespraechVars == <<gespraech, geladen, verfuegbareArtikel, positionen,
                   erwartet, besitzer>>
dialogVars == <<sitzungVars, gespraechVars, lauf, bestellungen>>

-----------------------------------------------------------------------------
\* A detached article.
Kopie == [id : Artikel, bezeichnung : Bezeichnungen, preis : Preise]

Position == [artikel : Kopie, anzahl : Nat]

\* What an order costs and who gets it; its positions are the matter of
\* Bestellverwaltung.
Bestellung == [kunde : Benutzer, gesamtbetrag : Nat,
               erwartet : Int, besitzer : SUBSET Benutzer]

Lauf == [laeuft : BOOLEAN, kunde : Benutzer \cup {Gast},
         positionen : Seq(Position), erwartet : Int, besitzer : SUBSET Benutzer]

SitzungTypeOK ==
    /\ principal \in Benutzer \cup {Gast}
    /\ user \in Benutzer \cup {Gast}
    /\ kundeLoggedIn \in Benutzer \cup {Gast}

GespraechTypeOK ==
    /\ gespraech \in [Gespraeche -> {"neu", "offen", "beendet"}]
    /\ geladen \subseteq Gespraeche
    /\ verfuegbareArtikel \in [Gespraeche -> SUBSET Kopie]
    /\ positionen \in [Gespraeche -> Seq(Position)]
    /\ erwartet \in [Gespraeche -> Int]
    /\ besitzer \in [Gespraeche -> SUBSET Benutzer]

LaufTypeOK ==
    /\ lauf \in [Gespraeche -> Lauf]
    /\ bestellungen \in [Gespraeche -> Seq(Bestellung)]

DialogTypeOK == ArtikelTypeOK /\ SitzungTypeOK /\ GespraechTypeOK /\ LaufTypeOK

KeinLauf == [laeuft |-> FALSE, kunde |-> Gast, positionen |-> <<>>,
             erwartet |-> 0, besitzer |-> {}]

DialogInit ==
    /\ ArtikelInit
    /\ principal = Gast
    /\ user = Gast
    /\ kundeLoggedIn = Gast
    /\ gespraech = [g \in Gespraeche |-> "neu"]
    /\ geladen = {}
    /\ verfuegbareArtikel = [g \in Gespraeche |-> {}]
    /\ positionen = [g \in Gespraeche |-> <<>>]
    /\ lauf = [g \in Gespraeche |-> KeinLauf]
    /\ bestellungen = [g \in Gespraeche |-> <<>>]
    /\ erwartet = [g \in Gespraeche |-> 0]
    /\ besitzer = [g \in Gespraeche |-> {}]

-----------------------------------------------------------------------------
(***************************************************************************)
(* AuthModel: logging in and out.                                          *)
(***************************************************************************)

\* login with the right password
Login(k) ==
    /\ principal = Gast
    /\ principal' = k
    /\ user' = k
    /\ UNCHANGED <<artikelVars, kundeLoggedIn, gespraechVars, lauf, bestellungen>>

\* login, refused by request.login: the password is wrong, or somebody is
\* logged in already, and then stays so for the container
LoginFehler ==
    /\ user' = Gast
    /\ UNCHANGED <<artikelVars, principal, kundeLoggedIn, gespraechVars, lauf,
                   bestellungen>>

\* the conversations G and their beans are destroyed
Beende(G) ==
    /\ gespraech' = [g \in Gespraeche |-> IF g \in G THEN "beendet" ELSE gespraech[g]]
    /\ geladen' = geladen \ G
    /\ verfuegbareArtikel' =
           [g \in Gespraeche |-> IF g \in G THEN {} ELSE verfuegbareArtikel[g]]
    /\ positionen' = [g \in Gespraeche |-> IF g \in G THEN <<>> ELSE positionen[g]]
    /\ erwartet' = [g \in Gespraeche |-> IF g \in G THEN 0 ELSE erwartet[g]]
    /\ besitzer' = [g \in Gespraeche |-> IF g \in G THEN {} ELSE besitzer[g]]

Offene == {g \in Gespraeche : gespraech[g] = "offen"}

\* the session lives on
Logout_Fehler ==
    /\ principal' = Gast
    /\ user' = Gast
    /\ UNCHANGED <<artikelVars, kundeLoggedIn, gespraechVars, lauf, bestellungen>>

\* logout: session.invalidate takes the conversations with it.  A request in
\* another tab that is ordering goes on.
Logout ==
    /\ principal' = Gast
    /\ user' = Gast
    /\ kundeLoggedIn' = Gast
    /\ Beende(Offene)
    /\ UNCHANGED <<artikelVars, lauf, bestellungen>>

-----------------------------------------------------------------------------
(***************************************************************************)
(* ArtikelModel and Warenkorb.                                             *)
(***************************************************************************)

KopieVon(id) == [id |-> id, bezeichnung |-> zeile[id].bezeichnung,
                 preis |-> zeile[id].preis]

\* ArtikelService.findVerfuegbareArtikel
Angebot == {KopieVon(id) : id \in {a \in vorhanden : ~zeile[a].ausgesondert}}

\* The next request of conversation g.
Frei(g) == gespraech[g] = "offen" /\ ~lauf[g].laeuft

\* selectArtikel: the conversation begins, unless it has begun before; the
\* offer is loaded once.
SelectArtikel(g) ==
    /\ gespraech[g] = "neu" \/ Frei(g)
    /\ gespraech' = [gespraech EXCEPT ![g] = "offen"]
    /\ geladen' = geladen \cup {g}
    /\ verfuegbareArtikel' = IF g \in geladen THEN verfuegbareArtikel
                             ELSE [verfuegbareArtikel EXCEPT ![g] = Angebot]
    /\ UNCHANGED <<artikelVars, sitzungVars, positionen, erwartet, besitzer, lauf,
                   bestellungen>>

\* the price left out
Gleich_Fehler(a, b) == a.bezeichnung = b.bezeichnung

\* Artikel.equals
Gleich(a, b) == a.bezeichnung = b.bezeichnung /\ a.preis = b.preis

\* Warenkorb.add(Artikel): one more piece of an article that is equal to one
\* in the cart, or a new position at the end
Ergaenzt(ps, a) ==
    IF \E i \in DOMAIN ps : Gleich(ps[i].artikel, a)
    THEN [ps EXCEPT ![SelectInSeq(ps, LAMBDA p : Gleich(p.artikel, a))].anzahl = @ + 1]
    ELSE Append(ps, [artikel |-> a, anzahl |-> 1])

\* Add from the offer of the conversation, or, with the id only, as the
\* article is now.
Add(g, a) ==
    /\ Frei(g)
    /\ a \in verfuegbareArtikel[g] \/ a \in {KopieVon(id) : id \in vorhanden}
    /\ LET ps == Ergaenzt(positionen[g], a)
       IN  /\ Len(ps) <= MaxPositionen
           /\ \A i \in DOMAIN ps : ps[i].anzahl <= MaxAnzahl
           /\ positionen' = [positionen EXCEPT ![g] = ps]
    /\ erwartet' = [erwartet EXCEPT ![g] = @ + a.preis]
    /\ besitzer' = [besitzer EXCEPT ![g] = @ \cup ({principal} \ {Gast})]
    /\ UNCHANGED <<artikelVars, sitzungVars, gespraech, geladen, verfuegbareArtikel,
                   lauf, bestellungen>>

\* The number of pieces is an input field of the cart.
SetAnzahl(g, i, n) ==
    /\ Frei(g)
    /\ i \in DOMAIN positionen[g]
    /\ positionen' = [positionen EXCEPT ![g][i].anzahl = n]
    /\ LET p == positionen[g][i]
       IN  erwartet' = [erwartet EXCEPT ![g] =
                           @ + n * p.artikel.preis - p.anzahl * p.artikel.preis]
    /\ UNCHANGED <<artikelVars, sitzungVars, gespraech, geladen, verfuegbareArtikel,
                   besitzer, lauf, bestellungen>>

\* Bestellposition.equals
GleichePosition(p, q) == p.anzahl = q.anzahl /\ Gleich(p.artikel, q.artikel)

\* Warenkorb.remove takes the first position equal to the one selected; with
\* the last one the conversation ends.
RemovePosition(g, i) ==
    /\ Frei(g)
    /\ i \in DOMAIN positionen[g]
    /\ LET p == positionen[g][i]
           j == SelectInSeq(positionen[g], LAMBDA q : GleichePosition(q, p))
       IN  IF Len(positionen[g]) = 1
           THEN Beende({g})
           ELSE /\ positionen' = [positionen EXCEPT ![g] = RemoveAt(@, j)]
                /\ erwartet' = [erwartet EXCEPT ![g] = @ - p.anzahl * p.artikel.preis]
                /\ UNCHANGED <<gespraech, geladen, verfuegbareArtikel, besitzer>>
    /\ UNCHANGED <<artikelVars, sitzungVars, lauf, bestellungen>>

\* ArtikelModel.createArtikel, by an employee: it ends the conversation, and
\* whatever cart there is in it.
CreateArtikelImDialog(g, id, werte) ==
    /\ Frei(g)
    /\ CreateArtikel(id, werte)
    /\ Beende({g})
    /\ UNCHANGED <<sitzungVars, lauf, bestellungen>>

\* BESTELLVORGANG_TIMEOUT without a request
Zeitablauf(g) ==
    /\ Frei(g)
    /\ Beende({g})
    /\ UNCHANGED <<artikelVars, sitzungVars, lauf, bestellungen>>

-----------------------------------------------------------------------------
(***************************************************************************)
(* BestellungModel.bestellen.                                              *)
(***************************************************************************)

\* forgotten
PreserveLogin_Fehler == UNCHANGED user

\* AuthModel.preserveLogin
PreserveLogin == user' = IF user = Gast THEN principal ELSE user

\* The first use of the injected customer produces it for the session.
Kunde == IF kundeLoggedIn = Gast THEN user' ELSE kundeLoggedIn

\* What the filter takes over from the first positions of a cart.
Gefiltert(ps) ==
    LET neue[n \in 0..Len(ps)] ==
            IF n = 0 THEN <<>>
            ELSE IF ps[n].anzahl > 0 THEN Append(neue[n - 1], ps[n]) ELSE neue[n - 1]
    IN  neue

\* "nur Positionen mit Anzahl > 0"
NeuePositionen(ps) == Gefiltert(ps)[Len(ps)]

\* Up to the end of the conversation, which the code requests before it makes
\* the order: the customer is known, the positions are taken from the cart.
Bestellen(g) ==
    /\ Frei(g)
    /\ principal # Gast
    /\ positionen[g] # <<>>
    /\ PreserveLogin
    /\ kundeLoggedIn' = Kunde
    /\ lauf' = [lauf EXCEPT ![g] =
           [laeuft |-> TRUE, kunde |-> Kunde,
            positionen |-> NeuePositionen(positionen[g]),
            erwartet |-> erwartet[g], besitzer |-> besitzer[g]]]
    /\ UNCHANGED <<artikelVars, principal, gespraechVars, bestellungen>>

Wert(p) == p.artikel.preis * p.anzahl

\* gesamtbetrag in BestellungService.createBestellung, here position by position
\* (the parallel stream may group the positions, which is the same for a sum)
Teilbetrag(ps) ==
    LET betrag[n \in 0..Len(ps)] == IF n = 0 THEN 0 ELSE betrag[n - 1] + Wert(ps[n])
    IN  betrag

Gesamtbetrag(ps) == Teilbetrag(ps)[Len(ps)]

\* forgotten
EndConversation_Fehler(g) == UNCHANGED gespraechVars

\* warenkorb.endConversation: the cart is destroyed at the end of the request.
\* (A session that was invalidated meanwhile has taken it along.)
EndConversation(g) == Beende({g})

\* BestellungService.createBestellung and its commit
CreateBestellung(g) ==
    /\ lauf[g].laeuft
    /\ lauf[g].positionen # <<>>
    /\ bestellungen' = [bestellungen EXCEPT ![g] = Append(@,
           [kunde |-> lauf[g].kunde,
            gesamtbetrag |-> Gesamtbetrag(lauf[g].positionen),
            erwartet |-> lauf[g].erwartet, besitzer |-> lauf[g].besitzer])]
    /\ EndConversation(g)
    /\ lauf' = [lauf EXCEPT ![g] = KeinLauf]
    /\ UNCHANGED <<artikelVars, sitzungVars>>

\* No order comes about: no position has any pieces (@Size), the customer has
\* lost the role "kunde" or his row, or his version has changed (Bestellverwaltung).
\* The cart is gone all the same.
OhneBestellung(g) ==
    /\ lauf[g].laeuft
    /\ EndConversation(g)
    /\ lauf' = [lauf EXCEPT ![g] = KeinLauf]
    /\ UNCHANGED <<artikelVars, sitzungVars, bestellungen>>

\* The request fails before it has come so far: the database does not answer.
AbbruchBestellen(g) ==
    /\ lauf[g].laeuft
    /\ lauf' = [lauf EXCEPT ![g] = KeinLauf]
    /\ UNCHANGED <<artikelVars, sitzungVars, gespraechVars, bestellungen>>

-----------------------------------------------------------------------------
\* A PUT of some client.
PutVonAussen(p, id, werte) ==
    /\ id \in vorhanden
    /\ SendePut(p, id, werte, FALSE)
    /\ UNCHANGED <<vorhanden, zeile, dialogVars>>

DialogNext ==
    \/ ArtikelSchritt /\ UNCHANGED dialogVars
    \/ \E p \in Puts, id \in Artikel, w \in NeueZeilen : PutVonAussen(p, id, w)
    \/ \E k \in Benutzer : Login(k)
    \/ LoginFehler
    \/ Logout
    \/ \E g \in Gespraeche :
          \/ SelectArtikel(g)
          \/ \E id \in Artikel, b \in Bezeichnungen, c \in Preise :
                Add(g, [id |-> id, bezeichnung |-> b, preis |-> c])
          \/ \E i \in 1..MaxPositionen : RemovePosition(g, i)
          \/ \E i \in 1..MaxPositionen, n \in 0..MaxAnzahl : SetAnzahl(g, i, n)
          \/ \E id \in Artikel, w \in NeueZeilen : CreateArtikelImDialog(g, id, w)
          \/ Zeitablauf(g)
          \/ Bestellen(g) \/ CreateBestellung(g) \/ OhneBestellung(g)
          \/ AbbruchBestellen(g)

DialogSpec == DialogInit /\ [][DialogNext]_<<artikelVars, dialogVars>>

-----------------------------------------------------------------------------
(***************************************************************************)
(* Properties.                                                             *)
(***************************************************************************)

\* All orders, of any conversation.
Bestellt == UNION {{bestellungen[g][n] : n \in DOMAIN bestellungen[g]} : g \in Gespraeche}

\* An order costs what the cart has cost in the eyes of the customer: each
\* piece at the price it had when he put it in, whatever has become of the
\* article since, with every click and every change of a number counted.
\* (Therefore Artikel.equals must compare the price.)
GesamtbetragWieErwartet == \A b \in Bestellt : b.gesamtbetrag = b.erwartet

\* A cart is ordered once, however often and in however many tabs the customer
\* clicks (BestellungModel.bestellen ends the conversation).
WarenkorbNurEinmalBestellt == \A g \in Gespraeche : Len(bestellungen[g]) <= 1

\* Whoever has filled a cart while logged in gets the order, nobody else who
\* uses the browser after him (AuthModel.logout ends the session).
NurEigeneBestellung == \A b \in Bestellt : b.besitzer \subseteq {b.kunde}

-----------------------------------------------------------------------------
(* The parts of the inductive invariant. *)

\* What is known of the types without a look into the carts.
DialogFunktionen ==
    /\ gespraech \in [Gespraeche -> {"neu", "offen", "beendet"}]
    /\ besitzer \in [Gespraeche -> SUBSET Benutzer]
    /\ lauf = [g \in Gespraeche |-> lauf[g]]
    /\ bestellungen = [g \in Gespraeche |-> bestellungen[g]]

\* The application and the container agree about who is logged in, if the
\* application knows somebody.
SitzungStimmt ==
    /\ principal \in Benutzer \cup {Gast}
    /\ user \in {Gast, principal}
    /\ kundeLoggedIn \in {Gast, principal}

\* Only who is logged in now has filled the carts.
KorbStimmt ==
    \A g \in Gespraeche :
        /\ besitzer[g] \subseteq {principal} \ {Gast}
        /\ gespraech[g] # "offen" => besitzer[g] = {}

\* A request that orders does it for the owner of the cart, and is the first
\* one to do so.
LaufStimmt ==
    \A g \in Gespraeche : lauf[g].laeuft =>
        /\ lauf[g].kunde # Gast
        /\ lauf[g].besitzer \subseteq {lauf[g].kunde}
        /\ bestellungen[g] = <<>>
        /\ gespraech[g] # "neu"

\* An order ends the conversation for good.
BestellungStimmt ==
    \A g \in Gespraeche : bestellungen[g] # <<>> =>
        /\ gespraech[g] = "beendet"
        /\ ~lauf[g].laeuft
        /\ bestellungen[g] = <<bestellungen[g][1]>>
        /\ bestellungen[g][1].besitzer \subseteq {bestellungen[g][1].kunde}

\* Who shops, and what becomes of the carts.
AblaufIInv ==
    /\ DialogFunktionen
    /\ SitzungStimmt
    /\ KorbStimmt
    /\ LaufStimmt
    /\ BestellungStimmt

\* What the customer has seen is what the positions cost, in the cart and on
\* the way to the order.
KorbKostet == \A g \in Gespraeche : erwartet[g] = Gesamtbetrag(positionen[g])

LaufKostet ==
    \A g \in Gespraeche :
        lauf[g].laeuft => lauf[g].erwartet = Gesamtbetrag(lauf[g].positionen)

\* The rows the offer is read from are complete.
ArtikelStimmen == ArtikelTypeOK /\ NieUnvollstaendig /\ PutsStimmen

KostenIInv ==
    /\ DialogTypeOK
    /\ ArtikelStimmen
    /\ KorbKostet
    /\ LaufKostet
    /\ GesamtbetragWieErwartet

DialogIInv == AblaufIInv /\ KostenIInv

=============================================================================
