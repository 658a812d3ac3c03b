------------------------- MODULE BestelldialogProofs -------------------------
(***************************************************************************)
(* Proofs about Bestelldialog for any number of customers, articles and    *)
(* conversations, and carts of any size: first who shops and what becomes  *)
(* of the carts (AblaufIInv), then what everything costs (KostenIInv).     *)
(*                                                                         *)
(* Gesamtbetrag and NeuePositionen are recursive functions.  That there    *)
(* are such functions, and what they do to every cart, is proved by        *)
(* induction, with sets in the place of predicates: a nonempty set of      *)
(* natural numbers has a smallest element.                                 *)
(***************************************************************************)
EXTENDS Bestelldialog, SequenceTheorems, WellFoundedInduction, TLAPS

\* Nothing runs, and nothing is ordered, at the beginning.
LEMMA InitAblauf == DialogInit => AblaufIInv
<1> SUFFICES ASSUME DialogInit PROVE AblaufIInv
    OBVIOUS
<1>1. ~KeinLauf.laeuft
    BY DEF KeinLauf
<1>2. DialogFunktionen
    BY DEF DialogInit, DialogFunktionen
<1>3. SitzungStimmt /\ KorbStimmt
    BY DEF DialogInit, SitzungStimmt, KorbStimmt
<1>4. LaufStimmt /\ BestellungStimmt
    BY <1>1 DEF DialogInit, LaufStimmt, BestellungStimmt
<1> QED
    BY <1>2, <1>3, <1>4 DEF AblaufIInv

\* The invariant does not look into the carts, nor at the articles.
LEMMA OhneWirkung ==
    ASSUME AblaufIInv,
           UNCHANGED <<principal, user, kundeLoggedIn, gespraech, besitzer, lauf,
                       bestellungen>>
    PROVE  AblaufIInv'
BY DEF AblaufIInv, DialogFunktionen, SitzungStimmt, KorbStimmt, LaufStimmt,
       BestellungStimmt

\* Conversations that end take their carts with them.
LEMMA BeendeWirkung ==
    ASSUME AblaufIInv, NEW G \in SUBSET Gespraeche, Beende(G),
           UNCHANGED <<principal, user, kundeLoggedIn, lauf, bestellungen>>
    PROVE  AblaufIInv'
<1>1. /\ gespraech' \in [Gespraeche -> {"neu", "offen", "beendet"}]
      /\ besitzer' \in [Gespraeche -> SUBSET Benutzer]
      /\ \A g \in Gespraeche :
            IF g \in G THEN gespraech'[g] = "beendet" /\ besitzer'[g] = {}
                       ELSE gespraech'[g] = gespraech[g] /\ besitzer'[g] = besitzer[g]
    BY DEF Beende, AblaufIInv, DialogFunktionen
<1>2. DialogFunktionen' /\ SitzungStimmt' /\ KorbStimmt'
    BY <1>1 DEF AblaufIInv, DialogFunktionen, SitzungStimmt, KorbStimmt
<1>3. LaufStimmt' /\ BestellungStimmt'
    BY <1>1 DEF AblaufIInv, LaufStimmt, BestellungStimmt
<1> QED
    BY <1>2, <1>3 DEF AblaufIInv

-----------------------------------------------------------------------------
(* The session.                                                            *)

\* Nobody is logged in before a login, so no cart belongs to anybody.
LEMMA LoginSchritt ==
    ASSUME AblaufIInv, (\E k \in Benutzer : Login(k)) \/ LoginFehler
    PROVE  AblaufIInv'
<1>1. UNCHANGED <<gespraech, besitzer, lauf, bestellungen, kundeLoggedIn>>
    BY DEF Login, LoginFehler, gespraechVars
<1>2. SitzungStimmt' /\ KorbStimmt'
    <2>1. CASE LoginFehler
        BY <1>1, <2>1 DEF LoginFehler, AblaufIInv, SitzungStimmt, KorbStimmt
    <2>2. ASSUME NEW k \in Benutzer, Login(k)
          PROVE  SitzungStimmt' /\ KorbStimmt'
        BY <1>1, <2>2 DEF Login, AblaufIInv, SitzungStimmt, KorbStimmt
    <2> QED
        BY <2>1, <2>2
<1>3. DialogFunktionen' /\ LaufStimmt' /\ BestellungStimmt'
    BY <1>1 DEF AblaufIInv, DialogFunktionen, LaufStimmt, BestellungStimmt
<1> QED
    BY <1>2, <1>3 DEF AblaufIInv

\* A logout ends every conversation there is, and so empties every cart.
LEMMA LogoutSchritt ==
    ASSUME AblaufIInv, Logout
    PROVE  AblaufIInv'
<1>1. /\ gespraech' \in [Gespraeche -> {"neu", "offen", "beendet"}]
      /\ besitzer' \in [Gespraeche -> SUBSET Benutzer]
      /\ \A g \in Gespraeche :
            /\ gespraech'[g] = IF gespraech[g] = "offen" THEN "beendet" ELSE gespraech[g]
            /\ besitzer'[g] = {}
    BY DEF Logout, Beende, Offene, AblaufIInv, DialogFunktionen, KorbStimmt
<1>2. /\ principal' = Gast /\ user' = Gast /\ kundeLoggedIn' = Gast
      /\ UNCHANGED <<lauf, bestellungen>>
    BY DEF Logout
<1>3. SitzungStimmt' /\ KorbStimmt' /\ DialogFunktionen'
    BY <1>1, <1>2 DEF AblaufIInv, DialogFunktionen, SitzungStimmt, KorbStimmt
<1>4. LaufStimmt' /\ BestellungStimmt'
    BY <1>1, <1>2 DEF AblaufIInv, LaufStimmt, BestellungStimmt
<1> QED
    BY <1>3, <1>4 DEF AblaufIInv

-----------------------------------------------------------------------------
(* The conversations.                                                      *)

\* An order has ended its conversation, so it is not the one that begins.
LEMMA SelectArtikelSchritt ==
    ASSUME AblaufIInv, NEW g \in Gespraeche, SelectArtikel(g)
    PROVE  AblaufIInv'
<1>1. /\ gespraech[g] \in {"neu", "offen"}
      /\ gespraech' = [gespraech EXCEPT ![g] = "offen"]
      /\ UNCHANGED <<principal, user, kundeLoggedIn, besitzer, lauf, bestellungen>>
    BY DEF SelectArtikel, Frei, sitzungVars
<1>2. DialogFunktionen' /\ SitzungStimmt' /\ KorbStimmt'
    BY <1>1 DEF AblaufIInv, DialogFunktionen, SitzungStimmt, KorbStimmt
<1>3. LaufStimmt' /\ BestellungStimmt'
    BY <1>1 DEF AblaufIInv, DialogFunktionen, LaufStimmt, BestellungStimmt
<1> QED
    BY <1>2, <1>3 DEF AblaufIInv

\* Whoever is logged in becomes an owner of the cart.
LEMMA AddSchritt ==
    ASSUME AblaufIInv, NEW g \in Gespraeche, NEW a, Add(g, a)
    PROVE  AblaufIInv'
<1>1. /\ gespraech[g] = "offen"
      /\ besitzer' = [besitzer EXCEPT ![g] = besitzer[g] \cup ({principal} \ {Gast})]
      /\ UNCHANGED <<principal, user, kundeLoggedIn, gespraech, lauf, bestellungen>>
    BY DEF Add, Frei, sitzungVars
<1>2. besitzer \in [Gespraeche -> SUBSET Benutzer] /\ principal \in Benutzer \cup {Gast}
    BY DEF AblaufIInv, DialogFunktionen, SitzungStimmt
<1>3. DialogFunktionen' /\ SitzungStimmt'
    BY <1>1, <1>2 DEF AblaufIInv, DialogFunktionen, SitzungStimmt
<1>4. KorbStimmt'
    BY <1>1, <1>2 DEF AblaufIInv, KorbStimmt
<1>5. LaufStimmt' /\ BestellungStimmt'
    BY <1>1 DEF AblaufIInv, LaufStimmt, BestellungStimmt
<1> QED
    BY <1>3, <1>4, <1>5 DEF AblaufIInv

\* A position is changed or taken out, an employee makes an article, or the
\* conversation times out.
LEMMA GespraechSchritt ==
    ASSUME AblaufIInv, NEW g \in Gespraeche,
           \/ \E i \in 1..MaxPositionen : RemovePosition(g, i)
           \/ \E i \in 1..MaxPositionen, n \in 0..MaxAnzahl : SetAnzahl(g, i, n)
           \/ \E id \in Artikel, w \in NeueZeilen : CreateArtikelImDialog(g, id, w)
           \/ Zeitablauf(g)
    PROVE  AblaufIInv'
<1>1. \/ Beende({g})
      \/ UNCHANGED <<gespraech, besitzer>>
    BY DEF RemovePosition, SetAnzahl, CreateArtikelImDialog, Zeitablauf
<1>2. UNCHANGED <<principal, user, kundeLoggedIn, lauf, bestellungen>>
    BY DEF RemovePosition, SetAnzahl, CreateArtikelImDialog, Zeitablauf, sitzungVars
<1> QED
    BY <1>1, <1>2, BeendeWirkung, OhneWirkung

-----------------------------------------------------------------------------
(* Ordering.                                                               *)

\* The customer of the order is the one who is logged in.
LEMMA BestellenSchritt ==
    ASSUME AblaufIInv, NEW g \in Gespraeche, Bestellen(g)
    PROVE  AblaufIInv'
<1>1. /\ gespraech[g] = "offen" /\ principal # Gast
      /\ user' \in {Gast, principal}
      /\ kundeLoggedIn' = principal
      /\ UNCHANGED <<principal, gespraech, besitzer, bestellungen>>
    BY DEF Bestellen, Frei, PreserveLogin, Kunde, AblaufIInv, SitzungStimmt, gespraechVars
<1>2. PICK ps, e :
          lauf' = [lauf EXCEPT ![g] =
                      [laeuft |-> TRUE, kunde |-> principal, positionen |-> ps,
                       erwartet |-> e, besitzer |-> besitzer[g]]]
    BY <1>1 DEF Bestellen
<1>3. /\ lauf'[g].besitzer = besitzer[g] /\ lauf'[g].kunde = principal
      /\ \A h \in Gespraeche : h # g => lauf'[h] = lauf[h]
      /\ lauf' = [h \in Gespraeche |-> lauf'[h]]
    BY <1>2 DEF AblaufIInv, DialogFunktionen
<1>4. DialogFunktionen' /\ SitzungStimmt' /\ KorbStimmt'
    BY <1>1, <1>3 DEF AblaufIInv, DialogFunktionen, SitzungStimmt, KorbStimmt
<1>5. bestellungen[g] = <<>>
    BY <1>1 DEF AblaufIInv, BestellungStimmt
<1>6. LaufStimmt' /\ BestellungStimmt'
    BY <1>1, <1>3, <1>5 DEF AblaufIInv, KorbStimmt, LaufStimmt, BestellungStimmt
<1> QED
    BY <1>4, <1>6 DEF AblaufIInv

\* The order is made, and the conversation is over.
LEMMA CreateBestellungSchritt ==
    ASSUME AblaufIInv, NEW g \in Gespraeche, CreateBestellung(g)
    PROVE  AblaufIInv'
<1>1. /\ lauf[g].laeuft /\ bestellungen[g] = <<>>
      /\ lauf[g].besitzer \subseteq {lauf[g].kunde}
    BY DEF CreateBestellung, AblaufIInv, LaufStimmt
<1>2. /\ Beende({g})
      /\ lauf' = [lauf EXCEPT ![g] = KeinLauf]
      /\ UNCHANGED <<principal, user, kundeLoggedIn>>
    BY DEF CreateBestellung, EndConversation, sitzungVars
<1>3. PICK b : /\ bestellungen' = [bestellungen EXCEPT ![g] = <<b>>]
               /\ b.besitzer \subseteq {b.kunde}
    <2> DEFINE b == [kunde |-> lauf[g].kunde,
                     gesamtbetrag |-> Gesamtbetrag(lauf[g].positionen),
                     erwartet |-> lauf[g].erwartet, besitzer |-> lauf[g].besitzer]
    <2>1. bestellungen' = [bestellungen EXCEPT ![g] = Append(bestellungen[g], b)]
        BY DEF CreateBestellung
    <2>2. Append(bestellungen[g], b) = <<b>>
        <3> HIDE DEF b
        <3> QED
            BY <1>1
    <2>3. b.besitzer = lauf[g].besitzer /\ b.kunde = lauf[g].kunde
        OBVIOUS
    <2> HIDE DEF b
    <2> QED
        BY <1>1, <2>1, <2>2, <2>3
<1>4. /\ gespraech' \in [Gespraeche -> {"neu", "offen", "beendet"}]
      /\ besitzer' \in [Gespraeche -> SUBSET Benutzer]
      /\ gespraech'[g] = "beendet" /\ besitzer'[g] = {}
      /\ \A h \in Gespraeche : h # g =>
            gespraech'[h] = gespraech[h] /\ besitzer'[h] = besitzer[h]
    BY <1>2 DEF Beende, AblaufIInv, DialogFunktionen
<1>5. /\ ~lauf'[g].laeuft /\ lauf' = [h \in Gespraeche |-> lauf'[h]]
      /\ \A h \in Gespraeche : h # g => lauf'[h] = lauf[h]
    BY <1>2 DEF AblaufIInv, DialogFunktionen, KeinLauf
<1>6. /\ bestellungen'[g] = <<b>>
      /\ bestellungen' = [h \in Gespraeche |-> bestellungen'[h]]
      /\ \A h \in Gespraeche : h # g => bestellungen'[h] = bestellungen[h]
    BY <1>3 DEF AblaufIInv, DialogFunktionen
<1>7. DialogFunktionen' /\ SitzungStimmt' /\ KorbStimmt'
    BY <1>2, <1>4, <1>5, <1>6 DEF AblaufIInv, DialogFunktionen, SitzungStimmt, KorbStimmt
<1>8. LaufStimmt'
    BY <1>4, <1>5, <1>6 DEF AblaufIInv, LaufStimmt
<1>9. BestellungStimmt'
    <2>1. <<b>>[1] = b
        OBVIOUS
    <2>2. ASSUME NEW h \in Gespraeche, bestellungen'[h] # <<>>
          PROVE  /\ gespraech'[h] = "beendet" /\ ~lauf'[h].laeuft
                 /\ bestellungen'[h] = <<bestellungen'[h][1]>>
                 /\ bestellungen'[h][1].besitzer \subseteq {bestellungen'[h][1].kunde}
        <3>1. CASE h = g
            BY <1>3, <1>4, <1>5, <1>6, <2>1, <3>1
        <3>2. CASE h # g
            BY <1>4, <1>5, <1>6, <2>2, <3>2 DEF AblaufIInv, BestellungStimmt
        <3> QED
            BY <3>1, <3>2
    <2> QED
        BY <2>2 DEF BestellungStimmt
<1> QED
    BY <1>7, <1>8, <1>9 DEF AblaufIInv

\* No order comes about.
LEMMA OhneBestellungSchritt ==
    ASSUME AblaufIInv, NEW g \in Gespraeche, OhneBestellung(g) \/ AbbruchBestellen(g)
    PROVE  AblaufIInv'
<1>1. /\ lauf' = [lauf EXCEPT ![g] = KeinLauf]
      /\ UNCHANGED <<principal, user, kundeLoggedIn, bestellungen>>
    BY DEF OhneBestellung, AbbruchBestellen, sitzungVars
<1>2. /\ gespraech' \in [Gespraeche -> {"neu", "offen", "beendet"}]
      /\ besitzer' \in [Gespraeche -> SUBSET Benutzer]
      /\ \A h \in Gespraeche :
            \/ gespraech'[h] = gespraech[h] /\ besitzer'[h] = besitzer[h]
            \/ gespraech'[h] = "beendet" /\ besitzer'[h] = {}
    <2>1. CASE OhneBestellung(g)
        BY <2>1 DEF OhneBestellung, EndConversation, Beende, AblaufIInv, DialogFunktionen
    <2>2. CASE AbbruchBestellen(g)
        BY <2>2 DEF AbbruchBestellen, gespraechVars, AblaufIInv, DialogFunktionen
    <2> QED
        BY <2>1, <2>2
<1>3. /\ ~lauf'[g].laeuft /\ lauf' = [h \in Gespraeche |-> lauf'[h]]
      /\ \A h \in Gespraeche : h # g => lauf'[h] = lauf[h]
    BY <1>1 DEF AblaufIInv, DialogFunktionen, KeinLauf
<1>4. DialogFunktionen' /\ SitzungStimmt' /\ KorbStimmt'
    BY <1>1, <1>2, <1>3 DEF AblaufIInv, DialogFunktionen, SitzungStimmt, KorbStimmt
<1>5. LaufStimmt'
    BY <1>1, <1>2, <1>3 DEF AblaufIInv, LaufStimmt
<1>6. BestellungStimmt'
    BY <1>1, <1>2, <1>3 DEF AblaufIInv, BestellungStimmt
<1> QED
    BY <1>4, <1>5, <1>6 DEF AblaufIInv

-----------------------------------------------------------------------------
(* All steps.                                                              *)

\* AblaufIInv is preserved by every step of the session, the conversations and
\* the requests from outside.
LEMMA AblaufSchritt ==
    AblaufIInv /\ [DialogNext]_<<artikelVars, dialogVars>> => AblaufIInv'
<1> SUFFICES ASSUME AblaufIInv, [DialogNext]_<<artikelVars, dialogVars>>
             PROVE  AblaufIInv'
    OBVIOUS
<1>1. CASE \/ ArtikelSchritt /\ UNCHANGED dialogVars
           \/ \E p \in Puts, id \in Artikel, w \in NeueZeilen : PutVonAussen(p, id, w)
           \/ UNCHANGED <<artikelVars, dialogVars>>
    <2>1. UNCHANGED dialogVars
        BY <1>1 DEF PutVonAussen
    <2> QED
        BY <2>1, OhneWirkung DEF dialogVars, sitzungVars, gespraechVars
<1>2. CASE (\E k \in Benutzer : Login(k)) \/ LoginFehler
    BY <1>2, LoginSchritt
<1>3. CASE Logout
    BY <1>3, LogoutSchritt
<1>4. ASSUME NEW g \in Gespraeche,
             \/ SelectArtikel(g)
             \/ \E id \in Artikel, b \in Bezeichnungen, c \in Preise :
                   Add(g, [id |-> id, bezeichnung |-> b, preis |-> c])
             \/ Bestellen(g) \/ CreateBestellung(g) \/ OhneBestellung(g)
             \/ AbbruchBestellen(g)
      PROVE  AblaufIInv'
    BY <1>4, SelectArtikelSchritt, AddSchritt, BestellenSchritt,
       CreateBestellungSchritt, OhneBestellungSchritt
<1>5. ASSUME NEW g \in Gespraeche,
             \/ \E i \in 1..MaxPositionen : RemovePosition(g, i)
             \/ \E i \in 1..MaxPositionen, n \in 0..MaxAnzahl : SetAnzahl(g, i, n)
             \/ \E id \in Artikel, w \in NeueZeilen : CreateArtikelImDialog(g, id, w)
             \/ Zeitablauf(g)
      PROVE  AblaufIInv'
    BY <1>5, GespraechSchritt
<1> QED
    BY <1>1, <1>2, <1>3, <1>4, <1>5 DEF DialogNext

-----------------------------------------------------------------------------
(***************************************************************************)
(* Recursion over the positions of a cart.                                 *)
(***************************************************************************)

\* Every nonempty set of natural numbers has a smallest element.
LEMMA KleinstesElement ==
    ASSUME NEW T \in SUBSET Nat, T # {}
    PROVE  \E m \in T : \A n \in T : m <= n
<1> DEFINE R == {ss \in Nat \X Nat : ss[1] < ss[2]}
<1>1. IsWellFoundedOn(R, Nat)
    BY NatLessThanWellFounded DEF OpToRel
<1> HIDE DEF R
<1>2. PICK m \in T : \A n \in T : ~ (<<n, m>> \in R)
    BY <1>1, WFMin
<1>3. ASSUME NEW n \in T PROVE m <= n
    <2>1. <<n, m>> \notin R
        BY <1>2
    <2> QED
        BY <2>1 DEF R
<1> QED
    BY <1>3

\* Induction up to L, for a set instead of a predicate.
LEMMA InduktionBis ==
    ASSUME NEW L \in Nat, NEW S \in SUBSET (0..L), 0 \in S,
           \A n \in S : n < L => n + 1 \in S
    PROVE  S = 0..L
<1> SUFFICES ASSUME S # 0..L PROVE FALSE
    OBVIOUS
<1>1. (0..L) \ S # {}
    OBVIOUS
<1>2. (0..L) \ S \in SUBSET Nat
    OBVIOUS
<1>3. PICK m \in (0..L) \ S : \A n \in (0..L) \ S : m <= n
    BY <1>1, <1>2, KleinstesElement
<1>4. m # 0 /\ m - 1 \in 0..L /\ m - 1 < L
    OBVIOUS
<1>5. m - 1 \in S
    BY <1>3, <1>4
<1> QED
    BY <1>4, <1>5

\* b is given at 0, and at n by its value at n - 1.
Rekursiv(b, L, W, a, schritt) ==
    /\ b \in [0..L -> W]
    /\ b[0] = a
    /\ \A n \in 1..L : b[n] = schritt[<<n, b[n - 1]>>]

\* There is such a b.
LEMMA RekursionExistiert ==
    ASSUME NEW L \in Nat, NEW W, NEW a \in W, NEW schritt \in [(1..L) \X W -> W]
    PROVE  \E b : Rekursiv(b, L, W, a, schritt)
<1> DEFINE Bis(b, m) == Rekursiv(b, m, W, a, schritt)
           S == {m \in 0..L : \E b : Bis(b, m)}
<1> USE DEF Rekursiv
<1>1. 0 \in S
    <2>1. Bis([n \in 0..0 |-> a], 0)
        OBVIOUS
    <2>2. \E b : Bis(b, 0)
        BY <2>1
    <2> QED
        BY <2>2
<1>2. ASSUME NEW m \in S, m < L PROVE m + 1 \in S
    <2>1. PICK b : Bis(b, m)
        OBVIOUS
    <2> DEFINE c == [n \in 0..(m + 1) |-> IF n <= m THEN b[n] ELSE schritt[<<m + 1, b[m]>>]]
    <2>2. m \in Nat /\ m + 1 \in 1..L /\ m + 1 \in 0..L
        BY <1>2
    <2>3. b[m] \in W /\ schritt[<<m + 1, b[m]>>] \in W
        BY <2>1, <2>2
    <2>4. c \in [0..(m + 1) -> W] /\ c[0] = a
        BY <2>1, <2>2, <2>3
    <2>5. ASSUME NEW n \in 1..(m + 1)
          PROVE  c[n] = schritt[<<n, c[n - 1]>>]
        <3>1. c[n - 1] = b[n - 1]
            BY <2>2
        <3>2. CASE n <= m
            BY <2>1, <2>2, <3>1, <3>2
        <3>3. CASE n = m + 1
            BY <2>2, <3>1, <3>3
        <3> QED
            BY <2>2, <3>2, <3>3
    <2>6. Bis(c, m + 1)
        BY <2>4, <2>5
    <2>7. \E d : Bis(d, m + 1)
        BY <2>6
    <2> QED
        BY <2>2, <2>7
<1> HIDE DEF S
<1>3. S = 0..L
    BY <1>1, <1>2, InduktionBis DEF S
<1>4. L \in S
    BY <1>3
<1> QED
    BY <1>4 DEF S

-----------------------------------------------------------------------------
(* Sums over a cart.                                                       *)

-----------------------------------------------------------------------------
(* What a cart costs.                                                      *)

\* Prices are natural numbers, and so is what a position costs.
LEMMA WertTyp == ASSUME NEW p \in Position PROVE Wert(p) \in Nat
<1>1. p.artikel.preis \in Nat /\ p.anzahl \in Nat
    BY ArtikelAnnahme DEF Position, Kopie
<1>2. \A x, y \in Nat : x * y \in Nat
    OBVIOUS
<1> QED
    BY <1>1, <1>2 DEF Wert

\* The sum of the first n positions.
LEMMA TeilbetragRekursion ==
    ASSUME NEW ps \in Seq(Position)
    PROVE  /\ Teilbetrag(ps)[0] = 0
           /\ \A n \in 1..Len(ps) : Teilbetrag(ps)[n] = Teilbetrag(ps)[n - 1] + Wert(ps[n])
<1> DEFINE L == Len(ps)
           schritt == [x \in (1..L) \X Nat |-> x[2] + Wert(ps[x[1]])]
           Betrag(b) == b = [n \in 0..L |-> IF n = 0 THEN 0 ELSE b[n - 1] + Wert(ps[n])]
<1>1. L \in Nat /\ \A n \in 1..L : Wert(ps[n]) \in Nat
    BY WertTyp
<1>2. schritt \in [(1..L) \X Nat -> Nat]
    BY <1>1
<1>3. PICK b : Rekursiv(b, L, Nat, 0, schritt)
    <2> HIDE DEF L, schritt
    <2>1. 0 \in Nat
        OBVIOUS
    <2> QED
        BY <1>1, <1>2, <2>1, RekursionExistiert
<1>4. ASSUME NEW n \in 1..L PROVE schritt[<<n, b[n - 1]>>] = b[n - 1] + Wert(ps[n])
    <2>1. n - 1 \in 0..L /\ b[n - 1] \in Nat
        <3> HIDE DEF L, schritt
        <3> QED
            BY <1>1, <1>3 DEF Rekursiv
    <2>2. <<n, b[n - 1]>> \in (1..L) \X Nat
        BY <2>1
    <2> QED
        BY <2>2
<1>5. Betrag(b)
    <2> HIDE DEF schritt, L
    <2>1. ASSUME NEW n \in 0..L
          PROVE  b[n] = IF n = 0 THEN 0 ELSE b[n - 1] + Wert(ps[n])
        <3>1. n # 0 => n \in 1..L
            BY <1>1
        <3> QED
            BY <1>3, <1>4, <3>1 DEF Rekursiv
    <2>2. b = [n \in 0..L |-> b[n]]
        BY <1>3 DEF Rekursiv
    <2> QED
        BY <2>1, <2>2
<1>6. Betrag(Teilbetrag(ps))
    BY <1>5 DEF Teilbetrag
<1> HIDE DEF L
<1>7. Teilbetrag(ps)[0] = 0 /\ \A n \in 1..L : Teilbetrag(ps)[n] = Teilbetrag(ps)[n - 1] + Wert(ps[n])
    BY <1>1, <1>6
<1> QED
    BY <1>7 DEF L

\* There is no other such sum.
LEMMA TeilbetragEindeutig ==
    ASSUME NEW ps \in Seq(Position), NEW f, f[0] = 0,
           \A n \in 1..Len(ps) : f[n] = f[n - 1] + Wert(ps[n])
    PROVE  \A n \in 0..Len(ps) : Teilbetrag(ps)[n] = f[n]
<1> DEFINE S == {n \in 0..Len(ps) : Teilbetrag(ps)[n] = f[n]}
<1>1. 0 \in S
    BY TeilbetragRekursion
<1>2. ASSUME NEW n \in S, n < Len(ps) PROVE n + 1 \in S
    <2>1. n + 1 \in 1..Len(ps) /\ (n + 1) - 1 = n
        BY <1>2
    <2> QED
        BY <2>1, TeilbetragRekursion
<1>3. Len(ps) \in Nat
    OBVIOUS
<1> HIDE DEF S
<1>4. S = 0..Len(ps)
    BY <1>1, <1>2, <1>3, InduktionBis DEF S
<1> QED
    BY <1>4 DEF S

\* Each partial sum is a natural number.
LEMMA TeilbetragTyp ==
    ASSUME NEW ps \in Seq(Position)
    PROVE  \A n \in 0..Len(ps) : Teilbetrag(ps)[n] \in Nat
<1> DEFINE S == {n \in 0..Len(ps) : Teilbetrag(ps)[n] \in Nat}
<1>1. 0 \in S
    BY TeilbetragRekursion
<1>2. ASSUME NEW n \in S, n < Len(ps) PROVE n + 1 \in S
    <2>1. n + 1 \in 1..Len(ps) /\ (n + 1) - 1 = n
        BY <1>2
    <2>2. Wert(ps[n + 1]) \in Nat
        BY <2>1, WertTyp
    <2> QED
        BY <2>1, <2>2, TeilbetragRekursion
<1>3. Len(ps) \in Nat
    OBVIOUS
<1> HIDE DEF S
<1>4. S = 0..Len(ps)
    BY <1>1, <1>2, <1>3, InduktionBis DEF S
<1> QED
    BY <1>4 DEF S

\* So is the sum.
LEMMA GesamtbetragTyp ==
    ASSUME NEW ps \in Seq(Position) PROVE Gesamtbetrag(ps) \in Nat
BY TeilbetragTyp DEF Gesamtbetrag

\* An empty cart costs nothing.
LEMMA GesamtbetragLeer == Gesamtbetrag(<<>>) = 0
<1>1. <<>> \in Seq(Position) /\ Len(<<>>) = 0
    OBVIOUS
<1> QED
    BY <1>1, TeilbetragRekursion DEF Gesamtbetrag

\* A new position adds what it costs.
LEMMA GesamtbetragAppend ==
    ASSUME NEW ps \in Seq(Position), NEW p \in Position
    PROVE  Gesamtbetrag(Append(ps, p)) = Gesamtbetrag(ps) + Wert(p)
<1> DEFINE qs == Append(ps, p)
<1>1. /\ qs \in Seq(Position) /\ Len(ps) \in Nat /\ Len(qs) = Len(ps) + 1
      /\ \A n \in 1..Len(ps) : qs[n] = ps[n]
      /\ qs[Len(qs)] = p
    OBVIOUS
<1> HIDE DEF qs
<1>2. /\ Teilbetrag(qs)[0] = 0
      /\ \A n \in 1..Len(qs) : Teilbetrag(qs)[n] = Teilbetrag(qs)[n - 1] + Wert(qs[n])
    BY <1>1, TeilbetragRekursion
<1>3. \A n \in 0..Len(ps) : Teilbetrag(ps)[n] = Teilbetrag(qs)[n]
    BY <1>1, <1>2, TeilbetragEindeutig
<1>4. Teilbetrag(qs)[Len(qs)] = Teilbetrag(qs)[Len(ps)] + Wert(p)
    BY <1>1, <1>2
<1>5. Teilbetrag(qs)[Len(ps)] = Teilbetrag(ps)[Len(ps)]
    BY <1>1, <1>3
<1> QED
    BY <1>4, <1>5 DEF Gesamtbetrag, qs

\* A position that is replaced makes the difference of the two.
LEMMA GesamtbetragExcept ==
    ASSUME NEW ps \in Seq(Position), NEW i \in 1..Len(ps), NEW p \in Position
    PROVE  Gesamtbetrag([ps EXCEPT ![i] = p]) = Gesamtbetrag(ps) + Wert(p) - Wert(ps[i])
<1> DEFINE qs == [ps EXCEPT ![i] = p]
           d == Wert(p) - Wert(ps[i])
           f == [n \in 0..Len(ps) |-> IF n < i THEN Teilbetrag(ps)[n] ELSE Teilbetrag(ps)[n] + d]
<1>1. /\ qs \in Seq(Position) /\ Len(qs) = Len(ps) /\ Len(ps) \in Nat
      /\ \A n \in 1..Len(ps) : qs[n] = IF n = i THEN p ELSE ps[n]
    BY ExceptSeq
<1>2. /\ Teilbetrag(ps)[0] = 0
      /\ \A n \in 1..Len(ps) : Teilbetrag(ps)[n] = Teilbetrag(ps)[n - 1] + Wert(ps[n])
    BY TeilbetragRekursion
<1>3. /\ \A n \in 1..Len(ps) : Wert(ps[n]) \in Nat
      /\ \A n \in 0..Len(ps) : Teilbetrag(ps)[n] \in Nat
      /\ Wert(p) \in Nat /\ d \in Int /\ i \in Nat /\ i # 0 /\ i <= Len(ps)
    BY <1>1, WertTyp, TeilbetragTyp
<1> HIDE DEF qs
<1>4. ASSUME NEW n \in 1..Len(ps) PROVE f[n] = f[n - 1] + Wert(qs[n])
    <2>1. n \in 0..Len(ps) /\ n - 1 \in 0..Len(ps) /\ n \in Nat
        BY <1>1
    <2>2. /\ Teilbetrag(ps)[n] = Teilbetrag(ps)[n - 1] + Wert(ps[n])
          /\ Teilbetrag(ps)[n - 1] \in Nat /\ Wert(ps[n]) \in Nat
        BY <1>2, <1>3, <2>1
    <2>3. CASE n = i
        <3>1. f[n] = Teilbetrag(ps)[n] + d /\ f[n - 1] = Teilbetrag(ps)[n - 1] /\ qs[n] = p
            BY <1>1, <2>1, <2>3
        <3> QED
            BY <1>3, <2>2, <2>3, <3>1
    <2>4. CASE n < i
        <3>1. f[n] = Teilbetrag(ps)[n] /\ f[n - 1] = Teilbetrag(ps)[n - 1] /\ qs[n] = ps[n]
            BY <1>1, <1>3, <2>1, <2>4
        <3> QED
            BY <2>2, <3>1
    <2>5. CASE n > i
        <3>1. f[n] = Teilbetrag(ps)[n] + d /\ f[n - 1] = Teilbetrag(ps)[n - 1] + d /\ qs[n] = ps[n]
            BY <1>1, <1>3, <2>1, <2>5
        <3> QED
            BY <1>3, <2>2, <3>1
    <2> QED
        BY <1>3, <2>1, <2>3, <2>4, <2>5
<1>5. f[0] = 0
    BY <1>1, <1>2, <1>3
<1>6. f[Len(ps)] = Teilbetrag(ps)[Len(ps)] + d
    BY <1>1, <1>3
<1> HIDE DEF f
<1>7. Teilbetrag(qs)[Len(qs)] = f[Len(ps)]
    BY <1>1, <1>4, <1>5, TeilbetragEindeutig
<1>8. Teilbetrag(ps)[Len(ps)] \in Nat
    BY <1>1, <1>3
<1> QED
    BY <1>3, <1>6, <1>7, <1>8 DEF Gesamtbetrag, qs

\* A position that is taken out no longer counts.
LEMMA GesamtbetragRemoveAt ==
    ASSUME NEW ps \in Seq(Position), NEW j \in 1..Len(ps)
    PROVE  /\ RemoveAt(ps, j) \in Seq(Position)
           /\ Gesamtbetrag(RemoveAt(ps, j)) = Gesamtbetrag(ps) - Wert(ps[j])
<1> DEFINE qs == RemoveAt(ps, j)
           f == [n \in 0..(Len(ps) - 1) |->
                    IF n < j THEN Teilbetrag(ps)[n] ELSE Teilbetrag(ps)[n + 1] - Wert(ps[j])]
<1>1. /\ qs \in Seq(Position) /\ Len(ps) \in Nat /\ Len(ps) # 0 /\ Len(qs) = Len(ps) - 1
      /\ \A n \in 1..(Len(ps) - 1) : qs[n] = IF n < j THEN ps[n] ELSE ps[n + 1]
    <2>1. Len(ps) \in Nat /\ Len(ps) # 0 /\ j \in Nat /\ 1 <= j /\ j <= Len(ps)
        OBVIOUS
    <2>2. /\ SubSeq(ps, 1, j - 1) \in Seq(Position) /\ Len(SubSeq(ps, 1, j - 1)) = j - 1
          /\ \A n \in 1..(j - 1) : SubSeq(ps, 1, j - 1)[n] = ps[n]
        BY <2>1, SubSeqProperties
    <2>3. /\ SubSeq(ps, j + 1, Len(ps)) \in Seq(Position)
          /\ Len(SubSeq(ps, j + 1, Len(ps))) = Len(ps) - j
          /\ \A n \in 1..(Len(ps) - j) : SubSeq(ps, j + 1, Len(ps))[n] = ps[j + n]
        BY <2>1, SubSeqProperties
    <2> DEFINE a == SubSeq(ps, 1, j - 1)
               b == SubSeq(ps, j + 1, Len(ps))
    <2> HIDE DEF a, b
    <2>4. /\ a \o b \in Seq(Position) /\ Len(a \o b) = Len(a) + Len(b)
          /\ \A n \in 1..(Len(a) + Len(b)) :
                (a \o b)[n] = IF n <= Len(a) THEN a[n] ELSE b[n - Len(a)]
        BY <2>2, <2>3, ConcatProperties DEF a, b
    <2>5. Len(a) = j - 1 /\ Len(b) = Len(ps) - j /\ Len(a) + Len(b) = Len(ps) - 1
        <3>1. Len(a) = j - 1
            BY <2>2 DEF a
        <3>2. Len(b) = Len(ps) - j
            BY <2>3 DEF b
        <3> QED
            BY <2>1, <3>1, <3>2
    <2>6. ASSUME NEW n \in 1..(Len(ps) - 1)
          PROVE  (a \o b)[n] = IF n < j THEN ps[n] ELSE ps[n + 1]
        <3>1. CASE n < j
            <4>1. n \in 1..(j - 1) /\ n <= Len(a)
                BY <2>1, <2>5, <3>1
            <4> QED
                BY <2>2, <2>4, <2>5, <3>1, <4>1 DEF a
        <3>2. CASE ~(n < j)
            <4>1. n - Len(a) \in 1..(Len(ps) - j) /\ ~(n <= Len(a)) /\ j + (n - Len(a)) = n + 1
                BY <2>1, <2>5, <3>2
            <4> QED
                BY <2>3, <2>4, <2>5, <3>2, <4>1 DEF b
        <3> QED
            BY <3>1, <3>2
    <2> QED
        BY <2>1, <2>4, <2>5, <2>6 DEF RemoveAt, a, b
<1>2. /\ Teilbetrag(ps)[0] = 0
      /\ \A n \in 1..Len(ps) : Teilbetrag(ps)[n] = Teilbetrag(ps)[n - 1] + Wert(ps[n])
    BY TeilbetragRekursion
<1>3. /\ \A n \in 1..Len(ps) : Wert(ps[n]) \in Nat
      /\ \A n \in 0..Len(ps) : Teilbetrag(ps)[n] \in Nat
    BY WertTyp, TeilbetragTyp
<1> HIDE DEF qs
<1>4. ASSUME NEW n \in 1..(Len(ps) - 1) PROVE f[n] = f[n - 1] + Wert(qs[n])
    <2>1. /\ n \in 1..Len(ps) /\ n + 1 \in 1..Len(ps) /\ n - 1 \in 0..Len(ps) /\ n \in Nat
          /\ n \in 0..(Len(ps) - 1) /\ n - 1 \in 0..(Len(ps) - 1) /\ (n + 1) - 1 = n
          /\ n \in 0..Len(ps) /\ n + 1 \in 0..Len(ps) /\ (n - 1) + 1 = n
        BY <1>1
    <2>2. /\ Teilbetrag(ps)[n] = Teilbetrag(ps)[n - 1] + Wert(ps[n])
          /\ Teilbetrag(ps)[n + 1] = Teilbetrag(ps)[n] + Wert(ps[n + 1])
        BY <1>2, <2>1
    <2>3. /\ Teilbetrag(ps)[n] \in Nat /\ Teilbetrag(ps)[n - 1] \in Nat
          /\ Wert(ps[n]) \in Nat /\ Wert(ps[n + 1]) \in Nat /\ Wert(ps[j]) \in Nat
        BY <1>3, <2>1
    <2>4. CASE n < j
        BY <1>1, <2>1, <2>2, <2>4
    <2>5. CASE n = j
        <3>1. /\ f[n] = Teilbetrag(ps)[n + 1] - Wert(ps[n]) /\ f[n - 1] = Teilbetrag(ps)[n - 1]
              /\ qs[n] = ps[n + 1]
            BY <1>1, <2>1, <2>5
        <3> HIDE DEF f
        <3> QED
            BY <2>2, <2>3, <3>1
    <2>6. CASE n > j
        <3>1. /\ f[n] = Teilbetrag(ps)[n + 1] - Wert(ps[j])
              /\ f[n - 1] = Teilbetrag(ps)[n] - Wert(ps[j])
              /\ qs[n] = ps[n + 1]
            BY <1>1, <2>1, <2>6
        <3> HIDE DEF f
        <3> QED
            BY <2>2, <2>3, <3>1
    <2> QED
        BY <2>1, <2>4, <2>5, <2>6
<1>5. f[0] = 0
    BY <1>1, <1>2
<1>6. f[Len(ps) - 1] = Teilbetrag(ps)[Len(ps)] - Wert(ps[j])
    <2>1. Len(ps) - 1 \in 0..(Len(ps) - 1) /\ (Len(ps) - 1) + 1 = Len(ps)
        BY <1>1
    <2>2. CASE j = Len(ps)
        <3>1. f[Len(ps) - 1] = Teilbetrag(ps)[Len(ps) - 1]
            BY <2>1, <2>2
        <3>2. Teilbetrag(ps)[Len(ps)] = Teilbetrag(ps)[Len(ps) - 1] + Wert(ps[j])
            BY <1>1, <1>2, <2>2
        <3>3. Teilbetrag(ps)[Len(ps) - 1] \in Nat /\ Wert(ps[j]) \in Nat
            BY <1>1, <1>3
        <3> QED
            BY <3>1, <3>2, <3>3
    <2>3. CASE j < Len(ps)
        BY <2>1, <2>3
    <2> QED
        BY <1>1, <2>2, <2>3
<1> HIDE DEF f
<1>7. Teilbetrag(qs)[Len(qs)] = f[Len(qs)]
    BY <1>1, <1>4, <1>5, TeilbetragEindeutig
<1> QED
    BY <1>1, <1>6, <1>7 DEF Gesamtbetrag, qs

-----------------------------------------------------------------------------
(* The filter.                                                             *)

\* What the filter keeps of the first n positions.
LEMMA GefiltertRekursion ==
    ASSUME NEW ps \in Seq(Position)
    PROVE  /\ Gefiltert(ps)[0] = <<>>
           /\ \A n \in 1..Len(ps) : Gefiltert(ps)[n] =
                  IF ps[n].anzahl > 0 THEN Append(Gefiltert(ps)[n - 1], ps[n])
                                      ELSE Gefiltert(ps)[n - 1]
<1> DEFINE L == Len(ps)
           Dazu(qs, n) == IF ps[n].anzahl > 0 THEN Append(qs, ps[n]) ELSE qs
           schritt == [x \in (1..L) \X Seq(Position) |-> Dazu(x[2], x[1])]
           Filter(b) == b = [n \in 0..L |-> IF n = 0 THEN <<>> ELSE Dazu(b[n - 1], n)]
<1>1. L \in Nat /\ \A n \in 1..L : ps[n] \in Position
    OBVIOUS
<1>2. \A qs \in Seq(Position), n \in 1..L : Dazu(qs, n) \in Seq(Position)
    BY <1>1
<1> HIDE DEF Dazu
<1>3. schritt \in [(1..L) \X Seq(Position) -> Seq(Position)]
    <2>1. \A x \in (1..L) \X Seq(Position) : Dazu(x[2], x[1]) \in Seq(Position)
        BY <1>2
    <2> QED
        BY <2>1
<1>4. PICK b : Rekursiv(b, L, Seq(Position), <<>>, schritt)
    <2> HIDE DEF L, schritt
    <2>1. <<>> \in Seq(Position)
        OBVIOUS
    <2> HIDE DEF Dazu
    <2> QED
        BY <1>1, <1>3, <2>1, RekursionExistiert
<1>5. ASSUME NEW n \in 1..L PROVE schritt[<<n, b[n - 1]>>] = Dazu(b[n - 1], n)
    <2>1. n - 1 \in 0..L /\ b[n - 1] \in Seq(Position)
        <3> HIDE DEF L, schritt
        <3> QED
            BY <1>1, <1>4 DEF Rekursiv
    <2>2. <<n, b[n - 1]>> \in (1..L) \X Seq(Position)
        BY <2>1
    <2> QED
        BY <2>2
<1>6. Filter(b)
    <2> HIDE DEF schritt, L
    <2>1. ASSUME NEW n \in 0..L
          PROVE  b[n] = IF n = 0 THEN <<>> ELSE Dazu(b[n - 1], n)
        <3>1. n # 0 => n \in 1..L
            BY <1>1
        <3> QED
            BY <1>4, <1>5, <3>1 DEF Rekursiv
    <2>2. b = [n \in 0..L |-> b[n]]
        BY <1>4 DEF Rekursiv
    <2> QED
        BY <2>1, <2>2
<1>7. Filter(Gefiltert(ps))
    BY <1>6 DEF Gefiltert, Dazu
<1> HIDE DEF L
<1>8. /\ Gefiltert(ps)[0] = <<>>
      /\ \A n \in 1..L : Gefiltert(ps)[n] = Dazu(Gefiltert(ps)[n - 1], n)
    BY <1>1, <1>7
<1> QED
    BY <1>8 DEF L, Dazu

\* Positions without pieces cost nothing: the order costs what the cart does.
LEMMA NeuePositionenKosten ==
    ASSUME NEW ps \in Seq(Position)
    PROVE  /\ NeuePositionen(ps) \in Seq(Position)
           /\ Gesamtbetrag(NeuePositionen(ps)) = Gesamtbetrag(ps)
<1> DEFINE S == {n \in 0..Len(ps) : /\ Gefiltert(ps)[n] \in Seq(Position)
                                    /\ Gesamtbetrag(Gefiltert(ps)[n]) = Teilbetrag(ps)[n]}
<1>1. 0 \in S
    <2>1. 0 \in 0..Len(ps) /\ <<>> \in Seq(Position)
        OBVIOUS
    <2> QED
        BY <2>1, GefiltertRekursion, TeilbetragRekursion, GesamtbetragLeer
<1>2. ASSUME NEW n \in S, n < Len(ps) PROVE n + 1 \in S
    <2>1. /\ n + 1 \in 1..Len(ps) /\ (n + 1) - 1 = n /\ ps[n + 1] \in Position
          /\ n + 1 \in 0..Len(ps)
        BY <1>2
    <2>2. Teilbetrag(ps)[n + 1] = Teilbetrag(ps)[n] + Wert(ps[n + 1])
        BY <2>1, TeilbetragRekursion
    <2>3. CASE ps[n + 1].anzahl > 0
        <3>1. Gefiltert(ps)[n + 1] = Append(Gefiltert(ps)[n], ps[n + 1])
            BY <2>1, <2>3, GefiltertRekursion
        <3>2. Append(Gefiltert(ps)[n], ps[n + 1]) \in Seq(Position)
            BY <2>1
        <3> QED
            BY <2>1, <2>2, <3>1, <3>2, GesamtbetragAppend
    <2>4. CASE ~(ps[n + 1].anzahl > 0)
        <3>1. Gefiltert(ps)[n + 1] = Gefiltert(ps)[n]
            BY <2>1, <2>4, GefiltertRekursion
        <3>2. ps[n + 1].anzahl = 0 /\ ps[n + 1].artikel.preis \in Nat
            <4>1. ps[n + 1].anzahl \in Nat /\ ps[n + 1].artikel.preis \in Nat
                BY <2>1, ArtikelAnnahme DEF Position, Kopie
            <4> QED
                BY <2>4, <4>1
        <3>3. Wert(ps[n + 1]) = 0
            BY <3>2 DEF Wert
        <3>4. Teilbetrag(ps)[n] \in Nat
            BY <2>1, TeilbetragTyp
        <3> QED
            BY <2>1, <2>2, <3>1, <3>3, <3>4
    <2> QED
        BY <2>3, <2>4
<1>3. Len(ps) \in Nat
    OBVIOUS
<1> HIDE DEF S
<1>4. S = 0..Len(ps)
    BY <1>1, <1>2, <1>3, InduktionBis DEF S
<1>5. Len(ps) \in S
    BY <1>3, <1>4
<1> QED
    BY <1>5 DEF S, NeuePositionen, Gesamtbetrag

-----------------------------------------------------------------------------
(* The articles, whoever writes them.                                      *)

\* A row that is not there and a PUT that is not sent have the types of the others.
LEMMA LeereArtikel ==
    /\ KeineZeile \in Zeile /\ KeinPut \in Put
    /\ \A stufe \in {"fertig", "abgelehnt"} : Erledigt(stufe) \in Put /\ Erledigt(stufe).stufe = stufe
BY DEF KeineZeile, Zeile, KeinPut, Put, Erledigt

\* What clients send is complete.
LEMMA NeueZeileVollstaendig ==
    ASSUME NEW w \in NeueZeilen
    PROVE  w \in Zeile /\ Gueltig(w) /\ w.bezeichnung \in Bezeichnungen /\ w.preis \in Preise
<1>1. /\ w = [bezeichnung |-> w.bezeichnung, preis |-> w.preis,
              ausgesondert |-> w.ausgesondert, version |-> w.version]
      /\ w.bezeichnung \in Bezeichnungen /\ w.preis \in Preise
      /\ w.ausgesondert \in BOOLEAN /\ w.version = 0
    BY DEF NeueZeilen
<1>2. w \in Zeile
    BY <1>1 DEF NeueZeilen, Zeile
<1> QED
    BY <1>1, <1>2, ArtikelAnnahme DEF Gueltig

\* A PUT writes a complete row or none.
LEMMA ArtikelPut ==
    ASSUME ArtikelStimmen, NEW p \in Puts,
           \/ UpdateArtikel(p) \/ VerwerfePut(p)
           \/ CommitPut(p) \/ OhneUnterschied(p) \/ KonfliktPut(p)
    PROVE  ArtikelStimmen'
<1>1. /\ vorhanden \subseteq Artikel /\ zeile \in [Artikel -> Zeile] /\ put \in [Puts -> Put]
      /\ put[p] \in Put /\ vorhanden' = vorhanden
    BY DEF ArtikelStimmen, ArtikelTypeOK, UpdateArtikel, VerwerfePut, CommitPut,
           OhneUnterschied, KonfliktPut
<1>2. CASE UpdateArtikel(p)
    <2> DEFINE q == [put[p] EXCEPT !.stufe = "gelesen", !.alt = zeile[put[p].id]]
    <2>1. /\ put[p].id \in vorhanden /\ Gueltig(put[p].werte) /\ zeile' = zeile
          /\ put' = [put EXCEPT ![p] = q]
        BY <1>2 DEF UpdateArtikel
    <2>2. zeile[put[p].id] \in Zeile
        BY <1>1, <2>1
    <2>3. q \in Put /\ q.id = put[p].id /\ q.werte = put[p].werte
        BY <1>1, <2>2 DEF Put
    <2> HIDE DEF q
    <2>4. ArtikelTypeOK' /\ NieUnvollstaendig'
        BY <1>1, <2>1, <2>3 DEF ArtikelStimmen, ArtikelTypeOK, NieUnvollstaendig
    <2>5. PutsStimmen'
        BY <1>1, <2>1, <2>3 DEF ArtikelStimmen, PutsStimmen
    <2> QED
        BY <2>4, <2>5 DEF ArtikelStimmen
<1>3. CASE VerwerfePut(p) \/ OhneUnterschied(p) \/ KonfliktPut(p)
    <2>1. PICK stufe \in {"fertig", "abgelehnt"} : put' = [put EXCEPT ![p] = Erledigt(stufe)]
        BY <1>3 DEF VerwerfePut, OhneUnterschied, KonfliktPut
    <2>2. zeile' = zeile
        BY <1>3 DEF VerwerfePut, OhneUnterschied, KonfliktPut
    <2>3. Erledigt(stufe) \in Put /\ Erledigt(stufe).stufe # "gelesen"
        BY LeereArtikel
    <2>4. ArtikelTypeOK' /\ NieUnvollstaendig'
        BY <1>1, <2>1, <2>2, <2>3 DEF ArtikelStimmen, ArtikelTypeOK, NieUnvollstaendig
    <2>5. PutsStimmen'
        BY <1>1, <2>1, <2>3 DEF ArtikelStimmen, PutsStimmen
    <2> QED
        BY <2>4, <2>5 DEF ArtikelStimmen
<1>4. CASE CommitPut(p)
    <2> DEFINE z == [put[p].werte EXCEPT !.version = put[p].alt.version + 1]
    <2>1. /\ put[p].id \in vorhanden /\ Gueltig(put[p].werte)
          /\ zeile' = [zeile EXCEPT ![put[p].id] = z]
          /\ put' = [put EXCEPT ![p] = Erledigt("fertig")]
        BY <1>4 DEF CommitPut, ArtikelStimmen, PutsStimmen
    <2>2. z \in Zeile /\ z.bezeichnung # Ohne /\ z.preis # Ohne
        BY <1>1, <2>1 DEF Put, Zeile, Gueltig
    <2> HIDE DEF z
    <2>3. Erledigt("fertig") \in Put /\ Erledigt("fertig").stufe # "gelesen"
        BY LeereArtikel
    <2>4. ArtikelTypeOK' /\ NieUnvollstaendig'
        BY <1>1, <2>1, <2>2, <2>3 DEF ArtikelStimmen, ArtikelTypeOK, NieUnvollstaendig
    <2>5. PutsStimmen'
        BY <1>1, <2>1, <2>3 DEF ArtikelStimmen, PutsStimmen
    <2> QED
        BY <2>4, <2>5 DEF ArtikelStimmen
<1> QED
    BY <1>2, <1>3, <1>4

\* A PUT is sent, or an article is made.
LEMMA ArtikelNeu ==
    ASSUME ArtikelStimmen, NEW id \in Artikel, NEW w \in NeueZeilen,
           \/ \E p \in Puts : PutVonAussen(p, id, w)
           \/ CreateArtikel(id, w)
    PROVE  ArtikelStimmen'
<1>1. /\ vorhanden \subseteq Artikel /\ zeile \in [Artikel -> Zeile] /\ put \in [Puts -> Put]
      /\ w \in Zeile /\ Gueltig(w)
    BY NeueZeileVollstaendig DEF ArtikelStimmen, ArtikelTypeOK
<1>2. ASSUME NEW p \in Puts, PutVonAussen(p, id, w) PROVE ArtikelStimmen'
    <2> DEFINE q == [KeinPut EXCEPT !.stufe = "gesendet", !.maske = FALSE,
                                    !.id = id, !.werte = w]
    <2>1. put' = [put EXCEPT ![p] = q] /\ UNCHANGED <<vorhanden, zeile>>
        BY <1>2 DEF PutVonAussen, SendePut
    <2>2. q \in Put /\ q.stufe # "gelesen"
        BY <1>1 DEF KeinPut, KeineZeile, Put, Zeile
    <2> HIDE DEF q
    <2>3. ArtikelTypeOK' /\ NieUnvollstaendig' /\ PutsStimmen'
        BY <1>1, <2>1, <2>2 DEF ArtikelStimmen, ArtikelTypeOK, NieUnvollstaendig, PutsStimmen
    <2> QED
        BY <2>3 DEF ArtikelStimmen
<1>3. CASE CreateArtikel(id, w)
    <2>1. /\ vorhanden' = vorhanden \cup {id} /\ zeile' = [zeile EXCEPT ![id] = w]
          /\ put' = put
        BY <1>3 DEF CreateArtikel
    <2>2. ArtikelTypeOK' /\ NieUnvollstaendig' /\ PutsStimmen'
        BY <1>1, <2>1 DEF ArtikelStimmen, ArtikelTypeOK, NieUnvollstaendig, PutsStimmen, Gueltig
    <2> QED
        BY <2>2 DEF ArtikelStimmen
<1> QED
    BY <1>2, <1>3

\* Steps that leave the articles alone.
LEMMA ArtikelUnberuehrt ==
    ASSUME ArtikelStimmen, UNCHANGED artikelVars
    PROVE  ArtikelStimmen'
BY DEF ArtikelStimmen, ArtikelTypeOK, NieUnvollstaendig, PutsStimmen, artikelVars

\* What is offered has a name and a price.
LEMMA AngebotTyp ==
    ASSUME ArtikelStimmen, NEW id \in vorhanden
    PROVE  KopieVon(id) \in Kopie
<1>1. id \in Artikel /\ zeile[id] \in Zeile /\ zeile[id].bezeichnung # Ohne /\ zeile[id].preis # Ohne
    BY DEF ArtikelStimmen, ArtikelTypeOK, NieUnvollstaendig
<1>2. zeile[id].bezeichnung \in Bezeichnungen /\ zeile[id].preis \in Preise
    BY <1>1 DEF Zeile
<1> QED
    BY <1>1, <1>2 DEF KopieVon, Kopie

-----------------------------------------------------------------------------
(* The carts.                                                              *)

\* Conversations end, and their carts are empty.
LEMMA BeendeKosten ==
    ASSUME GespraechTypeOK, KorbKostet, NEW G \in SUBSET Gespraeche, Beende(G)
    PROVE  GespraechTypeOK' /\ KorbKostet'
<1>1. <<>> \in Seq(Position)
    OBVIOUS
<1>2. GespraechTypeOK'
    BY <1>1 DEF GespraechTypeOK, Beende
<1>3. ASSUME NEW g \in Gespraeche PROVE erwartet'[g] = Gesamtbetrag(positionen'[g])
    BY GesamtbetragLeer DEF Beende, KorbKostet
<1> QED
    BY <1>2, <1>3 DEF KorbKostet

\* Loading the offer leaves the cart alone.
LEMMA SelectArtikelKosten ==
    ASSUME GespraechTypeOK, KorbKostet, ArtikelStimmen, NEW g \in Gespraeche, SelectArtikel(g)
    PROVE  GespraechTypeOK' /\ KorbKostet'
<1>1. Angebot \in SUBSET Kopie
    BY AngebotTyp DEF Angebot
<1>2. GespraechTypeOK'
    BY <1>1 DEF SelectArtikel, GespraechTypeOK
<1>3. KorbKostet'
    BY DEF SelectArtikel, KorbKostet
<1> QED
    BY <1>2, <1>3

\* The first position that passes a test is one.
LEMMA SelectInSeqFindet ==
    ASSUME NEW ps \in Seq(Position), NEW i \in 1..Len(ps), NEW T,
           NEW I, I = {k \in 1..Len(ps) : ps[k] \in T}, ps[i] \in T
    PROVE  Min(I) \in 1..Len(ps) /\ ps[Min(I)] \in T
<1>1. I \in SUBSET Nat /\ I # {}
    OBVIOUS
<1>2. PICK m \in I : \A n \in I : m <= n
    BY <1>1, KleinstesElement
<1>3. Min(I) \in I
    BY <1>2 DEF Min
<1> QED
    BY <1>3

\* One more piece of an article costs its price: what has been merged has the
\* same one.
LEMMA ErgaenztKosten ==
    ASSUME NEW ps \in Seq(Position), NEW a \in Kopie
    PROVE  /\ Ergaenzt(ps, a) \in Seq(Position)
           /\ Gesamtbetrag(Ergaenzt(ps, a)) = Gesamtbetrag(ps) + a.preis
<1>1. a.preis \in Nat
    BY ArtikelAnnahme DEF Kopie
<1>2. CASE \E i \in DOMAIN ps : Gleich(ps[i].artikel, a)
    <2> DEFINE T == {p \in Position : Gleich(p.artikel, a)}
               I == {k \in 1..Len(ps) : ps[k] \in T}
               j == Min(I)
               p == [ps[j] EXCEPT !.anzahl = @ + 1]
    <2>1. DOMAIN ps = 1..Len(ps) /\ \A k \in 1..Len(ps) : ps[k] \in Position
        OBVIOUS
    <2>2. PICK i \in 1..Len(ps) : ps[i] \in T
        BY <1>2, <2>1
    <2>3. I = {k \in 1..Len(ps) : Gleich(ps[k].artikel, a)}
        BY <2>1
    <2>4. SelectInSeq(ps, LAMBDA q : Gleich(q.artikel, a)) = j
        BY <2>2, <2>3 DEF SelectInSeq
    <2> HIDE DEF T, I
    <2>5. j \in 1..Len(ps) /\ ps[j] \in T
        BY <2>2, SelectInSeqFindet DEF I
    <2>6. ps[j] \in Position /\ ps[j].artikel.preis = a.preis
        BY <2>5 DEF T, Gleich
    <2> HIDE DEF j
    <2>7. p \in Position /\ p.artikel = ps[j].artikel /\ p.anzahl = ps[j].anzahl + 1
        BY <2>6 DEF Position
    <2>8. Ergaenzt(ps, a) = [ps EXCEPT ![j] = p]
        BY <1>2, <2>4 DEF Ergaenzt
    <2> HIDE DEF p
    <2>9. Wert(p) = Wert(ps[j]) + a.preis
        <3>1. ps[j].anzahl \in Nat
            BY <2>6 DEF Position
        <3>2. \A x, n \in Nat : x * (n + 1) = x * n + x
            OBVIOUS
        <3> QED
            BY <1>1, <2>6, <2>7, <3>1, <3>2 DEF Wert
    <2>10. Wert(ps[j]) \in Nat /\ Gesamtbetrag(ps) \in Nat
        BY <2>6, WertTyp, GesamtbetragTyp
    <2>11. Gesamtbetrag([ps EXCEPT ![j] = p]) = Gesamtbetrag(ps) + Wert(p) - Wert(ps[j])
        BY <2>5, <2>7, GesamtbetragExcept
    <2>12. [ps EXCEPT ![j] = p] \in Seq(Position)
        BY <2>5, <2>7, ExceptSeq
    <2> QED
        BY <1>1, <2>8, <2>9, <2>10, <2>11, <2>12
<1>3. CASE ~ \E i \in DOMAIN ps : Gleich(ps[i].artikel, a)
    <2> DEFINE p == [artikel |-> a, anzahl |-> 1]
    <2>1. p \in Position /\ Wert(p) = a.preis
        BY <1>1 DEF Position, Wert
    <2>2. Ergaenzt(ps, a) = Append(ps, p)
        BY <1>3 DEF Ergaenzt
    <2> HIDE DEF p
    <2>3. Append(ps, p) \in Seq(Position)
        BY <2>1
    <2> QED
        BY <2>1, <2>2, <2>3, GesamtbetragAppend
<1> QED
    BY <1>2, <1>3

\* A click adds the price of its article to what the customer expects.
LEMMA AddKosten ==
    ASSUME GespraechTypeOK, KorbKostet, SitzungTypeOK,
           NEW g \in Gespraeche, NEW a \in Kopie, Add(g, a)
    PROVE  GespraechTypeOK' /\ KorbKostet'
<1> DEFINE ps == Ergaenzt(positionen[g], a)
<1>1. /\ positionen' = [positionen EXCEPT ![g] = ps]
      /\ erwartet' = [erwartet EXCEPT ![g] = erwartet[g] + a.preis]
      /\ besitzer' = [besitzer EXCEPT ![g] = besitzer[g] \cup ({principal} \ {Gast})]
      /\ UNCHANGED <<gespraech, geladen, verfuegbareArtikel>>
    BY DEF Add
<1>2. /\ positionen[g] \in Seq(Position) /\ erwartet[g] \in Int
      /\ besitzer[g] \in SUBSET Benutzer
    BY DEF GespraechTypeOK
<1>3. a.preis \in Nat
    BY ArtikelAnnahme DEF Kopie
<1>4. ps \in Seq(Position) /\ Gesamtbetrag(ps) = erwartet[g] + a.preis
    BY <1>2, ErgaenztKosten DEF KorbKostet
<1>5. erwartet[g] + a.preis \in Int
    BY <1>2, <1>3
<1> HIDE DEF ps
<1>6. besitzer[g] \cup ({principal} \ {Gast}) \in SUBSET Benutzer
    BY <1>2 DEF SitzungTypeOK
<1>7. GespraechTypeOK'
    BY <1>1, <1>5, <1>4, <1>6 DEF GespraechTypeOK
<1>8. KorbKostet'
    BY <1>1, <1>4 DEF GespraechTypeOK, KorbKostet
<1> QED
    BY <1>7, <1>8

\* A new number of pieces changes the sum by the difference.
LEMMA SetAnzahlKosten ==
    ASSUME GespraechTypeOK, KorbKostet,
           NEW g \in Gespraeche, NEW i, NEW n \in Nat, SetAnzahl(g, i, n)
    PROVE  GespraechTypeOK' /\ KorbKostet'
<1> DEFINE ps == positionen[g]
           p == [ps[i] EXCEPT !.anzahl = n]
           e == erwartet[g] + n * ps[i].artikel.preis - ps[i].anzahl * ps[i].artikel.preis
<1>1. ps \in Seq(Position) /\ i \in 1..Len(ps) /\ ps[i] \in Position
    BY DEF GespraechTypeOK, SetAnzahl
<1>2. /\ positionen' = [positionen EXCEPT ![g] = [ps EXCEPT ![i] = p]]
      /\ erwartet' = [erwartet EXCEPT ![g] = e]
      /\ UNCHANGED <<gespraech, geladen, verfuegbareArtikel, besitzer>>
    BY <1>1 DEF SetAnzahl
<1>3. p \in Position /\ p.artikel = ps[i].artikel /\ p.anzahl = n
    BY <1>1 DEF Position
<1>4. ps[i].artikel.preis \in Nat /\ ps[i].anzahl \in Nat
    BY <1>1, ArtikelAnnahme DEF Position, Kopie
<1> HIDE DEF p
<1>5. /\ [ps EXCEPT ![i] = p] \in Seq(Position)
      /\ Gesamtbetrag([ps EXCEPT ![i] = p]) = Gesamtbetrag(ps) + Wert(p) - Wert(ps[i])
    BY <1>1, <1>3, ExceptSeq, GesamtbetragExcept
<1>6. erwartet[g] = Gesamtbetrag(ps) /\ erwartet[g] \in Int
    BY DEF KorbKostet, GespraechTypeOK
<1>7. e \in Int /\ Gesamtbetrag([ps EXCEPT ![i] = p]) = e
    <2>1. \A x, y \in Nat : x * y = y * x /\ x * y \in Int
        OBVIOUS
    <2>2. Wert(p) = n * ps[i].artikel.preis /\ Wert(ps[i]) = ps[i].anzahl * ps[i].artikel.preis
        BY <1>3, <1>4, <2>1 DEF Wert
    <2>3. n * ps[i].artikel.preis \in Int /\ ps[i].anzahl * ps[i].artikel.preis \in Int
        BY <1>4, <2>1
    <2> QED
        BY <1>5, <1>6, <2>2, <2>3
<1> HIDE DEF e, ps
<1>8. GespraechTypeOK'
    BY <1>2, <1>5, <1>7 DEF GespraechTypeOK
<1>9. KorbKostet'
    BY <1>2, <1>7 DEF GespraechTypeOK, KorbKostet
<1> QED
    BY <1>8, <1>9

\* The position removed is equal to the one that was selected, and costs the
\* same.
LEMMA RemovePositionKosten ==
    ASSUME GespraechTypeOK, KorbKostet, NEW g \in Gespraeche, NEW i, RemovePosition(g, i)
    PROVE  GespraechTypeOK' /\ KorbKostet'
<1> DEFINE ps == positionen[g]
           T == {q \in Position : GleichePosition(q, ps[i])}
           I == {k \in 1..Len(ps) : ps[k] \in T}
           j == Min(I)
<1>1. /\ ps \in Seq(Position) /\ i \in 1..Len(ps) /\ ps[i] \in Position
      /\ \A k \in 1..Len(ps) : ps[k] \in Position
    BY DEF GespraechTypeOK, RemovePosition
<1>2. CASE Len(ps) = 1
    BY <1>2, BeendeKosten DEF RemovePosition
<1>3. CASE Len(ps) # 1
    <2>1. ps[i] \in T
        BY <1>1 DEF GleichePosition, Gleich
    <2>2. I = {k \in 1..Len(ps) : GleichePosition(ps[k], ps[i])}
        BY <1>1
    <2>3. SelectInSeq(ps, LAMBDA q : GleichePosition(q, ps[i])) = j
        BY <1>1, <2>1, <2>2 DEF SelectInSeq
    <2> HIDE DEF T, I
    <2>4. j \in 1..Len(ps) /\ ps[j] \in T
        BY <1>1, <2>1, SelectInSeqFindet DEF I
    <2>5. Wert(ps[j]) = Wert(ps[i])
        BY <2>4 DEF T, GleichePosition, Gleich, Wert
    <2>6. /\ positionen' = [positionen EXCEPT ![g] = RemoveAt(ps, j)]
          /\ erwartet' = [erwartet EXCEPT ![g] = erwartet[g] - ps[i].anzahl * ps[i].artikel.preis]
          /\ UNCHANGED <<gespraech, geladen, verfuegbareArtikel, besitzer>>
        BY <1>3, <2>3 DEF RemovePosition
    <2>7. ps[i].anzahl * ps[i].artikel.preis = Wert(ps[i]) /\ Wert(ps[i]) \in Nat
        <3>1. \A x, y \in Nat : x * y = y * x
            OBVIOUS
        <3>2. ps[i].artikel.preis \in Nat /\ ps[i].anzahl \in Nat
            BY <1>1, ArtikelAnnahme DEF Position, Kopie
        <3>3. Wert(ps[i]) \in Nat
            BY <1>1, WertTyp
        <3> QED
            BY <3>1, <3>2, <3>3 DEF Wert
    <2> HIDE DEF j
    <2>8. /\ RemoveAt(ps, j) \in Seq(Position)
          /\ Gesamtbetrag(RemoveAt(ps, j)) = Gesamtbetrag(ps) - Wert(ps[j])
        BY <1>1, <2>4, GesamtbetragRemoveAt
    <2>9. erwartet[g] = Gesamtbetrag(ps) /\ erwartet[g] \in Int
        BY DEF KorbKostet, GespraechTypeOK
    <2> DEFINE e == erwartet[g] - Wert(ps[i])
    <2>10. e \in Int /\ Gesamtbetrag(RemoveAt(ps, j)) = e /\ erwartet' = [erwartet EXCEPT ![g] = e]
        <3>1. erwartet' = [erwartet EXCEPT ![g] = e]
            BY <2>6, <2>7
        <3>2. e \in Int
            BY <2>7, <2>9
        <3> QED
            BY <2>5, <2>8, <2>9, <3>1, <3>2
    <2> HIDE DEF e, ps
    <2>11. GespraechTypeOK'
        BY <2>6, <2>8, <2>10 DEF GespraechTypeOK
    <2>12. KorbKostet'
        BY <2>6, <2>10 DEF GespraechTypeOK, KorbKostet
    <2> QED
        BY <2>11, <2>12
<1> QED
    BY <1>2, <1>3

\* Steps that leave the conversations alone.
LEMMA KorbUnberuehrt ==
    ASSUME GespraechTypeOK, KorbKostet, UNCHANGED gespraechVars
    PROVE  GespraechTypeOK' /\ KorbKostet'
BY DEF GespraechTypeOK, KorbKostet, gespraechVars

-----------------------------------------------------------------------------
(* The orders.                                                             *)

\* The positions with pieces are taken over; what they cost is what the
\* customer has seen.
LEMMA BestellenKosten ==
    ASSUME AblaufIInv, GespraechTypeOK, LaufTypeOK, KorbKostet, LaufKostet,
           GesamtbetragWieErwartet, NEW g \in Gespraeche, Bestellen(g)
    PROVE  LaufTypeOK' /\ LaufKostet' /\ GesamtbetragWieErwartet'
<1> DEFINE l == [laeuft |-> TRUE, kunde |-> Kunde,
                 positionen |-> NeuePositionen(positionen[g]),
                 erwartet |-> erwartet[g], besitzer |-> besitzer[g]]
<1>1. /\ lauf' = [lauf EXCEPT ![g] = l]
      /\ UNCHANGED bestellungen
    BY DEF Bestellen
<1>2. Kunde \in Benutzer \cup {Gast}
    BY DEF Bestellen, PreserveLogin, Kunde, AblaufIInv, SitzungStimmt
<1>3. /\ positionen[g] \in Seq(Position) /\ erwartet[g] \in Int
      /\ besitzer[g] \in SUBSET Benutzer
    BY DEF GespraechTypeOK
<1>4. /\ NeuePositionen(positionen[g]) \in Seq(Position)
      /\ Gesamtbetrag(NeuePositionen(positionen[g])) = erwartet[g]
    BY <1>3, NeuePositionenKosten DEF KorbKostet
<1>5. l \in Lauf /\ l.erwartet = Gesamtbetrag(l.positionen)
    BY <1>2, <1>3, <1>4 DEF Lauf
<1> HIDE DEF l
<1>6. LaufTypeOK' /\ LaufKostet'
    BY <1>1, <1>5 DEF LaufTypeOK, LaufKostet
<1>7. GesamtbetragWieErwartet'
    BY <1>1 DEF GesamtbetragWieErwartet, Bestellt
<1> QED
    BY <1>6, <1>7

\* A conversation without a request.
LEMMA KeinLaufTyp == KeinLauf \in Lauf /\ ~KeinLauf.laeuft
<1>1. <<>> \in Seq(Position)
    OBVIOUS
<1> QED
    BY <1>1 DEF KeinLauf, Lauf

\* A request ends without an order.
LEMMA LaufEndeKosten ==
    ASSUME LaufTypeOK, LaufKostet, GesamtbetragWieErwartet, NEW g \in Gespraeche,
           lauf' = [lauf EXCEPT ![g] = KeinLauf], UNCHANGED bestellungen
    PROVE  LaufTypeOK' /\ LaufKostet' /\ GesamtbetragWieErwartet'
<1>1. LaufTypeOK' /\ LaufKostet'
    BY KeinLaufTyp DEF LaufTypeOK, LaufKostet
<1>2. GesamtbetragWieErwartet'
    BY DEF GesamtbetragWieErwartet, Bestellt
<1> QED
    BY <1>1, <1>2

\* What stands in a sequence that has grown by one.
LEMMA AppendStellen ==
    ASSUME NEW S, NEW s \in Seq(S), NEW e \in S
    PROVE  /\ Append(s, e) \in Seq(S)
           /\ \A n \in DOMAIN Append(s, e) :
                 Append(s, e)[n] = e \/ (n \in DOMAIN s /\ Append(s, e)[n] = s[n])
<1> DEFINE t == Append(s, e)
<1>1. /\ t \in Seq(S) /\ Len(t) = Len(s) + 1
      /\ \A n \in 1..Len(s) : t[n] = s[n]
      /\ t[Len(s) + 1] = e
    BY AppendProperties
<1> HIDE DEF t
<1>2. DOMAIN t = 1..Len(t) /\ DOMAIN s = 1..Len(s) /\ Len(s) \in Nat
    BY <1>1
<1>3. \A n \in DOMAIN t : n = Len(s) + 1 \/ n \in DOMAIN s
    BY <1>1, <1>2
<1>4. ASSUME NEW n \in DOMAIN t
      PROVE  t[n] = e \/ (n \in DOMAIN s /\ t[n] = s[n])
    <2>1. CASE n = Len(s) + 1
        BY <1>1, <2>1
    <2>2. CASE n \in DOMAIN s
        BY <1>1, <1>2, <2>2
    <2> QED
        BY <1>3, <2>1, <2>2
<1> QED
    BY <1>1, <1>4 DEF t

\* The order costs the sum over its positions.
LEMMA CreateBestellungKosten ==
    ASSUME AblaufIInv, LaufTypeOK, LaufKostet, GesamtbetragWieErwartet,
           NEW g \in Gespraeche, CreateBestellung(g)
    PROVE  LaufTypeOK' /\ LaufKostet' /\ GesamtbetragWieErwartet'
<1> DEFINE b == [kunde |-> lauf[g].kunde,
                 gesamtbetrag |-> Gesamtbetrag(lauf[g].positionen),
                 erwartet |-> lauf[g].erwartet, besitzer |-> lauf[g].besitzer]
           bs == Append(bestellungen[g], b)
<1>1. /\ lauf[g].laeuft /\ lauf' = [lauf EXCEPT ![g] = KeinLauf]
      /\ bestellungen' = [bestellungen EXCEPT ![g] = bs]
    BY DEF CreateBestellung
<1>2. lauf[g] \in Lauf /\ bestellungen[g] \in Seq(Bestellung)
    BY DEF LaufTypeOK
<1>3. /\ lauf[g].kunde \in Benutzer /\ lauf[g].positionen \in Seq(Position)
      /\ lauf[g].erwartet \in Int /\ lauf[g].besitzer \in SUBSET Benutzer
    BY <1>1, <1>2 DEF Lauf, AblaufIInv, LaufStimmt
<1>4. Gesamtbetrag(lauf[g].positionen) \in Nat
    BY <1>3, GesamtbetragTyp
<1>5. b \in Bestellung
    BY <1>3, <1>4 DEF Bestellung
<1>6. b.gesamtbetrag = b.erwartet
    BY <1>1 DEF LaufKostet
<1> HIDE DEF b
<1>7. /\ bs \in Seq(Bestellung)
      /\ \A n \in DOMAIN bs : bs[n] = b \/ (n \in DOMAIN bestellungen[g] /\ bs[n] = bestellungen[g][n])
    BY <1>2, <1>5, AppendStellen
<1> HIDE DEF bs
<1>8. LaufTypeOK' /\ LaufKostet'
    BY <1>1, <1>7, KeinLaufTyp DEF LaufTypeOK, LaufKostet
<1>9. ASSUME NEW h \in Gespraeche, NEW n \in DOMAIN bestellungen'[h]
      PROVE  bestellungen'[h][n].gesamtbetrag = bestellungen'[h][n].erwartet
    <2>1. \A k \in DOMAIN bestellungen[h] :
              bestellungen[h][k].gesamtbetrag = bestellungen[h][k].erwartet
        BY DEF GesamtbetragWieErwartet, Bestellt
    <2>2. CASE h = g
        BY <1>1, <1>6, <1>7, <2>1, <2>2 DEF LaufTypeOK
    <2>3. CASE h # g
        BY <1>1, <2>1, <2>3 DEF LaufTypeOK
    <2> QED
        BY <2>2, <2>3
<1>10. GesamtbetragWieErwartet'
    BY <1>9 DEF GesamtbetragWieErwartet, Bestellt
<1> QED
    BY <1>8, <1>10

\* Steps that leave the requests and the orders alone.
LEMMA LaufUnberuehrt ==
    ASSUME LaufTypeOK, LaufKostet, GesamtbetragWieErwartet, UNCHANGED <<lauf, bestellungen>>
    PROVE  LaufTypeOK' /\ LaufKostet' /\ GesamtbetragWieErwartet'
BY DEF LaufTypeOK, LaufKostet, GesamtbetragWieErwartet, Bestellt

-----------------------------------------------------------------------------
\* Nothing is in the carts at the beginning, and the articles are complete.
LEMMA InitKosten == DialogInit => KostenIInv
<1> SUFFICES ASSUME DialogInit PROVE KostenIInv
    OBVIOUS
<1>1. PICK z \in [vorhanden -> NeueZeilen] :
          zeile = [id \in Artikel |-> IF id \in vorhanden THEN z[id] ELSE KeineZeile]
    BY DEF DialogInit, ArtikelInit
<1>2. vorhanden \subseteq Artikel /\ put = [p \in Puts |-> KeinPut]
    BY DEF DialogInit, ArtikelInit
<1>3. ArtikelStimmen
    <2>1. ArtikelTypeOK
        BY <1>1, <1>2, NeueZeileVollstaendig, LeereArtikel DEF ArtikelTypeOK
    <2>2. NieUnvollstaendig
        BY <1>1, <1>2, NeueZeileVollstaendig DEF NieUnvollstaendig, Gueltig
    <2>3. PutsStimmen
        BY <1>2 DEF PutsStimmen, KeinPut
    <2> QED
        BY <2>1, <2>2, <2>3 DEF ArtikelStimmen
<1>4. SitzungTypeOK /\ GespraechTypeOK /\ LaufTypeOK
    <2>1. \A S : <<>> \in Seq(S)
        OBVIOUS
    <2>2. SitzungTypeOK
        BY DEF DialogInit, SitzungTypeOK
    <2>3. GespraechTypeOK
        BY <2>1 DEF DialogInit, GespraechTypeOK
    <2>4. LaufTypeOK
        BY <2>1, KeinLaufTyp DEF DialogInit, LaufTypeOK
    <2> QED
        BY <2>2, <2>3, <2>4
<1>5. KorbKostet /\ LaufKostet
    BY GesamtbetragLeer, KeinLaufTyp DEF DialogInit, KorbKostet, LaufKostet
<1>6. GesamtbetragWieErwartet
    BY DEF DialogInit, GesamtbetragWieErwartet, Bestellt
<1> QED
    BY <1>3, <1>4, <1>5, <1>6 DEF KostenIInv, DialogTypeOK, ArtikelStimmen

\* The sums stay right in every step of the session, the conversations and the
\* requests from outside.
LEMMA KostenSchritt ==
    ASSUME AblaufIInv, KostenIInv, AblaufIInv', [DialogNext]_<<artikelVars, dialogVars>>
    PROVE  KostenIInv'
<1>1. /\ ArtikelStimmen /\ SitzungTypeOK /\ GespraechTypeOK /\ LaufTypeOK
      /\ KorbKostet /\ LaufKostet /\ GesamtbetragWieErwartet
    BY DEF KostenIInv, DialogTypeOK
<1>2. SitzungTypeOK'
    BY DEF AblaufIInv, SitzungStimmt, SitzungTypeOK
<1> DEFINE Korb == GespraechTypeOK' /\ KorbKostet'
           Laeufe == LaufTypeOK' /\ LaufKostet' /\ GesamtbetragWieErwartet'
<1>3. SUFFICES ArtikelStimmen' /\ Korb /\ Laeufe
    BY <1>2 DEF KostenIInv, DialogTypeOK, ArtikelStimmen
<1> USE <1>1
<1>4. CASE \/ ArtikelSchritt /\ UNCHANGED dialogVars
           \/ \E p \in Puts, id \in Artikel, w \in NeueZeilen : PutVonAussen(p, id, w)
           \/ UNCHANGED <<artikelVars, dialogVars>>
    <2>1. UNCHANGED dialogVars
        BY <1>4 DEF PutVonAussen
    <2>2. Korb /\ Laeufe
        BY <2>1, KorbUnberuehrt, LaufUnberuehrt DEF dialogVars
    <2>3. ArtikelStimmen'
        BY <1>4, ArtikelPut, ArtikelNeu, ArtikelUnberuehrt DEF ArtikelSchritt
    <2> QED
        BY <2>2, <2>3
<1>5. CASE (\E k \in Benutzer : Login(k)) \/ LoginFehler
    <2>1. UNCHANGED artikelVars /\ UNCHANGED gespraechVars /\ UNCHANGED <<lauf, bestellungen>>
        BY <1>5 DEF Login, LoginFehler
    <2> QED
        BY <2>1, ArtikelUnberuehrt, KorbUnberuehrt, LaufUnberuehrt
<1>6. CASE Logout
    <2>1. Offene \in SUBSET Gespraeche
        BY DEF Offene
    <2>2. Beende(Offene) /\ UNCHANGED artikelVars /\ UNCHANGED <<lauf, bestellungen>>
        BY <1>6 DEF Logout
    <2> QED
        BY <2>1, <2>2, ArtikelUnberuehrt, BeendeKosten, LaufUnberuehrt
<1>7. ASSUME NEW g \in Gespraeche,
             \/ SelectArtikel(g)
             \/ \E id \in Artikel, b \in Bezeichnungen, c \in Preise :
                   Add(g, [id |-> id, bezeichnung |-> b, preis |-> c])
             \/ \E i \in 1..MaxPositionen : RemovePosition(g, i)
             \/ \E i \in 1..MaxPositionen, n \in 0..MaxAnzahl : SetAnzahl(g, i, n)
             \/ Zeitablauf(g)
      PROVE  ArtikelStimmen' /\ Korb /\ Laeufe
    <2>1. UNCHANGED artikelVars /\ UNCHANGED <<lauf, bestellungen>>
        BY <1>7 DEF SelectArtikel, Add, RemovePosition, SetAnzahl, Zeitablauf
    <2>2. ArtikelStimmen' /\ Laeufe
        BY <2>1, ArtikelUnberuehrt, LaufUnberuehrt
    <2>3. ASSUME SelectArtikel(g)
          PROVE  Korb
        BY <2>3, SelectArtikelKosten
    <2>4. ASSUME NEW id \in Artikel, NEW b \in Bezeichnungen, NEW c \in Preise,
                 Add(g, [id |-> id, bezeichnung |-> b, preis |-> c])
          PROVE  Korb
        <3>1. [id |-> id, bezeichnung |-> b, preis |-> c] \in Kopie
            BY DEF Kopie
        <3> QED
            BY <2>4, <3>1, AddKosten
    <2>5. ASSUME NEW i \in 1..MaxPositionen, RemovePosition(g, i)
          PROVE  Korb
        BY <2>5, RemovePositionKosten
    <2>6. ASSUME NEW i \in 1..MaxPositionen, NEW n \in 0..MaxAnzahl, SetAnzahl(g, i, n)
          PROVE  Korb
        <3>1. n \in Nat
            BY DialogAnnahme
        <3> QED
            BY <2>6, <3>1, SetAnzahlKosten
    <2>7. ASSUME Zeitablauf(g)
          PROVE  Korb
        BY <2>7, BeendeKosten DEF Zeitablauf
    <2> QED
        BY <1>7, <2>2, <2>3, <2>4, <2>5, <2>6, <2>7
<1>8. ASSUME NEW g \in Gespraeche, NEW id \in Artikel, NEW w \in NeueZeilen,
             CreateArtikelImDialog(g, id, w)
      PROVE  ArtikelStimmen' /\ Korb /\ Laeufe
    BY <1>8, ArtikelNeu, BeendeKosten, LaufUnberuehrt DEF CreateArtikelImDialog
<1>9. ASSUME NEW g \in Gespraeche,
             Bestellen(g) \/ CreateBestellung(g) \/ OhneBestellung(g) \/ AbbruchBestellen(g)
      PROVE  ArtikelStimmen' /\ Korb /\ Laeufe
    <2>1. ArtikelStimmen'
        BY <1>9, ArtikelUnberuehrt
        DEF Bestellen, CreateBestellung, OhneBestellung, AbbruchBestellen
    <2>2. Beende({g}) \/ UNCHANGED gespraechVars
        BY <1>9 DEF Bestellen, CreateBestellung, OhneBestellung, AbbruchBestellen,
                    EndConversation
    <2>3. Korb
        BY <2>2, BeendeKosten, KorbUnberuehrt
    <2>4. ASSUME Bestellen(g)
          PROVE  Laeufe
        BY <2>4, BestellenKosten
    <2>5. ASSUME CreateBestellung(g)
          PROVE  Laeufe
        BY <2>5, CreateBestellungKosten
    <2>6. ASSUME OhneBestellung(g) \/ AbbruchBestellen(g)
          PROVE  Laeufe
        BY <2>6, LaufEndeKosten DEF OhneBestellung, AbbruchBestellen
    <2> QED
        BY <1>9, <2>1, <2>3, <2>4, <2>5, <2>6
<1> QED
    BY <1>4, <1>5, <1>6, <1>7, <1>8, <1>9 DEF DialogNext

-----------------------------------------------------------------------------
(* The theorems.                                                           *)

\* DialogIInv is inductive: every step of the session, the conversations and
\* the requests from outside preserves it.
THEOREM DialogInduktion ==
    DialogIInv /\ [DialogNext]_<<artikelVars, dialogVars>> => DialogIInv'
<1> SUFFICES ASSUME DialogIInv, [DialogNext]_<<artikelVars, dialogVars>>
             PROVE  DialogIInv'
    OBVIOUS
<1>1. AblaufIInv /\ KostenIInv
    BY DEF DialogIInv
<1>2. AblaufIInv'
    BY <1>1, AblaufSchritt
<1>3. KostenIInv'
    BY <1>1, <1>2, KostenSchritt
<1> QED
    BY <1>2, <1>3 DEF DialogIInv

\* It holds in every state.
THEOREM DialogInvariante == DialogSpec => []DialogIInv
<1>1. DialogInit => DialogIInv
    BY InitAblauf, InitKosten DEF DialogIInv
<1> QED
    BY <1>1, DialogInduktion, PTL DEF DialogSpec

\* The types of the session, the conversations, the articles and the orders: a
\* position is never without an article or with a negative number of pieces.
THEOREM DialogTypen == DialogSpec => []DialogTypeOK
<1>1. DialogIInv => DialogTypeOK
    BY DEF DialogIInv, KostenIInv
<1> QED
    BY <1>1, DialogInvariante, PTL

\* An order costs what the customer has seen, whatever clients and employees
\* have done to the articles since, however the cart was filled and changed.
THEOREM WieGesehenBestellt == DialogSpec => []GesamtbetragWieErwartet
<1>1. DialogIInv => GesamtbetragWieErwartet
    BY DEF DialogIInv, KostenIInv
<1> QED
    BY <1>1, DialogInvariante, PTL

\* A cart is ordered once, in however many tabs the customer clicks, and
\* whoever logs out meanwhile.
THEOREM NurEinmalBestellt == DialogSpec => []WarenkorbNurEinmalBestellt
<1>1. AblaufIInv => WarenkorbNurEinmalBestellt
    <2> SUFFICES ASSUME AblaufIInv, NEW g \in Gespraeche
                 PROVE  Len(bestellungen[g]) <= 1
        BY DEF WarenkorbNurEinmalBestellt
    <2>1. CASE bestellungen[g] = <<>>
        BY <2>1
    <2>2. CASE bestellungen[g] # <<>>
        <3>1. PICK b : bestellungen[g] = <<b>>
            BY <2>2 DEF AblaufIInv, BestellungStimmt
        <3> QED
            BY <3>1
    <2> QED
        BY <2>1, <2>2
<1>2. DialogIInv => AblaufIInv
    BY DEF DialogIInv
<1> QED
    BY <1>1, <1>2, DialogInvariante, PTL

\* An order goes to the customer who has filled the cart.
THEOREM ImmerEigeneBestellung == DialogSpec => []NurEigeneBestellung
<1>1. AblaufIInv => NurEigeneBestellung
    <2> SUFFICES ASSUME AblaufIInv, NEW g \in Gespraeche, NEW n \in DOMAIN bestellungen[g]
                 PROVE  bestellungen[g][n].besitzer \subseteq {bestellungen[g][n].kunde}
        BY DEF NurEigeneBestellung, Bestellt
    <2>1. CASE bestellungen[g] = <<>>
        BY <2>1
    <2>2. CASE bestellungen[g] # <<>>
        <3>1. /\ bestellungen[g] = <<bestellungen[g][1]>>
              /\ bestellungen[g][1].besitzer \subseteq {bestellungen[g][1].kunde}
            BY <2>2 DEF AblaufIInv, BestellungStimmt
        <3>2. DOMAIN bestellungen[g] = {1}
            BY <3>1
        <3> QED
            BY <3>1, <3>2
    <2> QED
        BY <2>1, <2>2
<1>2. DialogIInv => AblaufIInv
    BY DEF DialogIInv
<1> QED
    BY <1>1, <1>2, DialogInvariante, PTL

=============================================================================
