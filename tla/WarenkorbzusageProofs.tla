------------------------ MODULE WarenkorbzusageProofs -----------------------
(***************************************************************************)
(* Bestellverwaltung implements Warenkorbzusage: the initial states map to *)
(* initial states, and each step to a step or to none.                     *)
(***************************************************************************)
EXTENDS BestellverwaltungProofs

-----------------------------------------------------------------------------
(* The refinement mapping. *)

\* Since no two orders share a line, the order a line is in is determined.
LEMMA BestellungEindeutig ==
    ASSUME NurEinmalBestellt, NEW b \in bestellungen, NEW p \in tx[b].positionen
    PROVE  Bestellt(p) /\ BestellungVon(p) = b
<1>1. \E c \in bestellungen : p \in tx[c].positionen
    OBVIOUS
<1> DEFINE c == CHOOSE d \in bestellungen : p \in tx[d].positionen
<1>2. c \in bestellungen /\ p \in tx[c].positionen
    BY <1>1
<1>3. c = b
    BY <1>2 DEF NurEinmalBestellt
<1> QED
    BY <1>1, <1>3 DEF Bestellt, BestellungVon

\* The same in the next state.
LEMMA BestellungEindeutigDanach ==
    ASSUME NurEinmalBestellt', NEW b \in bestellungen', NEW p \in tx'[b].positionen
    PROVE  Bestellt(p)' /\ BestellungVon(p)' = b
<1>1. \E c \in bestellungen' : p \in tx'[c].positionen
    OBVIOUS
<1> DEFINE c == CHOOSE d \in bestellungen' : p \in tx'[d].positionen
<1>2. c \in bestellungen' /\ p \in tx'[c].positionen
    BY <1>1
<1>3. c = b
    BY <1>2 DEF NurEinmalBestellt
<1> QED
    BY <1>1, <1>3 DEF Bestellt, BestellungVon

\* A line that is in the same order before and after a step, or in none,
\* belongs to the same order.
LEMMA BestellungBleibt ==
    ASSUME NurEinmalBestellt, NurEinmalBestellt', NEW p,
           \A b \in bestellungen : b \in bestellungen' /\ tx'[b].positionen = tx[b].positionen,
           \A b \in bestellungen' : b \in bestellungen \/ p \notin tx'[b].positionen
    PROVE  Bestellt(p)' = Bestellt(p) /\ BestellungVon(p)' = BestellungVon(p)
<1>1. CASE \E b \in bestellungen : p \in tx[b].positionen
  <2>1. PICK b \in bestellungen : p \in tx[b].positionen
      BY <1>1
  <2>2. b \in bestellungen' /\ p \in tx'[b].positionen
      BY <2>1
  <2>3. Bestellt(p)' = Bestellt(p)
      BY <2>1, <2>2 DEF Bestellt
  <2>4. BestellungVon(p)' = BestellungVon(p)
      BY <2>1, <2>2, BestellungEindeutig, BestellungEindeutigDanach
  <2> QED
      BY <2>3, <2>4
<1>2. CASE ~ \E b \in bestellungen : p \in tx[b].positionen
  <2>1. ~ \E b \in bestellungen' : p \in tx'[b].positionen
      BY <1>2
  <2> QED
      BY <1>2, <2>1 DEF Bestellt, BestellungVon
<1> QED
    BY <1>1, <1>2

\* A step of a request that has not laid down a line and does not commit
\* anything of carts and orders is not seen.
LEMMA Unsichtbar ==
    ASSUME IInv, IInv', NEW r \in Anfragen, pc[r] # "fertig",
           UNCHANGED <<warenkorb, bestellungen>>,
           \A s \in Anfragen \ {r} : tx'[s] = tx[s] /\ pc'[s] = pc[s],
           ~ Abgelegt(r)'
    PROVE  UNCHANGED Zusage!vars
<1>1. r \notin bestellungen /\ bestellungen \subseteq Anfragen
    BY Unbeteiligt DEF IInv, TypeOK
<1>2. \A b \in bestellungen : tx'[b].positionen = tx[b].positionen
    BY <1>1
<1>3. ASSUME NEW p \in Anfragen
      PROVE  Bestellt(p)' = Bestellt(p) /\ BestellungVon(p)' = BestellungVon(p)
    BY <1>2, BestellungBleibt DEF IInv
<1>4. ASSUME NEW p \in Anfragen
      PROVE  Abgelegt(p)' = Abgelegt(p) /\ Eigner(p)' = Eigner(p)
  <2>1. CASE p = r
      BY <2>1 DEF Abgelegt, Eigner
  <2>2. CASE p # r
      BY <2>2 DEF Abgelegt, Eigner
  <2> QED
      BY <2>1, <2>2
<1>5. \A p \in Anfragen : Status(p)' = Status(p)
    BY <1>3, <1>4 DEF Status
<1> QED
    BY <1>3, <1>4, <1>5 DEF Zusage!vars

-----------------------------------------------------------------------------
(* The steps that are seen. *)

\* createWarenkorbposition puts a line into the cart.
LEMMA CreateWarenkorbpositionZusage ==
    ASSUME IInv, IInv', NEW r \in Anfragen, CreateWarenkorbposition(r)
    PROVE  Zusage!Next
<1> DEFINE k == tx[r].kunde
<1>1. /\ pc[r] = "gelesen" /\ pc'[r] = "fertig" /\ tx[r].art = "position"
      /\ \A s \in Anfragen \ {r} : pc'[s] = pc[s]
      /\ tx' = tx /\ bestellungen' = bestellungen /\ warenkorb' = warenkorb \cup {r}
      /\ k \in Kunden
    BY DEF CreateWarenkorbposition, Weiter, IInv, TypeOK
<1>2. r \notin warenkorb /\ r \notin bestellungen /\ \A s \in Anfragen : r \notin tx[s].positionen
    BY <1>1, Unbeteiligt
<1>3. ASSUME NEW p \in Anfragen
      PROVE  Bestellt(p)' = Bestellt(p) /\ BestellungVon(p)' = BestellungVon(p)
    BY <1>1, BestellungBleibt DEF IInv
<1>4. ~ Bestellt(r)
    BY <1>2 DEF Bestellt, IInv, TypeOK
<1>5. Status(r) = "neu" /\ Status(r)' = "offen" /\ Eigner(r)' = k
    BY <1>1, <1>2, <1>3, <1>4 DEF Status, Abgelegt, Eigner
<1>6. \A p \in Anfragen \ {r} : Status(p)' = Status(p) /\ Eigner(p)' = Eigner(p)
    BY <1>1, <1>3 DEF Status, Abgelegt, Eigner
<1>7. Zusage!Ablegen(r, k)
    BY <1>3, <1>5, <1>6 DEF Zusage!Ablegen, Zusage!Setze
<1> QED
    BY <1>1, <1>7 DEF Zusage!Next

\* A commit that only removes the lines it has locked.
LEMMA EntfernenZusage ==
    ASSUME IInv, IInv', NEW r \in Anfragen, pc[r] = "geleert", tx[r].art # "position",
           warenkorb' = warenkorb \ gesperrt[r],
           tx' = tx,
           \A s \in Anfragen \ {r} : pc'[s] = pc[s],
           \A b \in bestellungen : b \in bestellungen',
           \A b \in bestellungen' : b \in bestellungen \/ tx[b].positionen = {}
    PROVE  [Zusage!Next]_(Zusage!vars)
<1> DEFINE L == gesperrt[r] \cap warenkorb
<1>1. L \in SUBSET Anfragen /\ \A p \in L : Abgelegt(p)
    BY DEF IInv, TypeOK, SperrenInv
<1>2. ASSUME NEW p \in Anfragen
      PROVE  Bestellt(p)' = Bestellt(p) /\ BestellungVon(p)' = BestellungVon(p)
    BY BestellungBleibt DEF IInv
<1>3. \A p \in Anfragen : Abgelegt(p)' = Abgelegt(p) /\ Eigner(p)' = Eigner(p)
    BY DEF Abgelegt, Eigner
<1>4. \A p \in L : ~ Bestellt(p)
    BY DEF Bestellt, IInv, BestellteSindGeleert
<1>5. \A p \in L : Status(p) = "offen" /\ Status(p)' = "entfernt"
    BY <1>1, <1>2, <1>3, <1>4 DEF Status
<1>6. \A p \in Anfragen \ L : Status(p)' = Status(p)
    BY <1>2, <1>3 DEF Status
<1>7. CASE L = {}
    BY <1>2, <1>3, <1>6, <1>7 DEF Zusage!vars
<1>8. CASE L # {}
  <2>1. Zusage!Entfernen(L)
      BY <1>1, <1>2, <1>3, <1>5, <1>6, <1>8 DEF Zusage!Entfernen, Zusage!Setze
  <2> QED
      BY <1>1, <2>1 DEF Zusage!Next
<1> QED
    BY <1>7, <1>8

\* WarenkorbRemover
LEMMA CommitAlteWarenkoerbeZusage ==
    ASSUME IInv, IInv', NEW r \in Anfragen, CommitAlteWarenkoerbe(r)
    PROVE  [Zusage!Next]_(Zusage!vars)
<1>1. /\ pc[r] = "geleert" /\ tx[r].art # "position" /\ tx' = tx
      /\ warenkorb' = warenkorb \ gesperrt[r] /\ bestellungen' = bestellungen
      /\ \A s \in Anfragen \ {r} : pc'[s] = pc[s]
    BY DEF CommitAlteWarenkoerbe, Weiter, IInv, TypeOK
<1> QED
    BY <1>1, EntfernenZusage

\* An order with lines of the cart: all of them were free, and in the cart of
\* the same customer or removed from it.
LEMMA CommitMitPositionenZusage ==
    ASSUME IInv, IInv', NEW r \in Anfragen, CommitBestellung(r), tx[r].positionen # {}
    PROVE  Zusage!Next
<1> DEFINE k == tx[r].kunde
           S == tx[r].positionen
           L == (gesperrt[r] \cap warenkorb) \ S
<1>1. /\ tx[r].art = "warenkorb" /\ pc[r] = "geleert" /\ AmBestellen(r)
      /\ tx' = tx /\ bestellungen' = bestellungen \cup {r}
      /\ warenkorb' = warenkorb \ gesperrt[r]
      /\ \A s \in Anfragen \ {r} : pc'[s] = pc[s]
    BY DEF CommitBestellung, BereitZumBestellen, AmBestellen, Weiter, IInv, TypeOK, PositionenInv
<1>2. r \notin bestellungen
    BY <1>1, Unbeteiligt
<1>3. k \in Kunden /\ tx[r].ziel = {k} /\ tx[r].gelesen[k] = version[k]
    BY <1>1 DEF CommitBestellung, VersionAktuell, IInv, VersionInv
<1>4. \A b \in bestellungen : tx[b].positionen \cap S = {}
    BY <1>1, <1>3 DEF IInv, VersionInv
<1>5. /\ S \in SUBSET Anfragen /\ L \in SUBSET Anfragen /\ S \cap L = {}
      /\ \A p \in S \cup L : Abgelegt(p) /\ tx[p].kunde = k
    BY <1>1 DEF IInv, TypeOK, Transaktion, PositionenInv, SperrenInv
<1>6. \A p \in S : ~ Bestellt(p) /\ p \notin warenkorb'
    BY <1>1, <1>4 DEF Bestellt, IInv, BestellteSindGeleert
<1>7. \A p \in L : ~ Bestellt(p)
    BY DEF Bestellt, IInv, BestellteSindGeleert
<1>8. \A p \in S : Bestellt(p)' /\ BestellungVon(p)' = r
    BY <1>1, BestellungEindeutigDanach DEF IInv
<1>9. ASSUME NEW p \in Anfragen \ S
      PROVE  Bestellt(p)' = Bestellt(p) /\ BestellungVon(p)' = BestellungVon(p)
    BY <1>1, BestellungBleibt DEF IInv
<1>10. \A p \in Anfragen : Abgelegt(p)' = Abgelegt(p) /\ Eigner(p)' = Eigner(p)
    BY <1>1 DEF Abgelegt, Eigner
<1>11. S \in SUBSET Zusage!Bestellbar(k) /\ L \in SUBSET Zusage!Offen(k)
    BY <1>5, <1>6, <1>7 DEF Zusage!Bestellbar, Zusage!Offen, Status, Eigner
<1>12. /\ \A p \in S : Status(p)' = "bestellt"
       /\ \A p \in L : Status(p)' = "entfernt"
       /\ \A p \in Anfragen \ (S \cup L) : Status(p)' = Status(p)
    BY <1>1, <1>5, <1>7, <1>8, <1>9, <1>10 DEF Status
<1>13. \A p \in Anfragen : BestellungVon(p) # r
  <2> SUFFICES ASSUME NEW p \in Anfragen, BestellungVon(p) = r PROVE FALSE
      OBVIOUS
  <2>1. CASE \E b \in bestellungen : p \in tx[b].positionen
    <3>1. PICK b \in bestellungen : p \in tx[b].positionen
        BY <2>1
    <3> QED
        BY <1>2, <3>1, BestellungEindeutig DEF IInv
  <2>2. CASE ~ \E b \in bestellungen : p \in tx[b].positionen
      BY <2>2, KonstantenAnnahme DEF BestellungVon, Bestellt
  <2> QED
      BY <2>1, <2>2
<1>14. Zusage!Bestellen(r, k, S, L)
    BY <1>5, <1>8, <1>9, <1>10, <1>12, <1>13 DEF Zusage!Bestellen, Zusage!Setze
<1> QED
    BY <1>3, <1>11, <1>14 DEF Zusage!Next

\* BestellungService.createBestellung, with lines of the cart or without
LEMMA CommitBestellungZusage ==
    ASSUME IInv, IInv', NEW r \in Anfragen, CommitBestellung(r)
    PROVE  [Zusage!Next]_(Zusage!vars)
<1>1. CASE tx[r].positionen # {}
    BY <1>1, CommitMitPositionenZusage
<1>2. CASE tx[r].positionen = {}
  <2>1. /\ pc[r] \in {"geleert", "erfasst"} /\ tx[r].art # "position" /\ tx' = tx
        /\ warenkorb' = warenkorb \ gesperrt[r] /\ bestellungen' = bestellungen \cup {r}
        /\ \A s \in Anfragen \ {r} : pc'[s] = pc[s]
      BY DEF CommitBestellung, BereitZumBestellen, Weiter, IInv, TypeOK
  <2>2. CASE pc[r] = "geleert"
      BY <1>2, <2>1, <2>2, EntfernenZusage
  <2>3. CASE pc[r] = "erfasst"
    <3>1. gesperrt[r] = {}
        BY <2>3 DEF IInv, SperrenInv
    <3>2. warenkorb' = warenkorb
        BY <2>1, <3>1
    <3>3. ASSUME NEW p \in Anfragen
          PROVE  Bestellt(p)' = Bestellt(p) /\ BestellungVon(p)' = BestellungVon(p)
        BY <1>2, <2>1, BestellungBleibt DEF IInv
    <3>4. \A p \in Anfragen : Abgelegt(p)' = Abgelegt(p) /\ Eigner(p)' = Eigner(p)
        BY <2>1 DEF Abgelegt, Eigner
    <3>5. \A p \in Anfragen : Status(p)' = Status(p)
        BY <3>2, <3>3, <3>4 DEF Status
    <3> QED
        BY <3>3, <3>4, <3>5 DEF Zusage!vars
  <2> QED
      BY <2>1, <2>2, <2>3
<1> QED
    BY <1>1, <1>2

-----------------------------------------------------------------------------
(* The steps that are not. *)

\* A request begins.
LEMMA EingangZusage ==
    ASSUME IInv, IInv', NEW r \in Anfragen, Eingang(r)
    PROVE  UNCHANGED Zusage!vars
<1>1. /\ pc[r] = "bereit" /\ UNCHANGED <<warenkorb, bestellungen>>
      /\ \A s \in Anfragen \ {r} : pc'[s] = pc[s]
      /\ \A s \in Anfragen \ {r} : tx'[s] = tx[s]
    BY DEF Eingang, LiesKunde, LiesZuLoeschenden, SucheKunden, DeleteAlteWarenkoerbe, Beginn,
           Weiter, dbVars, IInv, TypeOK
<1>2. ~ Abgelegt(r)'
  <2>1. CASE \E k \in Kunden, a \in Arten : LiesKunde(r, a, k)
      BY <2>1 DEF LiesKunde, Weiter, Abgelegt, IInv, TypeOK
  <2>2. CASE \E k \in Kunden : LiesZuLoeschenden(r, k)
      BY <2>2 DEF LiesZuLoeschenden, Beginn, Abgelegt, IInv, TypeOK
  <2>3. CASE SucheKunden(r) \/ DeleteAlteWarenkoerbe(r)
      BY <2>3 DEF SucheKunden, DeleteAlteWarenkoerbe, Weiter, Abgelegt, IInv, TypeOK
  <2> QED
      BY <2>1, <2>2, <2>3 DEF Eingang
<1> QED
    BY <1>1, <1>2, Unsichtbar

\* A request goes on, ends without a commit, or deletes a customer.
LEMMA ZwischenschrittZusage ==
    ASSUME IInv, IInv', NEW r \in Anfragen,
           \/ VerwerfeWarenkorbposition(r) \/ LiesPositionen(r) \/ CreateBestellung(r)
           \/ LeereWarenkorb(r) \/ VerwerfeBestellung(r) \/ PruefeKunden(r)
           \/ CommitLoeschen(r) \/ VerwerfeLoeschen(r) \/ Abbruch(r)
    PROVE  UNCHANGED Zusage!vars
<1> USE DEF VerwerfeWarenkorbposition, LiesPositionen, CreateBestellung, LeereWarenkorb,
            VerwerfeBestellung, PruefeKunden, CommitLoeschen, VerwerfeLoeschen, Abbruch,
            Rollback, BereitZumBestellen, BereitZumLoeschen, Beendet, Weiter, dbVars
<1>1. pc[r] # "fertig" /\ UNCHANGED <<warenkorb, bestellungen>>
    OBVIOUS
<1>2. \A s \in Anfragen \ {r} : pc'[s] = pc[s]
    BY DEF IInv, TypeOK
<1>3. \A s \in Anfragen \ {r} : tx'[s] = tx[s]
    BY DEF IInv, TypeOK
<1>4. ~ Abgelegt(r)'
    BY DEF Abgelegt, IInv, TypeOK
<1> QED
    BY <1>1, <1>2, <1>3, <1>4, Unsichtbar

\* Mails and days do not matter to the carts.
LEMMA UmgebungZusage ==
    ASSUME UNCHANGED <<dbVars, txVars>>
    PROVE  UNCHANGED Zusage!vars
<1>1. \A p \in Anfragen : Status(p)' = Status(p) /\ Eigner(p)' = Eigner(p)
                            /\ BestellungVon(p)' = BestellungVon(p)
    BY DEF dbVars, txVars, Status, Eigner, BestellungVon, Bestellt, Abgelegt
<1> QED
    BY <1>1 DEF Zusage!vars

\* Each step maps to a step of Warenkorbzusage or to none.
LEMMA NextZusage ==
    ASSUME IInv, IInv', [Next]_vars
    PROVE  [Zusage!Next]_(Zusage!vars)
<1>1. ASSUME NEW r \in Anfragen, Eingang(r) PROVE UNCHANGED Zusage!vars
    BY <1>1, EingangZusage
<1>2. ASSUME NEW r \in Anfragen, Schritt(r) \/ Abbruch(r)
      PROVE  [Zusage!Next]_(Zusage!vars)
    BY <1>2, CreateWarenkorbpositionZusage, CommitBestellungZusage,
       CommitAlteWarenkoerbeZusage, ZwischenschrittZusage DEF Schritt
<1>3. CASE (\E r \in Anfragen : OnCreateBestellung(r)) \/ NaechsterTag \/ UNCHANGED vars
  <2>1. UNCHANGED <<dbVars, txVars>>
      BY <1>3 DEF OnCreateBestellung, NaechsterTag, vars
  <2> QED
      BY <2>1, UmgebungZusage
<1> QED
    BY <1>1, <1>2, <1>3 DEF Next, Ende

\* Before the first request no line is in a cart or an order.
LEMMA InitZusage == Init => Zusage!Init
<1> SUFFICES ASSUME Init PROVE Zusage!Init
    OBVIOUS
<1>1. \A p \in Anfragen : Status(p) = "neu" /\ Eigner(p) = Niemand /\ BestellungVon(p) = Niemand
    BY DEF Init, Leer, Status, Eigner, BestellungVon, Bestellt, Abgelegt
<1> QED
    BY <1>1 DEF Zusage!Init

\* ErfuelltZusage: whatever the interleaving of orders, cart lines, deletions,
\* jobs and failures, a cart line lives as Warenkorbzusage says, for any number
\* of customers and requests (BestellungService, WarenkorbRemover).
THEOREM ZusageErfuellt == Spec => ErfuelltZusage
<1>1. Init => Zusage!Init
    BY InitZusage
<1>2. IInv /\ IInv' /\ [Next]_vars => [Zusage!Next]_(Zusage!vars)
    BY NextZusage
<1> QED
    BY <1>1, <1>2, Induktion, PTL DEF Spec, ErfuelltZusage, Zusage!Spec

=============================================================================
