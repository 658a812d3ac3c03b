----------------------- MODULE BestellverwaltungProofs -----------------------
(***************************************************************************)
(* Proofs about Bestellverwaltung for any number of customers, requests,   *)
(* orders and cart lines.                                                  *)
(***************************************************************************)
EXTENDS Bestellverwaltung, TLAPS

-----------------------------------------------------------------------------
(* The order list.                                                         *)

\* Wherever a list of orders ends at all, Listenlaenge finds the end
\* (the size of AbstractKunde.bestellungen after loading).
LEMMA ListenlaengeEndet ==
    ASSUME NEW I \in SUBSET Nat, NEW m \in Nat, Endet(I, m)
    PROVE  /\ Listenlaenge(I) \in Nat
           /\ Endet(I, Listenlaenge(I))
<1>1. m \in {0} \cup {i + 1 : i \in I}
    BY DEF Endet
<1>2. Listenlaenge(I) \in {0} \cup {i + 1 : i \in I} /\ Endet(I, Listenlaenge(I))
    BY <1>1 DEF Listenlaenge
<1> QED
    BY <1>2

\* The place behind the end is free, and a list extended there ends one later.
LEMMA ListeVerlaengern ==
    ASSUME NEW I \in SUBSET Nat, NEW n \in Nat, Endet(I, n)
    PROVE  n \notin I /\ Endet(I \cup {n}, n + 1)
    BY DEF Endet

-----------------------------------------------------------------------------
(* The initial states.                                                     *)

\* IInv holds before the first request.
LEMMA InitIInv == Init => IInv
<1> SUFFICES ASSUME Init PROVE IInv
    OBVIOUS
<1>1. TypeOK
    BY KonstantenAnnahme DEF Init, TypeOK, Leer, Transaktion, Arten, Stufen
<1>2. \A k \in Kunden : Indizes(k) = {}
    BY DEF Init, Indizes, BestellungenVon
<1>3. ListenInv
  <2>1. Endet({}, 0)
      BY DEF Endet
  <2> QED
      BY <1>2, <2>1, ListenlaengeEndet DEF ListenInv
<1>4. VersionInv
    BY DEF Init, VersionInv, AmBestellen, Leer
<1> QED
    BY <1>1, <1>3, <1>4
    DEF Init, IInv, ZeilenInv, PositionenInv, SperrenInv, GeleertInv, NurEinmalBestellt,
        BestellteSindGeleert, LueckenloseListe, KeineWaisen, Leer, BestellungenVon

-----------------------------------------------------------------------------
(* Steps that begin a transaction.                                         *)

\* A request that has not begun has left no trace in anyone's data.
LEMMA Unbeteiligt ==
    ASSUME IInv, NEW r \in Anfragen, pc[r] \notin {"fertig"}
    PROVE  /\ r \notin bestellungen
           /\ r \notin warenkorb
           /\ \A s \in Anfragen : r \notin tx[s].positionen /\ r \notin gesperrt[s]
    BY DEF IInv, ZeilenInv, PositionenInv, SperrenInv, Abgelegt

\* Beginn builds a well-typed transaction with the current versions of S and
\* the current end of the list of k.
LEMMA BeginnTyp ==
    ASSUME IInv, NEW r \in Anfragen, NEW a \in Arten,
           NEW k \in Kunden \cup {Niemand}, NEW S \in SUBSET Kunden, Beginn(r, a, k, S)
    PROVE  /\ tx' \in [Anfragen -> Transaktion]
           /\ \A s \in Anfragen \ {r} : tx'[s] = tx[s]
           /\ tx'[r].art = a
           /\ tx'[r].kunde = k
           /\ tx'[r].ziel = S
           /\ tx'[r].positionen = {}
           /\ \A j \in S : tx'[r].gelesen[j] = version[j]
           /\ k \in Kunden => Endet(Indizes(k), tx'[r].idx)
<1>1. ASSUME k \in Kunden
      PROVE  Listenlaenge(Indizes(k)) \in Nat /\ Endet(Indizes(k), Listenlaenge(Indizes(k)))
  <2>1. Indizes(k) \in SUBSET Nat
      BY DEF IInv, TypeOK, Transaktion, Indizes, BestellungenVon
  <2>2. Endet(Indizes(k), Listenlaenge(Indizes(k)))
      BY <1>1 DEF IInv, ListenInv
  <2>3. Listenlaenge(Indizes(k)) \in {0} \cup {i + 1 : i \in Indizes(k)}
      BY <2>2 DEF Endet, Listenlaenge
  <2> QED
      BY <2>1, <2>2, <2>3
<1>2. tx \in [Anfragen -> Transaktion] /\ version \in [Kunden -> Nat]
    BY DEF IInv, TypeOK
<1> QED
    BY <1>1, <1>2 DEF Beginn, Transaktion

\* A transaction that begins disturbs no committed row and no other request.
LEMMA BeginnIInv ==
    ASSUME IInv, NEW r \in Anfragen, pc[r] = "bereit",
           NEW a \in Arten, NEW k \in Kunden \cup {Niemand}, NEW S \in SUBSET Kunden,
           NEW stufe \in Stufen,
           Beginn(r, a, k, S), Weiter(r, stufe),
           a \in {"warenkorb", "direkt"} =>
               stufe \in {"gelesen", "abgelehnt"} /\ (stufe = "gelesen" => k \in kunden /\ S = {k}),
           gesperrt' \in [Anfragen -> SUBSET Anfragen],
           \A s \in Anfragen \ {r} : gesperrt'[s] = gesperrt[s],
           SperrenInv',
           UNCHANGED <<dbVars, mailVars, heute>>
    PROVE  IInv'
<1> USE DEF dbVars, mailVars, Weiter
<1>1. r \notin bestellungen /\ r \notin warenkorb
          /\ \A s \in Anfragen : r \notin tx[s].positionen /\ r \notin gesperrt[s]
    BY Unbeteiligt
<1>2. /\ tx' \in [Anfragen -> Transaktion]
      /\ \A s \in Anfragen \ {r} : tx'[s] = tx[s]
      /\ tx'[r].art = a
      /\ tx'[r].kunde = k
      /\ tx'[r].ziel = S
      /\ tx'[r].positionen = {}
      /\ \A j \in S : tx'[r].gelesen[j] = version[j]
      /\ k \in Kunden => Endet(Indizes(k), tx'[r].idx)
    BY BeginnTyp
<1>3. pc \in [Anfragen -> Stufen] /\ pc' \in [Anfragen -> Stufen]
          /\ pc'[r] = stufe /\ \A s \in Anfragen \ {r} : pc'[s] = pc[s]
    BY DEF IInv, TypeOK
<1>4. TypeOK'
    BY <1>2, <1>3 DEF IInv, TypeOK
<1>5. \A b \in bestellungen : b \in Anfragen /\ b # r /\ tx'[b] = tx[b] /\ pc'[b] = pc[b]
    BY <1>1, <1>2, <1>3 DEF IInv, TypeOK
<1>6. \A p \in warenkorb : p \in Anfragen /\ p # r /\ tx'[p] = tx[p] /\ pc'[p] = pc[p]
    BY <1>1, <1>2, <1>3 DEF IInv, TypeOK
<1>7. ZeilenInv'
    BY <1>5, <1>6 DEF IInv, ZeilenInv, Abgelegt
<1>8. PositionenInv'
  <2> SUFFICES ASSUME NEW s \in Anfragen
               PROVE  /\ \A p \in tx'[s].positionen : Abgelegt(p)' /\ tx'[p].kunde = tx'[s].kunde
                      /\ tx'[s].positionen # {} => tx'[s].art = "warenkorb"
      BY DEF PositionenInv
  <2>1. CASE s = r
      BY <2>1, <1>2
  <2>2. CASE s # r
    <3>1. \A p \in tx[s].positionen : p \in Anfragen /\ p # r
        BY <1>1 DEF IInv, TypeOK, Transaktion
    <3> QED
        BY <2>2, <3>1, <1>2, <1>3 DEF IInv, PositionenInv, Abgelegt
  <2> QED
      BY <2>1, <2>2
<1>9. \A j \in Kunden : BestellungenVon(j)' = BestellungenVon(j) /\ Indizes(j)' = Indizes(j)
    BY <1>5 DEF BestellungenVon, Indizes
<1>10. VersionInv'
  <2> SUFFICES ASSUME NEW s \in Anfragen, AmBestellen(s)'
               PROVE  /\ tx'[s].kunde \in Kunden
                      /\ tx'[s].ziel = {tx'[s].kunde}
                      /\ \A j \in tx'[s].ziel :
                            /\ tx'[s].gelesen[j] <= version[j]
                            /\ tx'[s].gelesen[j] = version[j] =>
                                 /\ \A b \in bestellungen :
                                       tx'[b].positionen \cap tx'[s].positionen = {}
                                 /\ Endet(Indizes(j)', tx'[s].idx)
      BY DEF VersionInv, Endet
  <2>1. CASE s = r
    <3>1. a \in {"warenkorb", "direkt"} /\ stufe = "gelesen"
        BY <2>1, <1>2, <1>3 DEF AmBestellen
    <3>2. k \in Kunden /\ S = {k}
        BY <3>1 DEF IInv, TypeOK
    <3>3. version[k] \in Nat
        BY <3>2 DEF IInv, TypeOK
    <3> QED
        BY <2>1, <3>2, <3>3, <1>2, <1>9
  <2>2. CASE s # r
    <3>1. AmBestellen(s)
        BY <2>2, <1>2, <1>3 DEF AmBestellen
    <3>2. /\ tx[s].kunde \in Kunden
          /\ tx[s].ziel = {tx[s].kunde}
          /\ \A j \in tx[s].ziel :
                /\ tx[s].gelesen[j] <= version[j]
                /\ tx[s].gelesen[j] = version[j] =>
                     /\ \A b \in bestellungen : tx[b].positionen \cap tx[s].positionen = {}
                     /\ Endet(Indizes(j), tx[s].idx)
        BY <3>1 DEF IInv, VersionInv
    <3> QED
        BY <2>2, <3>2, <1>2, <1>5, <1>9
  <2> QED
      BY <2>1, <2>2
<1>11. GeleertInv'
    BY <1>2, <1>3 DEF IInv, GeleertInv
<1>12. ListenInv'
    BY <1>9 DEF IInv, ListenInv
<1>13. NurEinmalBestellt' /\ BestellteSindGeleert'
    BY <1>5 DEF IInv, NurEinmalBestellt, BestellteSindGeleert
<1>14. LueckenloseListe'
    BY <1>5, <1>9 DEF IInv, LueckenloseListe, BestellungenVon
<1>15. KeineWaisen'
    BY <1>5, <1>6 DEF IInv, KeineWaisen
<1> QED
    BY <1>4, <1>7, <1>8, <1>10, <1>11, <1>12, <1>13, <1>14, <1>15 DEF IInv

\* Steps that only begin, without a DELETE: the locks stay as they are.
LEMMA SperrenBeginn ==
    ASSUME IInv, NEW r \in Anfragen, pc[r] = "bereit",
           NEW a \in Arten, NEW k \in Kunden \cup {Niemand}, NEW S \in SUBSET Kunden,
           NEW stufe \in Stufen,
           Beginn(r, a, k, S), Weiter(r, stufe), UNCHANGED <<dbVars, gesperrt, heute>>
    PROVE  SperrenInv'
<1>1. r \notin bestellungen /\ r \notin warenkorb
          /\ \A s \in Anfragen : r \notin tx[s].positionen /\ r \notin gesperrt[s]
    BY Unbeteiligt
<1>2. \A s \in Anfragen \ {r} : tx'[s] = tx[s] /\ pc'[s] = pc[s]
    BY BeginnTyp DEF Weiter, IInv, TypeOK
<1>3. gesperrt[r] = {}
    BY DEF IInv, SperrenInv, TypeOK
<1>4. \A s \in Anfragen : gesperrt[s] \subseteq Anfragen
    BY DEF IInv, TypeOK
<1> QED
    BY <1>1, <1>2, <1>3, <1>4 DEF IInv, SperrenInv, Abgelegt, dbVars

LEMMA LiesKundeIInv ==
    ASSUME IInv, NEW r \in Anfragen, NEW a \in Arten, NEW k \in Kunden, LiesKunde(r, a, k)
    PROVE  IInv'
<1> DEFINE S == IF a = "position" THEN {} ELSE {k} \cap kunden
           stufe == IF k \in kunden THEN "gelesen" ELSE "abgelehnt"
<1>1. S \in SUBSET Kunden /\ stufe \in Stufen
    BY DEF Stufen
<1>2. pc[r] = "bereit" /\ Beginn(r, a, k, S) /\ Weiter(r, stufe)
          /\ UNCHANGED <<dbVars, gesperrt, mailVars, heute>>
    BY DEF LiesKunde
<1>3. SperrenInv'
    BY <1>1, <1>2, SperrenBeginn
<1>4. a \in {"warenkorb", "direkt"} =>
          stufe \in {"gelesen", "abgelehnt"} /\ (stufe = "gelesen" => k \in kunden /\ S = {k})
    OBVIOUS
<1>5. gesperrt' \in [Anfragen -> SUBSET Anfragen] /\ \A s \in Anfragen \ {r} : gesperrt'[s] = gesperrt[s]
    BY <1>2 DEF IInv, TypeOK
<1> HIDE DEF S, stufe
<1> QED
    BY <1>1, <1>2, <1>3, <1>4, <1>5, BeginnIInv

LEMMA LiesZuLoeschendenIInv ==
    ASSUME IInv, NEW r \in Anfragen, NEW k \in Kunden, LiesZuLoeschenden(r, k)
    PROVE  IInv'
<1> DEFINE S == {k} \cap kunden
           stufe == IF k \notin kunden THEN "fertig"
                    ELSE IF BestellungenVon(k) # {} THEN "abgelehnt" ELSE "gelesen"
           a == "loeschen"
<1>1. S \in SUBSET Kunden /\ stufe \in Stufen /\ a \in Arten
    BY DEF Stufen, Arten
<1>2. pc[r] = "bereit" /\ Beginn(r, a, k, S) /\ Weiter(r, stufe)
          /\ UNCHANGED <<dbVars, gesperrt, mailVars, heute>> /\ a \notin {"warenkorb", "direkt"}
    BY DEF LiesZuLoeschenden
<1>3. gesperrt' \in [Anfragen -> SUBSET Anfragen] /\ \A s \in Anfragen \ {r} : gesperrt'[s] = gesperrt[s]
    BY <1>2 DEF IInv, TypeOK
<1> HIDE DEF S, stufe, a
<1>4. SperrenInv'
    BY <1>1, <1>2, SperrenBeginn
<1> QED
    BY <1>1, <1>2, <1>3, <1>4, BeginnIInv

LEMMA SucheKundenIInv ==
    ASSUME IInv, NEW r \in Anfragen, SucheKunden(r)
    PROVE  IInv'
<1> DEFINE S == KundenOhneBestellungen \ Admins
           stufe == "befuellt"
           a == "kundeRemover"
<1>1. S \in SUBSET Kunden /\ stufe \in Stufen /\ a \in Arten
    BY DEF Stufen, Arten, KundenOhneBestellungen, IInv, TypeOK
<1>2. pc[r] = "bereit" /\ Beginn(r, a, Niemand, S) /\ Weiter(r, stufe)
          /\ UNCHANGED <<dbVars, gesperrt, mailVars, heute>> /\ a \notin {"warenkorb", "direkt"}
    BY DEF SucheKunden
<1>3. gesperrt' \in [Anfragen -> SUBSET Anfragen] /\ \A s \in Anfragen \ {r} : gesperrt'[s] = gesperrt[s]
    BY <1>2 DEF IInv, TypeOK
<1> HIDE DEF S, stufe, a
<1>4. SperrenInv'
    BY <1>1, <1>2, SperrenBeginn
<1> QED
    BY <1>1, <1>2, <1>3, <1>4, BeginnIInv

LEMMA DeleteAlteWarenkoerbeIInv ==
    ASSUME IInv, NEW r \in Anfragen, DeleteAlteWarenkoerbe(r)
    PROVE  IInv'
<1> DEFINE S == {}
           stufe == "geleert"
           a == "warenkorbRemover"
<1>1. S \in SUBSET Kunden /\ stufe \in Stufen /\ a \in Arten
    BY DEF Stufen, Arten
<1>2. pc[r] = "bereit" /\ Beginn(r, a, Niemand, S) /\ Weiter(r, stufe)
          /\ UNCHANGED <<dbVars, mailVars, heute>> /\ a \notin {"warenkorb", "direkt"}
    BY DEF DeleteAlteWarenkoerbe
<1>3. /\ gesperrt' \in [Anfragen -> SUBSET Anfragen]
      /\ \A s \in Anfragen \ {r} : gesperrt'[s] = gesperrt[s]
      /\ gesperrt'[r] = AlteWarenkoerbe
    BY DEF IInv, TypeOK, DeleteAlteWarenkoerbe, AlteWarenkoerbe
<1>4. SperrenInv'
  <2>1. r \notin warenkorb /\ \A s \in Anfragen : r \notin gesperrt[s]
      BY <1>2, Unbeteiligt
  <2>2. \A s \in Anfragen \ {r} : tx'[s] = tx[s] /\ pc'[s] = pc[s]
      BY <1>1, <1>2, BeginnTyp DEF Weiter, IInv, TypeOK
  <2>3. tx'[r].art = "warenkorbRemover" /\ pc'[r] = "geleert"
    <3>1. tx'[r].art = a
        BY <1>1, <1>2, BeginnTyp
    <3> QED
        BY <3>1, <1>2 DEF Weiter, IInv, TypeOK
  <2>4. \A p \in AlteWarenkoerbe :
           p \in Anfragen \ {r} /\ Abgelegt(p) /\ aktualisiert[p] + VergangeneTage < heute
      BY <2>1 DEF AlteWarenkoerbe, PositionenVon, IInv, ZeilenInv, TypeOK
  <2>5. \A s \in Anfragen : gesperrt[s] \subseteq Anfragen
      BY DEF IInv, TypeOK
  <2> QED
      BY <1>2, <1>3, <2>1, <2>2, <2>3, <2>4, <2>5 DEF IInv, SperrenInv, Abgelegt, dbVars
<1> HIDE DEF S, stufe, a
<1> QED
    BY <1>1, <1>2, <1>3, <1>4, BeginnIInv

-----------------------------------------------------------------------------
(* Steps inside a transaction.                                             *)

\* A step that leaves the committed rows and tx alone keeps the invariant, if
\* it does not finish its request and looks after its own locks.
LEMMA ZwischenschrittIInv ==
    ASSUME IInv, NEW r \in Anfragen, pc[r] # "fertig",
           NEW stufe \in Stufen \ {"fertig"}, Weiter(r, stufe),
           AmBestellen(r)' => AmBestellen(r),
           stufe = "geleert" => PositionenVon(tx[r].kunde) \subseteq gesperrt'[r],
           gesperrt' \in [Anfragen -> SUBSET Anfragen],
           \A s \in Anfragen \ {r} : gesperrt'[s] = gesperrt[s],
           SperrenInv',
           mailAuftraege' \in SUBSET Anfragen,
           UNCHANGED <<dbVars, tx, gesendet, heute>>
    PROVE  IInv'
<1> USE DEF dbVars
<1>1. r \notin bestellungen /\ r \notin warenkorb
          /\ \A s \in Anfragen : r \notin tx[s].positionen /\ r \notin gesperrt[s]
    BY Unbeteiligt
<1>2. pc \in [Anfragen -> Stufen] /\ pc' \in [Anfragen -> Stufen]
          /\ pc'[r] = stufe /\ \A s \in Anfragen \ {r} : pc'[s] = pc[s]
    BY DEF Weiter, IInv, TypeOK
<1>3. TypeOK'
    BY <1>2 DEF IInv, TypeOK
<1>4. bestellungen \subseteq Anfragen \ {r} /\ warenkorb \subseteq Anfragen \ {r}
    BY <1>1 DEF IInv, TypeOK
<1>5. ZeilenInv'
    BY <1>2, <1>4 DEF IInv, ZeilenInv, Abgelegt
<1>6. PositionenInv'
    BY <1>1, <1>2 DEF IInv, PositionenInv, Abgelegt, TypeOK, Transaktion
<1>7. \A s \in Anfragen : AmBestellen(s)' => AmBestellen(s)
    BY <1>2 DEF AmBestellen
<1>8. VersionInv'
    BY <1>7 DEF IInv, VersionInv, Indizes, BestellungenVon, Endet
<1>9. GeleertInv'
  <2> SUFFICES ASSUME NEW s \in Anfragen, tx[s].art = "warenkorb", pc'[s] = "geleert"
               PROVE  tx[s].positionen \cap warenkorb \subseteq gesperrt'[s]
      BY DEF GeleertInv
  <2>1. CASE s = r
      BY <2>1, <1>2 DEF IInv, PositionenInv, PositionenVon
  <2>2. CASE s # r
      BY <2>2, <1>2 DEF IInv, GeleertInv
  <2> QED
      BY <2>1, <2>2
<1>10. ListenInv'
  <2>1. \A j \in Kunden : Indizes(j)' = Indizes(j)
      BY DEF BestellungenVon, Indizes
  <2> QED
      BY <2>1 DEF IInv, ListenInv
<1>11. NurEinmalBestellt' /\ BestellteSindGeleert' /\ LueckenloseListe' /\ KeineWaisen'
    BY DEF IInv, NurEinmalBestellt, BestellteSindGeleert, LueckenloseListe, KeineWaisen,
           BestellungenVon
<1> QED
    BY <1>3, <1>5, <1>6, <1>8, <1>9, <1>10, <1>11 DEF IInv

\* The same for the locks, where the step takes none.
LEMMA SperrenBleiben ==
    ASSUME IInv, NEW r \in Anfragen, pc[r] # "fertig",
           NEW stufe \in Stufen, Weiter(r, stufe),
           NEW L \in SUBSET Anfragen, gesperrt' = [gesperrt EXCEPT ![r] = L],
           \A p \in L : stufe = "geleert" /\ Abgelegt(p)
                          /\ tx[r].art = "warenkorb" /\ tx[p].kunde = tx[r].kunde,
           UNCHANGED <<dbVars, tx, heute>>
    PROVE  SperrenInv'
<1>1. \A s \in Anfragen : \A p \in gesperrt'[s] : p \in Anfragen /\ p # r
    BY Unbeteiligt DEF IInv, TypeOK, Abgelegt
<1>2. pc'[r] = stufe /\ (\A s \in Anfragen \ {r} : pc'[s] = pc[s])
    BY DEF Weiter, IInv, TypeOK
<1>3. gesperrt'[r] = L /\ \A s \in Anfragen \ {r} : gesperrt'[s] = gesperrt[s]
    BY DEF IInv, TypeOK
<1> QED
    BY <1>1, <1>2, <1>3 DEF IInv, SperrenInv, Abgelegt, dbVars

\* A failing transaction, whatever made it fail, leaves the invariant intact.
LEMMA RollbackIInv ==
    ASSUME IInv, NEW r \in Anfragen, pc[r] # "fertig", Rollback(r), UNCHANGED <<mailVars, heute>>
    PROVE  IInv'
<1>1. Weiter(r, "abgelehnt") /\ gesperrt' = [gesperrt EXCEPT ![r] = {}]
          /\ UNCHANGED <<dbVars, tx, heute>> /\ "abgelehnt" \in Stufen /\ {} \in SUBSET Anfragen
    BY DEF Rollback, Freigabe, Stufen
<1>2. SperrenInv'
    BY <1>1, SperrenBleiben
<1>3. gesperrt' \in [Anfragen -> SUBSET Anfragen] /\ \A s \in Anfragen \ {r} : gesperrt'[s] = gesperrt[s]
    BY <1>1 DEF IInv, TypeOK
<1>4. pc'[r] = "abgelehnt"
    BY <1>1 DEF Weiter, IInv, TypeOK
<1>5. ~ AmBestellen(r)'
    BY <1>4 DEF AmBestellen
<1>6. mailAuftraege' \in SUBSET Anfragen
    BY DEF mailVars, IInv, TypeOK
<1> QED
    BY <1>1, <1>2, <1>3, <1>5, <1>6, ZwischenschrittIInv DEF Stufen, mailVars

LEMMA CreateBestellungIInv ==
    ASSUME IInv, NEW r \in Anfragen, CreateBestellung(r)
    PROVE  IInv'
<1>1. pc[r] \in {"befuellt", "gelesen"} /\ Weiter(r, "erfasst") /\ "erfasst" \in Stufen \ {"fertig"}
          /\ UNCHANGED <<dbVars, tx, gesperrt, gesendet, heute>> /\ AmBestellen(r)
    BY DEF CreateBestellung, Stufen, AmBestellen
<1>2. gesperrt[r] = {} /\ gesperrt \in [Anfragen -> SUBSET Anfragen]
    BY <1>1 DEF IInv, SperrenInv, TypeOK
<1>3. gesperrt' = [gesperrt EXCEPT ![r] = {}]
    BY <1>1, <1>2
<1>4. SperrenInv'
    BY <1>1, <1>3, SperrenBleiben
<1>5. mailAuftraege' \in SUBSET Anfragen
    BY DEF CreateBestellung, IInv, TypeOK
<1> QED
    BY <1>1, <1>2, <1>4, <1>5, ZwischenschrittIInv

LEMMA PruefeKundenIInv ==
    ASSUME IInv, NEW r \in Anfragen, PruefeKunden(r)
    PROVE  IInv'
<1> DEFINE stufe == IF \E k \in tx[r].ziel : BestellungenVon(k) # {}
                    THEN "abgelehnt" ELSE "gelesen"
<1>1. tx[r].art = "kundeRemover" /\ pc[r] = "befuellt" /\ Weiter(r, stufe)
          /\ stufe \in Stufen \ {"fertig", "geleert"}
          /\ UNCHANGED <<dbVars, tx, gesperrt, mailVars, heute>>
    BY DEF PruefeKunden, Stufen
<1> HIDE DEF stufe
<1>2. gesperrt[r] = {} /\ gesperrt \in [Anfragen -> SUBSET Anfragen]
    BY <1>1 DEF IInv, SperrenInv, TypeOK
<1>3. gesperrt' = [gesperrt EXCEPT ![r] = {}]
    BY <1>1, <1>2
<1>4. SperrenInv'
    BY <1>1, <1>3, SperrenBleiben
<1>5. ~ AmBestellen(r)'
    BY <1>1 DEF AmBestellen
<1>6. mailAuftraege' \in SUBSET Anfragen
    BY <1>1 DEF mailVars, IInv, TypeOK
<1> QED
    BY <1>1, <1>2, <1>4, <1>5, <1>6, ZwischenschrittIInv DEF mailVars

LEMMA LeereWarenkorbIInv ==
    ASSUME IInv, NEW r \in Anfragen, LeereWarenkorb(r)
    PROVE  IInv'
<1> DEFINE L == ZuLeeren(r)
<1>1. tx[r].art = "warenkorb" /\ pc[r] = "erfasst" /\ Weiter(r, "geleert")
          /\ "geleert" \in Stufen \ {"fertig"} /\ gesperrt' = [gesperrt EXCEPT ![r] = L]
          /\ UNCHANGED <<dbVars, tx, mailVars, heute>> /\ AmBestellen(r)
    BY DEF LeereWarenkorb, Stufen, AmBestellen
<1>2. L \in SUBSET Anfragen /\ L = PositionenVon(tx[r].kunde)
          /\ \A p \in L : Abgelegt(p) /\ tx[p].kunde = tx[r].kunde
    BY DEF ZuLeeren, PositionenVon, IInv, TypeOK, ZeilenInv
<1> HIDE DEF L
<1>3. SperrenInv'
    BY <1>1, <1>2, SperrenBleiben
<1>4. gesperrt' \in [Anfragen -> SUBSET Anfragen] /\ gesperrt'[r] = L
          /\ \A s \in Anfragen \ {r} : gesperrt'[s] = gesperrt[s]
    BY <1>1, <1>2 DEF IInv, TypeOK
<1>5. mailAuftraege' \in SUBSET Anfragen
    BY <1>1 DEF mailVars, IInv, TypeOK
<1> QED
    BY <1>1, <1>2, <1>3, <1>4, <1>5, ZwischenschrittIInv DEF mailVars

\* The lines a SELECT finds have not been ordered yet: ordered lines have left
\* the cart.
LEMMA LiesPositionenIInv ==
    ASSUME IInv, NEW r \in Anfragen, LiesPositionen(r)
    PROVE  IInv'
<1> USE DEF dbVars, mailVars
<1> DEFINE P == PositionenVon(tx[r].kunde)
           stufe == IF P = {} THEN "abgelehnt" ELSE "befuellt"
<1>1. /\ tx[r].art = "warenkorb" /\ pc[r] = "gelesen"
      /\ stufe \in {"abgelehnt", "befuellt"} /\ stufe \in Stufen
      /\ Weiter(r, stufe)
      /\ tx' = [tx EXCEPT ![r].positionen = P]
      /\ UNCHANGED <<dbVars, gesperrt, mailVars, heute>>
    BY DEF LiesPositionen, Stufen
<1>2. /\ P \subseteq warenkorb /\ P \in SUBSET Anfragen
      /\ \A p \in P : Abgelegt(p) /\ tx[p].kunde = tx[r].kunde
      /\ \A b \in bestellungen : tx[b].positionen \cap P = {}
    BY DEF PositionenVon, IInv, TypeOK, ZeilenInv, BestellteSindGeleert
<1> HIDE DEF P, stufe
<1>3. r \notin bestellungen /\ r \notin warenkorb
          /\ \A s \in Anfragen : r \notin tx[s].positionen /\ r \notin gesperrt[s]
    BY <1>1, Unbeteiligt
<1>4. /\ tx' \in [Anfragen -> Transaktion]
      /\ tx'[r].positionen = P
      /\ \A s \in Anfragen \ {r} : tx'[s] = tx[s]
      /\ \A s \in Anfragen : /\ tx'[s].art = tx[s].art /\ tx'[s].kunde = tx[s].kunde
                             /\ tx'[s].ziel = tx[s].ziel /\ tx'[s].gelesen = tx[s].gelesen
                             /\ tx'[s].idx = tx[s].idx
  <2>1. tx \in [Anfragen -> Transaktion]
      BY DEF IInv, TypeOK
  <2>2. /\ tx'[r] = [tx[r] EXCEPT !.positionen = P]
        /\ \A s \in Anfragen \ {r} : tx'[s] = tx[s]
      BY <1>1, <2>1
  <2>3. tx[r] \in Transaktion
      BY <2>1
  <2>4. /\ tx'[r] \in Transaktion
        /\ tx'[r].positionen = P
        /\ tx'[r].art = tx[r].art /\ tx'[r].kunde = tx[r].kunde
        /\ tx'[r].ziel = tx[r].ziel /\ tx'[r].gelesen = tx[r].gelesen
        /\ tx'[r].idx = tx[r].idx
      BY <1>2, <2>2, <2>3 DEF Transaktion
  <2>5. tx' \in [Anfragen -> Transaktion]
      BY <1>1, <2>1, <2>2, <2>4
  <2> QED
      BY <2>2, <2>4, <2>5
<1>5. pc \in [Anfragen -> Stufen] /\ pc' \in [Anfragen -> Stufen]
          /\ pc'[r] = stufe /\ \A s \in Anfragen \ {r} : pc'[s] = pc[s]
    BY <1>1 DEF Weiter, IInv, TypeOK
<1>6. bestellungen \subseteq Anfragen \ {r} /\ warenkorb \subseteq Anfragen \ {r}
    BY <1>3 DEF IInv, TypeOK
<1>7. TypeOK'
    BY <1>1, <1>4, <1>5 DEF IInv, TypeOK
<1>8. \A p \in Anfragen \ {r} : Abgelegt(p)' <=> Abgelegt(p)
    BY <1>4, <1>5 DEF Abgelegt
<1>9. ZeilenInv'
    BY <1>1, <1>4, <1>5, <1>6, <1>8 DEF IInv, ZeilenInv
<1>10. PositionenInv'
  <2> SUFFICES ASSUME NEW s \in Anfragen
               PROVE  /\ \A p \in tx'[s].positionen : Abgelegt(p)' /\ tx'[p].kunde = tx'[s].kunde
                      /\ tx'[s].positionen # {} => tx'[s].art = "warenkorb"
      BY DEF PositionenInv
  <2>1. CASE s = r
    <3>1. P \subseteq Anfragen \ {r}
        BY <1>2, <1>6
    <3> QED
        BY <2>1, <3>1, <1>1, <1>2, <1>4, <1>8
  <2>2. CASE s # r
    <3>1. tx[s].positionen \subseteq Anfragen \ {r}
        BY <1>3 DEF IInv, TypeOK, Transaktion
    <3> QED
        BY <2>2, <3>1, <1>4, <1>8 DEF IInv, PositionenInv
  <2> QED
      BY <2>1, <2>2
<1>11. SperrenInv'
  <2>1. \A s \in Anfragen : gesperrt[s] \subseteq Anfragen \ {r}
      BY <1>3 DEF IInv, TypeOK
  <2>2. gesperrt[r] = {}
      BY <1>1 DEF IInv, SperrenInv, TypeOK
  <2> QED
      BY <2>1, <2>2, <1>1, <1>4, <1>5, <1>8 DEF IInv, SperrenInv
<1>12. \A j \in Kunden : BestellungenVon(j)' = BestellungenVon(j) /\ Indizes(j)' = Indizes(j)
    BY <1>1, <1>4, <1>6 DEF BestellungenVon, Indizes
<1>13. VersionInv'
  <2> SUFFICES ASSUME NEW s \in Anfragen, AmBestellen(s)'
               PROVE  /\ tx'[s].kunde \in Kunden
                      /\ tx'[s].ziel = {tx'[s].kunde}
                      /\ \A j \in tx'[s].ziel :
                            /\ tx'[s].gelesen[j] <= version[j]
                            /\ tx'[s].gelesen[j] = version[j] =>
                                 /\ \A b \in bestellungen :
                                       tx'[b].positionen \cap tx'[s].positionen = {}
                                 /\ Endet(Indizes(j)', tx'[s].idx)
      BY <1>1 DEF VersionInv, Endet
  <2>1. AmBestellen(s)
      BY <1>1, <1>4, <1>5 DEF AmBestellen
  <2>2. /\ tx[s].kunde \in Kunden
        /\ tx[s].ziel = {tx[s].kunde}
        /\ \A j \in tx[s].ziel :
              /\ tx[s].gelesen[j] <= version[j]
              /\ tx[s].gelesen[j] = version[j] =>
                   /\ \A b \in bestellungen : tx[b].positionen \cap tx[s].positionen = {}
                   /\ Endet(Indizes(j), tx[s].idx)
      BY <2>1 DEF IInv, VersionInv
  <2>3. \A b \in bestellungen : tx'[b] = tx[b]
      BY <1>4, <1>6
  <2>4. CASE s = r
      BY <2>2, <2>3, <2>4, <1>2, <1>4, <1>12
  <2>5. CASE s # r
      BY <2>2, <2>3, <2>5, <1>4, <1>12
  <2> QED
      BY <2>4, <2>5
<1>14. GeleertInv'
    BY <1>1, <1>4, <1>5 DEF IInv, GeleertInv
<1>15. ListenInv'
    BY <1>12 DEF IInv, ListenInv
<1>16. NurEinmalBestellt' /\ BestellteSindGeleert'
    BY <1>1, <1>4, <1>6 DEF IInv, NurEinmalBestellt, BestellteSindGeleert
<1>17. LueckenloseListe'
    BY <1>4, <1>6, <1>12 DEF IInv, LueckenloseListe, BestellungenVon
<1>18. KeineWaisen'
    BY <1>1, <1>4, <1>6 DEF IInv, KeineWaisen
<1> QED
    BY <1>7, <1>9, <1>10, <1>11, <1>13, <1>14, <1>15, <1>16, <1>17, <1>18 DEF IInv

-----------------------------------------------------------------------------
(* Commits.                                                                *)

\* A step that neither adds orders nor changes customers' versions keeps the
\* parts of the invariant that speak of orders.
LEMMA BestellungenBleiben ==
    ASSUME IInv, UNCHANGED <<bestellungen, version, tx>>,
           \A s \in Anfragen : AmBestellen(s)' => AmBestellen(s)
    PROVE  VersionInv' /\ ListenInv' /\ NurEinmalBestellt' /\ LueckenloseListe'
<1>1. \A j \in Kunden : Indizes(j)' = Indizes(j) /\ BestellungenVon(j)' = BestellungenVon(j)
    BY DEF Indizes, BestellungenVon
<1>2. VersionInv'
    BY DEF IInv, VersionInv, Indizes, BestellungenVon, Endet
<1>3. ListenInv' /\ LueckenloseListe'
    BY <1>1 DEF IInv, ListenInv, LueckenloseListe
<1> QED
    BY <1>2, <1>3 DEF IInv, NurEinmalBestellt

LEMMA CreateWarenkorbpositionIInv ==
    ASSUME IInv, NEW r \in Anfragen, CreateWarenkorbposition(r)
    PROVE  IInv'
<1> USE DEF mailVars
<1>1. r \notin bestellungen /\ r \notin warenkorb
          /\ \A s \in Anfragen : r \notin tx[s].positionen /\ r \notin gesperrt[s]
    BY Unbeteiligt DEF CreateWarenkorbposition
<1>2. pc' = [pc EXCEPT ![r] = "fertig"] /\ pc[r] = "gelesen" /\ tx[r].art = "position"
    BY DEF CreateWarenkorbposition, Weiter
<1>3. pc \in [Anfragen -> Stufen] /\ pc' \in [Anfragen -> Stufen]
          /\ pc'[r] = "fertig" /\ \A s \in Anfragen \ {r} : pc'[s] = pc[s]
    BY <1>2 DEF Stufen, IInv, TypeOK
<1>4. TypeOK'
    BY <1>3 DEF CreateWarenkorbposition, IInv, TypeOK
<1>5. Abgelegt(r)' /\ \A s \in Anfragen : Abgelegt(s) => Abgelegt(s)'
    BY <1>2, <1>3 DEF CreateWarenkorbposition, Abgelegt
<1>6. ZeilenInv'
    BY <1>3, <1>5 DEF CreateWarenkorbposition, IInv, ZeilenInv, TypeOK
<1>7. PositionenInv'
    BY <1>5 DEF CreateWarenkorbposition, IInv, PositionenInv, TypeOK, Transaktion
<1>8. SperrenInv'
  <2>1. \A s \in Anfragen : \A p \in gesperrt[s] :
           p \in Anfragen \ {r} /\ aktualisiert'[p] = aktualisiert[p] /\ pc'[s] = pc[s]
      BY <1>1, <1>2, <1>3 DEF CreateWarenkorbposition, IInv, TypeOK, SperrenInv
  <2> QED
      BY <2>1, <1>5 DEF CreateWarenkorbposition, IInv, SperrenInv
<1>9. \A s \in Anfragen : AmBestellen(s)' => AmBestellen(s)
    BY <1>3 DEF CreateWarenkorbposition, AmBestellen
<1>10. VersionInv' /\ ListenInv' /\ NurEinmalBestellt' /\ LueckenloseListe'
    BY <1>9, BestellungenBleiben DEF CreateWarenkorbposition
<1>11. GeleertInv'
    BY <1>1, <1>2, <1>3 DEF CreateWarenkorbposition, IInv, GeleertInv
<1>12. BestellteSindGeleert'
    BY <1>1 DEF CreateWarenkorbposition, IInv, BestellteSindGeleert, TypeOK
<1>13. KeineWaisen'
    BY DEF CreateWarenkorbposition, IInv, KeineWaisen
<1> QED
    BY <1>4, <1>6, <1>7, <1>8, <1>10, <1>11, <1>12, <1>13 DEF IInv

LEMMA CommitLoeschenIInv ==
    ASSUME IInv, NEW r \in Anfragen, CommitLoeschen(r)
    PROVE  IInv'
<1> USE DEF mailVars
<1>1. pc' = [pc EXCEPT ![r] = "fertig"] /\ pc[r] = "gelesen"
          /\ tx[r].art \in {"loeschen", "kundeRemover"}
    BY DEF CommitLoeschen, BereitZumLoeschen, Weiter
<1>2. pc \in [Anfragen -> Stufen] /\ pc' \in [Anfragen -> Stufen]
          /\ pc'[r] = "fertig" /\ \A s \in Anfragen \ {r} : pc'[s] = pc[s]
    BY <1>1 DEF Stufen, IInv, TypeOK
<1>3. TypeOK'
    BY <1>2 DEF CommitLoeschen, IInv, TypeOK
<1>4. \A s \in Anfragen : Abgelegt(s) => Abgelegt(s)'
    BY <1>1, <1>2 DEF CommitLoeschen, Abgelegt
<1>5. ZeilenInv'
    BY <1>2, <1>4 DEF CommitLoeschen, IInv, ZeilenInv, TypeOK
<1>6. PositionenInv'
    BY <1>4 DEF CommitLoeschen, IInv, PositionenInv, TypeOK, Transaktion
<1>7. SperrenInv'
  <2>1. \A s \in Anfragen : \A p \in gesperrt[s] : p \in Anfragen /\ pc'[s] = pc[s]
      BY <1>1, <1>2 DEF IInv, TypeOK, SperrenInv
  <2> QED
      BY <2>1, <1>4 DEF CommitLoeschen, IInv, SperrenInv
<1>8. \A s \in Anfragen : AmBestellen(s)' => AmBestellen(s)
    BY <1>2 DEF CommitLoeschen, AmBestellen
<1>9. VersionInv' /\ ListenInv' /\ NurEinmalBestellt' /\ LueckenloseListe'
    BY <1>8, BestellungenBleiben DEF CommitLoeschen
<1>10. GeleertInv'
    BY <1>1, <1>2 DEF CommitLoeschen, IInv, GeleertInv
<1>11. BestellteSindGeleert'
    BY DEF CommitLoeschen, IInv, BestellteSindGeleert
<1>12. KeineWaisen'
    BY DEF CommitLoeschen, OhneVerweise, BestellungenVon, PositionenVon, IInv, KeineWaisen
<1> QED
    BY <1>3, <1>5, <1>6, <1>7, <1>9, <1>10, <1>11, <1>12 DEF IInv

LEMMA CommitAlteWarenkoerbeIInv ==
    ASSUME IInv, NEW r \in Anfragen, CommitAlteWarenkoerbe(r)
    PROVE  IInv'
<1> USE DEF mailVars
<1>1. /\ pc' = [pc EXCEPT ![r] = "fertig"] /\ pc[r] = "geleert"
      /\ tx[r].art = "warenkorbRemover"
      /\ gesperrt' = [gesperrt EXCEPT ![r] = {}]
    BY DEF CommitAlteWarenkoerbe, Weiter, Freigabe
<1>2. pc \in [Anfragen -> Stufen] /\ pc' \in [Anfragen -> Stufen]
          /\ pc'[r] = "fertig" /\ \A s \in Anfragen \ {r} : pc'[s] = pc[s]
    BY <1>1 DEF Stufen, IInv, TypeOK
<1>3. gesperrt' \in [Anfragen -> SUBSET Anfragen] /\ gesperrt'[r] = {}
          /\ \A s \in Anfragen \ {r} : gesperrt'[s] = gesperrt[s]
    BY <1>1 DEF IInv, TypeOK
<1>4. TypeOK'
    BY <1>2, <1>3 DEF CommitAlteWarenkoerbe, IInv, TypeOK
<1>5. \A s \in Anfragen : Abgelegt(s) => Abgelegt(s)'
    BY <1>1, <1>2 DEF CommitAlteWarenkoerbe, Abgelegt
<1>6. ZeilenInv'
    BY <1>2, <1>5 DEF CommitAlteWarenkoerbe, IInv, ZeilenInv, TypeOK
<1>7. PositionenInv'
    BY <1>5 DEF CommitAlteWarenkoerbe, IInv, PositionenInv, TypeOK, Transaktion
<1>8. SperrenInv'
  <2>1. \A s \in Anfragen : gesperrt[s] \subseteq Anfragen
      BY DEF IInv, TypeOK
  <2> QED
      BY <2>1, <1>2, <1>3, <1>5 DEF CommitAlteWarenkoerbe, IInv, SperrenInv
<1>9. \A s \in Anfragen : AmBestellen(s)' => AmBestellen(s)
    BY <1>2 DEF CommitAlteWarenkoerbe, AmBestellen
<1>10. VersionInv' /\ ListenInv' /\ NurEinmalBestellt' /\ LueckenloseListe'
    BY <1>9, BestellungenBleiben DEF CommitAlteWarenkoerbe
<1>11. GeleertInv'
    BY <1>1, <1>2, <1>3 DEF CommitAlteWarenkoerbe, IInv, GeleertInv
<1>12. BestellteSindGeleert' /\ KeineWaisen'
    BY DEF CommitAlteWarenkoerbe, IInv, BestellteSindGeleert, KeineWaisen
<1> QED
    BY <1>4, <1>6, <1>7, <1>8, <1>10, <1>11, <1>12 DEF IInv

\* The heart of the matter: an order is committed only with the version it has
\* read, so nobody ordered its lines or took its place in the list meanwhile;
\* and the new version stops every order of this customer that read before.
LEMMA CommitBestellungIInv ==
    ASSUME IInv, NEW r \in Anfragen, CommitBestellung(r)
    PROVE  IInv'
<1> USE DEF mailVars
<1> DEFINE k == tx[r].kunde
           n == tx[r].idx
<1>1. /\ AmBestellen(r) /\ pc[r] \in {"geleert", "erfasst"}
      /\ pc' = [pc EXCEPT ![r] = "fertig"]
      /\ gesperrt' = [gesperrt EXCEPT ![r] = {}]
      /\ bestellungen' = bestellungen \cup {r}
      /\ version' = [version EXCEPT ![k] = version[k] + 1]
      /\ warenkorb' = warenkorb \ gesperrt[r]
      /\ UNCHANGED <<kunden, aktualisiert, tx, mailVars, heute>>
    BY DEF CommitBestellung, BereitZumBestellen, AmBestellen, Weiter, Freigabe
<1>2. /\ k \in Kunden /\ k \in kunden
      /\ \A b \in bestellungen : tx[b].positionen \cap tx[r].positionen = {}
      /\ Endet(Indizes(k), n)
    BY <1>1 DEF CommitBestellung, VersionAktuell, IInv, VersionInv
<1>3. /\ version \in [Kunden -> Nat] /\ version' \in [Kunden -> Nat]
      /\ version'[k] = version[k] + 1
      /\ \A j \in Kunden \ {k} : version'[j] = version[j]
    BY <1>1, <1>2 DEF IInv, TypeOK
<1>4. pc \in [Anfragen -> Stufen] /\ pc' \in [Anfragen -> Stufen]
          /\ pc'[r] = "fertig" /\ \A s \in Anfragen \ {r} : pc'[s] = pc[s]
    BY <1>1 DEF Stufen, IInv, TypeOK
<1>5. gesperrt' \in [Anfragen -> SUBSET Anfragen] /\ gesperrt'[r] = {}
          /\ \A s \in Anfragen \ {r} : gesperrt'[s] = gesperrt[s]
    BY <1>1 DEF IInv, TypeOK
<1>6. TypeOK'
    BY <1>1, <1>3, <1>4, <1>5 DEF IInv, TypeOK
<1>7. r \notin bestellungen /\ n \in Nat /\ \A j \in Kunden : Indizes(j) \in SUBSET Nat
    BY <1>1, Unbeteiligt DEF IInv, TypeOK, Transaktion, Indizes, BestellungenVon
<1>8. \A s \in Anfragen : Abgelegt(s) => Abgelegt(s)'
    BY <1>1, <1>4 DEF Abgelegt
<1>9. ZeilenInv'
    BY <1>1, <1>2, <1>4, <1>8 DEF IInv, ZeilenInv, TypeOK, AmBestellen
<1>10. PositionenInv'
    BY <1>1, <1>8 DEF IInv, PositionenInv, TypeOK, Transaktion
<1>11. SperrenInv'
  <2>1. \A s \in Anfragen : gesperrt[s] \subseteq Anfragen
      BY DEF IInv, TypeOK
  <2> QED
      BY <2>1, <1>1, <1>4, <1>5, <1>8 DEF IInv, SperrenInv
<1>12. /\ \A j \in Kunden : j = k => BestellungenVon(j)' = BestellungenVon(j) \cup {r}
                                   /\ Indizes(j)' = Indizes(j) \cup {n}
       /\ \A j \in Kunden \ {k} : BestellungenVon(j)' = BestellungenVon(j)
                                     /\ Indizes(j)' = Indizes(j)
    BY <1>1 DEF BestellungenVon, Indizes
<1>13. n \notin Indizes(k) /\ Endet(Indizes(k) \cup {n}, n + 1)
    BY <1>2, <1>7, ListeVerlaengern
<1>14. VersionInv'
  <2> SUFFICES ASSUME NEW s \in Anfragen, AmBestellen(s)'
               PROVE  /\ tx[s].kunde \in Kunden
                      /\ tx[s].ziel = {tx[s].kunde}
                      /\ \A j \in tx[s].ziel :
                            /\ tx[s].gelesen[j] <= version'[j]
                            /\ tx[s].gelesen[j] = version'[j] =>
                                 /\ \A b \in bestellungen' :
                                       tx[b].positionen \cap tx[s].positionen = {}
                                 /\ Endet(Indizes(j)', tx[s].idx)
      BY <1>1 DEF VersionInv, Endet
  <2>1. s # r /\ AmBestellen(s)
      BY <1>1, <1>4 DEF AmBestellen
  <2>2. /\ tx[s].kunde \in Kunden
        /\ tx[s].ziel = {tx[s].kunde}
        /\ \A j \in tx[s].ziel :
              /\ tx[s].gelesen[j] <= version[j]
              /\ tx[s].gelesen[j] = version[j] =>
                   /\ \A b \in bestellungen : tx[b].positionen \cap tx[s].positionen = {}
                   /\ Endet(Indizes(j), tx[s].idx)
      BY <2>1 DEF IInv, VersionInv
  <2>3. tx[s].gelesen \in [Kunden -> Nat]
      BY DEF IInv, TypeOK, Transaktion
  <2>4. CASE tx[s].kunde = k
      BY <2>2, <2>3, <2>4, <1>2, <1>3
  <2>5. CASE tx[s].kunde # k
    <3>1. tx[r].positionen \cap tx[s].positionen = {}
        BY <2>5 DEF IInv, PositionenInv
    <3> QED
        BY <2>2, <2>5, <3>1, <1>1, <1>3, <1>12
  <2> QED
      BY <2>4, <2>5
<1>15. GeleertInv'
    BY <1>1, <1>4, <1>5 DEF IInv, GeleertInv
<1>16. ListenInv'
  <2>1. Indizes(k) \cup {n} \in SUBSET Nat /\ n + 1 \in Nat
      BY <1>7, <1>2
  <2>2. Endet(Indizes(k) \cup {n}, Listenlaenge(Indizes(k) \cup {n}))
      BY <2>1, <1>13, ListenlaengeEndet
  <2> SUFFICES ASSUME NEW j \in Kunden
               PROVE  Endet(Indizes(j)', Listenlaenge(Indizes(j)'))
      BY DEF ListenInv, Endet, Listenlaenge
  <2>3. CASE j = k
      BY <2>2, <2>3, <1>12
  <2>4. CASE j # k
      BY <2>4, <1>12 DEF IInv, ListenInv
  <2> QED
      BY <2>3, <2>4
<1>17. NurEinmalBestellt'
    BY <1>1, <1>2 DEF IInv, NurEinmalBestellt
<1>18. BestellteSindGeleert'
  <2>1. tx[r].positionen \cap warenkorb \subseteq gesperrt[r]
      BY <1>1 DEF CommitBestellung, BereitZumBestellen, IInv, GeleertInv, PositionenInv
  <2> QED
      BY <2>1, <1>1 DEF IInv, BestellteSindGeleert
<1>19. LueckenloseListe'
  <2> SUFFICES ASSUME NEW j \in Kunden
               PROVE  /\ \A a, b \in BestellungenVon(j)' : tx[a].idx = tx[b].idx => a = b
                      /\ \A b \in BestellungenVon(j)' : \A i \in 0 .. tx[b].idx :
                            \E a \in BestellungenVon(j)' : tx[a].idx = i
      BY <1>1 DEF LueckenloseListe
  <2>1. /\ \A a, b \in BestellungenVon(j) : tx[a].idx = tx[b].idx => a = b
        /\ \A b \in BestellungenVon(j) : \A i \in 0 .. tx[b].idx :
              \E a \in BestellungenVon(j) : tx[a].idx = i
      BY DEF IInv, LueckenloseListe
  <2>2. CASE j # k
      BY <2>1, <2>2, <1>12
  <2>3. CASE j = k
    <3>1. \A b \in BestellungenVon(k) : tx[b].idx # n
        BY <1>13 DEF Indizes
    <3>2. \A a, b \in BestellungenVon(k) \cup {r} : tx[a].idx = tx[b].idx => a = b
        BY <2>1, <2>3, <3>1
    <3>3. \A i \in 0 .. n : \E a \in BestellungenVon(k) \cup {r} : tx[a].idx = i
      <4> SUFFICES ASSUME NEW i \in 0 .. n, i # n
                   PROVE  \E a \in BestellungenVon(k) : tx[a].idx = i
          OBVIOUS
      <4>1. PICK m \in Indizes(k) : n = m + 1
          BY <1>2, <1>7 DEF Endet
      <4>2. PICK b \in BestellungenVon(k) : tx[b].idx = m
          BY DEF Indizes
      <4>3. i \in 0 .. tx[b].idx
          BY <4>1, <4>2, <1>2, <1>7
      <4> QED
          BY <4>3, <2>1, <2>3
    <3> QED
        BY <2>1, <2>3, <3>2, <3>3, <1>12
  <2> QED
      BY <2>2, <2>3
<1>20. KeineWaisen'
    BY <1>1, <1>2 DEF IInv, KeineWaisen
<1> QED
    BY <1>6, <1>9, <1>10, <1>11, <1>14, <1>15, <1>16, <1>17, <1>18, <1>19, <1>20 DEF IInv

-----------------------------------------------------------------------------
(* All steps together.                                                     *)

\* The surroundings: the observer of the mail, the calendar, and nothing at all.
LEMMA UmgebungIInv ==
    ASSUME IInv, \/ \E r \in Anfragen : OnCreateBestellung(r)
                 \/ NaechsterTag
                 \/ UNCHANGED vars
    PROVE  IInv'
<1> USE DEF dbVars, txVars, mailVars, vars
<1>1. /\ UNCHANGED <<dbVars, txVars>>
      /\ heute' \in Nat /\ heute <= heute'
      /\ mailAuftraege' \in SUBSET Anfragen /\ gesendet' \in SUBSET Anfragen
    BY DEF OnCreateBestellung, NaechsterTag, IInv, TypeOK
<1>2. TypeOK'
    BY <1>1 DEF IInv, TypeOK
<1>3. ZeilenInv' /\ PositionenInv'
    BY <1>1 DEF IInv, ZeilenInv, PositionenInv, Abgelegt
<1>4. SperrenInv'
  <2>1. \A s \in Anfragen : \A p \in gesperrt[s] : aktualisiert[p] \in Nat
      BY DEF IInv, TypeOK
  <2>2. VergangeneTage \in Nat /\ heute \in Nat
      BY KonstantenAnnahme DEF IInv, TypeOK
  <2> QED
      BY <1>1, <2>1, <2>2 DEF IInv, SperrenInv, Abgelegt
<1>5. VersionInv' /\ ListenInv' /\ NurEinmalBestellt' /\ LueckenloseListe'
  <2>1. \A s \in Anfragen : AmBestellen(s)' => AmBestellen(s)
      BY <1>1 DEF AmBestellen
  <2> QED
      BY <1>1, <2>1, BestellungenBleiben
<1>6. GeleertInv' /\ BestellteSindGeleert' /\ KeineWaisen'
    BY <1>1 DEF IInv, GeleertInv, BestellteSindGeleert, KeineWaisen
<1> QED
    BY <1>2, <1>3, <1>4, <1>5, <1>6 DEF IInv

\* IInv is inductive.
LEMMA NextIInv == IInv /\ [Next]_vars => IInv'
<1> SUFFICES ASSUME IInv, [Next]_vars PROVE IInv'
    OBVIOUS
<1>1. ASSUME NEW r \in Anfragen, Eingang(r) PROVE IInv'
    BY <1>1, LiesKundeIInv, LiesZuLoeschendenIInv, SucheKundenIInv, DeleteAlteWarenkoerbeIInv
    DEF Eingang
<1>2. ASSUME NEW r \in Anfragen, Schritt(r) PROVE IInv'
  <2>1. CASE CreateWarenkorbposition(r)
      BY <2>1, CreateWarenkorbpositionIInv
  <2>2. CASE VerwerfeWarenkorbposition(r)
      BY <2>2, RollbackIInv DEF VerwerfeWarenkorbposition
  <2>3. CASE LiesPositionen(r)
      BY <2>3, LiesPositionenIInv
  <2>4. CASE CreateBestellung(r)
      BY <2>4, CreateBestellungIInv
  <2>5. CASE LeereWarenkorb(r)
      BY <2>5, LeereWarenkorbIInv
  <2>6. CASE CommitBestellung(r)
      BY <2>6, CommitBestellungIInv
  <2>7. CASE VerwerfeBestellung(r)
      BY <2>7, RollbackIInv DEF VerwerfeBestellung, BereitZumBestellen
  <2>8. CASE PruefeKunden(r)
      BY <2>8, PruefeKundenIInv
  <2>9. CASE CommitLoeschen(r)
      BY <2>9, CommitLoeschenIInv
  <2>10. CASE VerwerfeLoeschen(r)
      BY <2>10, RollbackIInv DEF VerwerfeLoeschen, BereitZumLoeschen
  <2>11. CASE CommitAlteWarenkoerbe(r)
      BY <2>11, CommitAlteWarenkoerbeIInv
  <2> QED
      BY <1>2, <2>1, <2>2, <2>3, <2>4, <2>5, <2>6, <2>7, <2>8, <2>9, <2>10, <2>11 DEF Schritt
<1>3. ASSUME NEW r \in Anfragen, Abbruch(r) PROVE IInv'
    BY <1>3, RollbackIInv DEF Abbruch, Beendet
<1>4. CASE (\E r \in Anfragen : OnCreateBestellung(r)) \/ NaechsterTag \/ UNCHANGED vars
    BY <1>4, UmgebungIInv
<1> QED
    BY <1>1, <1>2, <1>3, <1>4 DEF Next, Ende

\* The inductive invariant holds in every reachable state.
THEOREM Induktion == Spec => []IInv
<1>1. Init => IInv
    BY InitIInv
<1>2. IInv /\ [Next]_vars => IInv'
    BY NextIInv
<1> QED
    BY <1>1, <1>2, PTL DEF Spec

\* All variables keep their types.
THEOREM TypKorrekt == Spec => []TypeOK
<1>1. IInv => TypeOK
    BY DEF IInv
<1> QED
    BY <1>1, Induktion, PTL

\* No interleaving of orders sells a cart line twice, for any number of
\* customers and requests.
THEOREM KeinDoppelverkauf == Spec => []NurEinmalBestellt
<1>1. IInv => NurEinmalBestellt
    BY DEF IInv
<1> QED
    BY <1>1, Induktion, PTL

\* An ordered line is never in a cart again.
THEOREM GeleertBleibtGeleert == Spec => []BestellteSindGeleert
<1>1. IInv => BestellteSindGeleert
    BY DEF IInv
<1> QED
    BY <1>1, Induktion, PTL

\* The order list of every customer is 0, 1, 2, ... without gaps or doubles.
THEOREM ListeLueckenlos == Spec => []LueckenloseListe
<1>1. IInv => LueckenloseListe
    BY DEF IInv
<1> QED
    BY <1>1, Induktion, PTL

\* Orders and cart lines never lose their customer.
THEOREM NieVerwaist == Spec => []KeineWaisen
<1>1. IInv => KeineWaisen
    BY DEF IInv
<1> QED
    BY <1>1, Induktion, PTL

\* A cart line goes only with an order of its customer or with age.
THEOREM LeerenBerechtigt == Spec => NurBerechtigtGeleert
<1>1. ASSUME IInv, [Next]_vars PROVE [BerechtigtGeleert]_vars
  <2> SUFFICES ASSUME NEW p \in warenkorb, p \notin warenkorb'
               PROVE  \E r \in Anfragen :
                         /\ p \in gesperrt[r]
                         /\ pc'[r] = "fertig"
                         /\ \/ r \in bestellungen' /\ tx[r].kunde = tx[p].kunde
                            \/ aktualisiert[p] + VergangeneTage < heute
      BY DEF BerechtigtGeleert
  <2>1. PICK r \in Anfragen : CommitBestellung(r) \/ CommitAlteWarenkoerbe(r)
      BY <1>1 DEF Next, Ende, Eingang, Schritt, Abbruch, Rollback, LiesKunde, LiesZuLoeschenden,
           SucheKunden, DeleteAlteWarenkoerbe, CreateWarenkorbposition,
           VerwerfeWarenkorbposition, LiesPositionen, CreateBestellung, LeereWarenkorb,
           VerwerfeBestellung, PruefeKunden, CommitLoeschen, VerwerfeLoeschen,
           OnCreateBestellung, NaechsterTag, vars, dbVars
  <2>2. p \in gesperrt[r] /\ pc'[r] = "fertig"
      BY <1>1, <2>1 DEF CommitBestellung, CommitAlteWarenkoerbe, Weiter, IInv, TypeOK
  <2>3. CASE CommitBestellung(r)
      BY <1>1, <2>2, <2>3 DEF CommitBestellung, BereitZumBestellen, IInv, SperrenInv
  <2>4. CASE CommitAlteWarenkoerbe(r)
      BY <1>1, <2>2, <2>4 DEF CommitAlteWarenkoerbe, IInv, SperrenInv
  <2> QED
      BY <2>1, <2>3, <2>4
<1> QED
    BY <1>1, Induktion, PTL DEF Spec, NurBerechtigtGeleert

-----------------------------------------------------------------------------
(* Nobody waits for ever: the part of it that needs no fairness.            *)

\* A request does not lose its kind, and a step leads it to a stage its kind has.
LEMMA StufenSchritt ==
    ASSUME IInv, StufenInv, [Next]_vars
    PROVE  StufenInv'
<1> USE DEF IInv, TypeOK, Weiter, Rollback, Laeuft, Beendet
<1>1. ASSUME UNCHANGED <<pc, tx>> PROVE StufenInv'
    BY <1>1 DEF StufenInv
<1>2. ASSUME NEW r \in Anfragen, NEW stufe \in Stufen, Weiter(r, stufe),
             tx'[r].art = tx[r].art,
             \A s \in Anfragen \ {r} : tx'[s].art = tx[s].art,
             \/ stufe \in Beendet \/ tx[r].art = "warenkorb"
             \/ tx[r].art = "direkt" /\ stufe = "erfasst"
             \/ tx[r].art = "kundeRemover" /\ stufe = "gelesen"
      PROVE  StufenInv'
    BY <1>2 DEF StufenInv
<1>3. ASSUME NEW r \in Anfragen, Eingang(r) PROVE StufenInv'
    <2>1. \A s \in Anfragen \ {r} : tx'[s] = tx[s] /\ pc'[s] = pc[s]
        BY <1>3 DEF Eingang, LiesKunde, LiesZuLoeschenden, SucheKunden,
                    DeleteAlteWarenkoerbe, Beginn
    <2>2. \/ tx'[r].art \in {"position", "warenkorb", "direkt", "loeschen"}
             /\ pc'[r] \in Beendet \cup {"gelesen"}
          \/ tx'[r].art = "kundeRemover" /\ pc'[r] = "befuellt"
          \/ tx'[r].art = "warenkorbRemover" /\ pc'[r] = "geleert"
        BY <1>3 DEF Eingang, LiesKunde, LiesZuLoeschenden, SucheKunden,
                    DeleteAlteWarenkoerbe, Beginn
    <2> QED
        BY <2>1, <2>2 DEF StufenInv
<1>4. ASSUME NEW r \in Anfragen, Schritt(r) \/ Abbruch(r) PROVE StufenInv'
    <2>1. CASE \/ CreateWarenkorbposition(r) \/ VerwerfeWarenkorbposition(r)
               \/ CommitBestellung(r) \/ VerwerfeBestellung(r)
               \/ CommitLoeschen(r) \/ VerwerfeLoeschen(r)
               \/ CommitAlteWarenkoerbe(r) \/ Abbruch(r)
        <3>1. tx' = tx /\ (Weiter(r, "fertig") \/ Weiter(r, "abgelehnt"))
            BY <2>1 DEF CreateWarenkorbposition, VerwerfeWarenkorbposition, CommitBestellung,
                        VerwerfeBestellung, CommitLoeschen, VerwerfeLoeschen,
                        CommitAlteWarenkoerbe, Abbruch
        <3> QED
            BY <1>2, <3>1 DEF Stufen
    <2>2. CASE LiesPositionen(r)
        <3>1. \A s \in Anfragen : tx'[s].art = tx[s].art
            BY <2>2 DEF LiesPositionen, Transaktion
        <3>2. tx[r].art = "warenkorb"
            BY <2>2 DEF LiesPositionen
        <3>3. CASE PositionenVon(tx[r].kunde) = {}
            <4>1. Weiter(r, "abgelehnt")
                BY <2>2, <3>3 DEF LiesPositionen
            <4> QED
                BY <1>2, <3>1, <4>1 DEF Stufen
        <3>4. CASE PositionenVon(tx[r].kunde) # {}
            <4>1. Weiter(r, "befuellt")
                BY <2>2, <3>4 DEF LiesPositionen
            <4> QED
                BY <1>2, <3>1, <3>2, <4>1 DEF Stufen
        <3> QED
            BY <3>3, <3>4
    <2>3. CASE CreateBestellung(r)
        <3>1. tx' = tx /\ Weiter(r, "erfasst") /\ tx[r].art \in {"warenkorb", "direkt"}
            BY <2>3 DEF CreateBestellung
        <3> QED
            BY <1>2, <3>1 DEF Stufen
    <2>4. CASE LeereWarenkorb(r)
        <3>1. tx' = tx /\ Weiter(r, "geleert") /\ tx[r].art = "warenkorb"
            BY <2>4 DEF LeereWarenkorb
        <3> QED
            BY <1>2, <3>1 DEF Stufen
    <2>5. CASE PruefeKunden(r)
        <3>1. /\ tx' = tx /\ tx[r].art = "kundeRemover"
              /\ Weiter(r, "abgelehnt") \/ Weiter(r, "gelesen")
            BY <2>5 DEF PruefeKunden
        <3> QED
            BY <1>2, <3>1 DEF Stufen
    <2> QED
        BY <1>4, <2>1, <2>2, <2>3, <2>4, <2>5 DEF Schritt
<1>5. CASE (\E r \in Anfragen : OnCreateBestellung(r)) \/ NaechsterTag \/ Ende \/ UNCHANGED vars
    <2>1. UNCHANGED <<pc, tx>>
        BY <1>5 DEF OnCreateBestellung, NaechsterTag, Ende, vars, txVars
    <2> QED
        BY <1>1, <2>1
<1> QED
    BY <1>3, <1>4, <1>5 DEF Next

\* KeinStillstand: however many orders and clean-ups delete lines of the same
\* carts at once, there is no deadlock and nobody waits for somebody who waits.
THEOREM NiemandWartetAufWartende == Spec => []KeinStillstand
<1>1. Init => IInv /\ StufenInv
    <2>1. Init => StufenInv
        BY DEF Init, StufenInv, Laeuft
    <2> QED
        BY <2>1, InitIInv
<1>2. IInv /\ StufenInv /\ [Next]_vars => IInv' /\ StufenInv'
    BY NextIInv, StufenSchritt
<1>3. IInv /\ StufenInv => KeinStillstand
    <2> SUFFICES ASSUME IInv, StufenInv, NEW r \in Anfragen
                 PROVE  /\ gesperrt[r] # {} => KannWeiter(r)
                        /\ Laeuft(r) /\ ~ KannWeiter(r) =>
                              \E s \in Anfragen \ {r} : gesperrt[s] \cap ZuLeeren(r) # {}
        BY DEF KeinStillstand
    <2>1. ASSUME gesperrt[r] # {} PROVE KannWeiter(r)
        <3>1. PICK p \in gesperrt[r] : TRUE
            BY <2>1
        <3>2. pc[r] = "geleert" /\ tx[r].art \in {"warenkorb", "warenkorbRemover"}
            BY <3>1 DEF IInv, SperrenInv
        <3> QED
            BY <3>2 DEF KannWeiter, BereitZumBestellen
    <2>2. ASSUME Laeuft(r), ~ KannWeiter(r)
          PROVE  \E s \in Anfragen \ {r} : gesperrt[s] \cap ZuLeeren(r) # {}
        <3>1. pc[r] \in Stufen
            BY DEF IInv, TypeOK
        <3>2. tx[r].art = "warenkorb" /\ pc[r] = "erfasst" /\ ~ Frei(r, ZuLeeren(r))
            BY <2>2, <3>1 DEF KannWeiter, BereitZumBestellen, BereitZumLoeschen, StufenInv,
                              Laeuft, Beendet, Stufen
        <3> QED
            BY <3>2 DEF Frei
    <2> QED
        BY <2>1, <2>2
<1> QED
    BY <1>1, <1>2, <1>3, PTL DEF Spec

\* How far a request has come.
Rang(r) ==
    CASE pc[r] = "bereit" -> 0
      [] pc[r] = "gelesen" -> IF tx[r].art = "kundeRemover" THEN 3 ELSE 1
      [] pc[r] = "befuellt" -> 2
      [] pc[r] = "erfasst" -> 3
      [] pc[r] = "geleert" -> 4
      [] OTHER -> 5

\* Only steps of a request itself change it, and each brings it nearer to its
\* end: none takes more than five, and nobody else can hold it up but by a row
\* lock.  Under the fairness of FairSpec this and KeinStillstand are why every
\* request ends (JedeAnfrageEndet).
THEOREM JederSchrittZaehlt ==
    Spec => [][\A r \in Anfragen : pc'[r] # pc[r] => Rang(r)' > Rang(r)]_vars
<1>1. ASSUME IInv, [Next]_vars
      PROVE  [\A r \in Anfragen : pc'[r] # pc[r] => Rang(r)' > Rang(r)]_vars
    <2> SUFFICES ASSUME NEW q \in Anfragen, pc'[q] # pc[q]
                 PROVE  Rang(q)' > Rang(q)
        OBVIOUS
    <2> USE <1>1 DEF IInv, TypeOK, Weiter, Rollback, Rang, Beendet, Stufen
    <2>1. ASSUME NEW r \in Anfragen, Eingang(r) PROVE Rang(q)' > Rang(q)
        <3>1. q = r /\ pc[r] = "bereit" /\ pc'[r] # "bereit"
            BY <2>1 DEF Eingang, LiesKunde, LiesZuLoeschenden, SucheKunden,
                        DeleteAlteWarenkoerbe
        <3>2. pc'[r] \in Stufen
            BY <2>1 DEF Eingang, LiesKunde, LiesZuLoeschenden, SucheKunden,
                        DeleteAlteWarenkoerbe
        <3> QED
            BY <3>1, <3>2
    <2>2. ASSUME NEW r \in Anfragen, Schritt(r) \/ Abbruch(r) PROVE Rang(q)' > Rang(q)
        <3>1. CASE \/ CreateWarenkorbposition(r) \/ VerwerfeWarenkorbposition(r)
                   \/ CommitBestellung(r) \/ VerwerfeBestellung(r)
                   \/ CommitLoeschen(r) \/ VerwerfeLoeschen(r)
                   \/ CommitAlteWarenkoerbe(r) \/ Abbruch(r)
            <4>1. q = r /\ pc[r] \notin Beendet /\ pc'[r] \in Beendet
                BY <3>1 DEF CreateWarenkorbposition, VerwerfeWarenkorbposition,
                            CommitBestellung, VerwerfeBestellung, BereitZumBestellen,
                            CommitLoeschen, VerwerfeLoeschen, BereitZumLoeschen,
                            CommitAlteWarenkoerbe, Abbruch
            <4> QED
                BY <4>1
        <3>2. CASE LiesPositionen(r)
            <4>1. q = r /\ pc[r] = "gelesen" /\ tx[r].art = "warenkorb"
                  /\ pc'[r] \in {"abgelehnt", "befuellt"}
                BY <3>2 DEF LiesPositionen
            <4> QED
                BY <4>1
        <3>3. CASE CreateBestellung(r) \/ LeereWarenkorb(r)
            <4>1. /\ q = r /\ tx' = tx /\ tx[r].art # "kundeRemover"
                  /\ \/ pc[r] \in {"gelesen", "befuellt"} /\ pc'[r] = "erfasst"
                     \/ pc[r] = "erfasst" /\ pc'[r] = "geleert"
                BY <3>3 DEF CreateBestellung, LeereWarenkorb
            <4> QED
                BY <4>1
        <3>4. CASE PruefeKunden(r)
            <4>1. /\ q = r /\ tx' = tx /\ tx[r].art = "kundeRemover" /\ pc[r] = "befuellt"
                  /\ pc'[r] \in {"abgelehnt", "gelesen"}
                BY <3>4 DEF PruefeKunden
            <4> QED
                BY <4>1
        <3> QED
            BY <2>2, <3>1, <3>2, <3>3, <3>4 DEF Schritt
    <2>3. pc' # pc
        OBVIOUS
    <2> QED
        BY <2>1, <2>2, <2>3 DEF Next, OnCreateBestellung, NaechsterTag, Ende, vars, txVars
<1> QED
    BY <1>1, Induktion, PTL DEF Spec
=============================================================================
