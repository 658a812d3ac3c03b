------------------------ MODULE KundenverwaltungProofs ------------------------
(***************************************************************************)
(* Proofs about Kundenverwaltung for any number of customers, requests and *)
(* values: nobody overwrites or deletes what he has not seen.              *)
(***************************************************************************)
EXTENDS Kundenverwaltung, TLAPS

dbVars == <<kunden, zeile, adressen, adresse>>

\* The values of rows and copies that do not exist yet are of the right type.
LEMMA AnfangsTyp == OhneZeile \in Zeile /\ OhneAdresse \in Adresszeile
<1>1. (CHOOSE e \in Emails : TRUE) \in Emails
    BY KonstantenAnnahme
<1> QED
    BY <1>1, KonstantenAnnahme DEF OhneZeile, OhneAdresse, Zeile, Daten, Adresszeile

\* IInv holds before the first request.
LEMMA InitIInv == Init => IInv
<1> SUFFICES ASSUME Init PROVE IInv
    OBVIOUS
<1>1. zeile \in [Ids -> Zeile]
    BY AnfangsTyp, KonstantenAnnahme DEF Init, Zeile, Daten
<1>2. tx \in [Anfragen -> Transaktion]
    BY AnfangsTyp, KonstantenAnnahme DEF Init, Transaktion, Eingabe, Ids, Zeile
<1>3. TypeOK
    BY <1>1, <1>2, AnfangsTyp DEF Init, TypeOK, Ids, Stufen
<1> QED
    BY <1>3, KonstantenAnnahme
    DEF Init, IInv, HerkunftInv, KopieInv, AdrKopieInv, MitKopie, JederKundeHatAdresse

-----------------------------------------------------------------------------
(* Steps that write no row.                                                *)

\* A step of request r that only looks keeps IInv, if what r carries on with is
\* a copy of the rows as they are now, or the copy it had.
LEMMA NurGelesen ==
    ASSUME IInv, NEW r \in Anfragen, pc[r] # "fertig",
           NEW stufe \in Stufen \ {"bereit", "fertig"},
           Weiter(r, stufe), UNCHANGED dbVars,
           tx' \in [Anfragen -> Transaktion],
           \A s \in Anfragen \ {r} : tx'[s] = tx[s],
           tx'[r].art \in {"jsf", "loeschen"} => tx'[r].adrKopie = tx'[r].adrGelesen,
           stufe # "abgelehnt" /\ tx'[r].art \in {"rest", "jsf", "loeschen"} =>
              \A k \in {tx'[r].id} :
                 /\ k \in Anfragen => pc[k] = "fertig"
                 /\ tx'[r].kopie.version <= zeile[k].version
                 /\ tx'[r].kopie.version = zeile[k].version => tx'[r].kopie.daten = zeile[k].daten
                 /\ tx'[r].adrGelesen.version <= adresse[k].version
                 /\ tx'[r].adrGelesen.version = adresse[k].version =>
                       tx'[r].adrGelesen.ort = adresse[k].ort
    PROVE  IInv'
<1> USE DEF dbVars
<1>1. /\ pc \in [Anfragen -> Stufen]
      /\ pc' \in [Anfragen -> Stufen]
      /\ pc'[r] = stufe
      /\ \A s \in Anfragen \ {r} : pc'[s] = pc[s]
    BY DEF IInv, TypeOK, Weiter
<1>2. TypeOK'
    BY <1>1 DEF IInv, TypeOK
<1>3. \A i \in Anfragen : pc[i] = "fertig" => pc'[i] = "fertig"
    BY <1>1
<1>4. HerkunftInv'
  <2>1. \A i \in kunden' \cup adressen' : i \in Anfragen => pc'[i] = "fertig"
      BY <1>3 DEF IInv, HerkunftInv
  <2>2. ASSUME NEW s \in Anfragen, MitKopie(s)', tx'[s].id \in Anfragen
        PROVE  pc'[tx'[s].id] = "fertig"
    <3>1. CASE s = r
        BY <2>2, <3>1, <1>1, <1>3 DEF MitKopie, Beendet
    <3>2. CASE s # r
        BY <2>2, <3>2, <1>1, <1>3 DEF IInv, HerkunftInv, MitKopie
    <3> QED
        BY <3>1, <3>2
  <2>3. \A s \in Anfragen : pc'[s] = "bereit" => tx'[s].art = "keine"
      BY <1>1 DEF IInv, HerkunftInv
  <2> QED
      BY <2>1, <2>2, <2>3 DEF HerkunftInv
<1>5. KopieInv'
  <2> SUFFICES ASSUME NEW s \in Anfragen, MitKopie(s)', NEW k \in {tx'[s].id}
               PROVE  /\ tx'[s].kopie.version <= zeile'[k].version
                      /\ tx'[s].kopie.version = zeile'[k].version =>
                            tx'[s].kopie.daten = zeile'[k].daten
                      /\ tx'[s].adrGelesen.version <= adresse'[k].version
                      /\ tx'[s].adrGelesen.version = adresse'[k].version =>
                            tx'[s].adrGelesen.ort = adresse'[k].ort
      BY DEF KopieInv
  <2>1. CASE s = r
      BY <2>1, <1>1 DEF MitKopie, Beendet
  <2>2. CASE s # r
      BY <2>2, <1>1 DEF IInv, KopieInv, MitKopie
  <2> QED
      BY <2>1, <2>2
<1>6. AdrKopieInv' /\ JederKundeHatAdresse'
    BY DEF IInv, AdrKopieInv, JederKundeHatAdresse
<1> QED
    BY <1>2, <1>4, <1>5, <1>6 DEF IInv

\* The same for a step that leaves tx as it is: r goes on, or is refused.
LEMMA NurWeiter ==
    ASSUME IInv, NEW r \in Anfragen, pc[r] \notin Beendet,
           NEW stufe \in Stufen \ {"bereit", "fertig"},
           Weiter(r, stufe), UNCHANGED dbVars, UNCHANGED tx
    PROVE  IInv'
<1>1. tx \in [Anfragen -> Transaktion]
    BY DEF IInv, TypeOK
<1>2. MitKopie(r) <=> tx[r].art \in {"rest", "jsf", "loeschen"}
    BY DEF MitKopie
<1> QED
    BY <1>1, <1>2, NurGelesen DEF IInv, HerkunftInv, KopieInv, AdrKopieInv, Beendet

\* Refusing a request keeps IInv.
LEMMA AblehnenIInv ==
    ASSUME IInv, NEW r \in Anfragen, pc[r] \notin Beendet, Ablehnen(r)
    PROVE  IInv'
BY NurWeiter DEF Ablehnen, dbVars, Stufen, Beendet

\* What a find returns is a copy of the rows as they are.
LEMMA GelesenIInv ==
    ASSUME IInv, NEW r \in Anfragen, pc[r] = "bereit", NEW k \in kunden,
           NEW a \in {"rest", "jsf", "loeschen"},
           NEW stufe \in {"angezeigt", "gefunden"},
           Gelesen(r, a, k), Weiter(r, stufe), UNCHANGED dbVars
    PROVE  IInv'
<1>1. /\ tx \in [Anfragen -> Transaktion] /\ k \in Ids
      /\ zeile[k] \in Zeile /\ adresse[k] \in Adresszeile
      /\ k \in Anfragen => pc[k] = "fertig"
    BY DEF IInv, TypeOK, HerkunftInv
<1>2. /\ tx' \in [Anfragen -> Transaktion]
      /\ \A s \in Anfragen \ {r} : tx'[s] = tx[s]
      /\ tx'[r].id = k
      /\ tx'[r].kopie = zeile[k]
      /\ tx'[r].adrKopie = adresse[k]
      /\ tx'[r].adrGelesen = adresse[k]
  <2>1. tx' = [tx EXCEPT ![r] = [@ EXCEPT !.art = a, !.id = k, !.kopie = zeile[k],
                                          !.adrKopie = adresse[k], !.adrGelesen = adresse[k]]]
      BY <1>1 DEF Gelesen
  <2>2. tx[r] \in Transaktion
      BY <1>1
  <2>3. [tx[r] EXCEPT !.art = a, !.id = k, !.kopie = zeile[k],
                      !.adrKopie = adresse[k], !.adrGelesen = adresse[k]] \in Transaktion
      BY <1>1, <2>2 DEF Transaktion
  <2> QED
      BY <1>1, <2>1, <2>2, <2>3 DEF Transaktion
<1>3. zeile[k].version \in Nat /\ adresse[k].version \in Nat
    BY <1>1 DEF Zeile, Adresszeile
<1> QED
    BY <1>1, <1>2, <1>3, NurGelesen DEF Stufen, Beendet

\* What a request sends along does not touch its copy.
LEMMA NeuIInv ==
    ASSUME IInv, NEW r \in Anfragen, pc[r] \notin Beendet, tx[r].art \in {"rest", "jsf"},
           NEW stufe \in {"vorhanden", "gemischt", "abgelehnt"},
           NEW neu \in Eingabe, NEW einf \in BOOLEAN, NEW gelesen \in Adresszeile,
           tx' = [tx EXCEPT ![r] = [@ EXCEPT !.neu = neu, !.einfuegen = einf,
                                             !.adrGelesen = gelesen]],
           \/ gelesen = tx[r].adrGelesen
           \/ tx[r].art = "rest" /\ gelesen = adresse[tx[r].id],
           Weiter(r, stufe), UNCHANGED dbVars
    PROVE  IInv'
<1>1. /\ tx \in [Anfragen -> Transaktion]
      /\ adresse \in [Ids -> Adresszeile]
    BY DEF IInv, TypeOK
<1>2. tx[r] \in Transaktion /\ tx[r].id \in Ids
    BY <1>1 DEF Transaktion
<1>3. [tx[r] EXCEPT !.neu = neu, !.einfuegen = einf, !.adrGelesen = gelesen] \in Transaktion
    BY <1>2 DEF Transaktion
<1>4. /\ tx' \in [Anfragen -> Transaktion]
      /\ \A s \in Anfragen \ {r} : tx'[s] = tx[s]
      /\ tx'[r].art = tx[r].art /\ tx'[r].id = tx[r].id /\ tx'[r].kopie = tx[r].kopie
      /\ tx'[r].adrKopie = tx[r].adrKopie /\ tx'[r].adrGelesen = gelesen
    BY <1>1, <1>2, <1>3 DEF Transaktion
<1>5. adresse[tx[r].id].version \in Nat
    BY <1>1, <1>2 DEF Adresszeile
<1>6. MitKopie(r)
    BY DEF MitKopie
<1>7. tx'[r].art \in {"jsf", "loeschen"} => tx'[r].adrKopie = tx'[r].adrGelesen
    BY <1>4 DEF IInv, AdrKopieInv
<1>8. \A k \in {tx'[r].id} :
         /\ k \in Anfragen => pc[k] = "fertig"
         /\ tx'[r].kopie.version <= zeile[k].version
         /\ tx'[r].kopie.version = zeile[k].version => tx'[r].kopie.daten = zeile[k].daten
         /\ tx'[r].adrGelesen.version <= adresse[k].version
         /\ tx'[r].adrGelesen.version = adresse[k].version =>
               tx'[r].adrGelesen.ort = adresse[k].ort
    BY <1>4, <1>5, <1>6 DEF IInv, HerkunftInv, KopieInv
<1> QED
    BY <1>4, <1>7, <1>8, NurGelesen DEF Stufen, Beendet

\* createKunde looks for the e-mail and writes nothing yet.
LEMMA RegistrierenIInv ==
    ASSUME IInv, NEW r \in Anfragen, NEW neu \in Eingabe, Registrieren(r, neu)
    PROVE  IInv'
<1>1. tx \in [Anfragen -> Transaktion]
    BY DEF IInv, TypeOK
<1>2. [tx[r] EXCEPT !.art = "registrieren", !.neu = neu] \in Transaktion
    BY <1>1 DEF Transaktion
<1>3. /\ tx' \in [Anfragen -> Transaktion]
      /\ \A s \in Anfragen \ {r} : tx'[s] = tx[s]
      /\ tx'[r].art = "registrieren"
    BY <1>1, <1>2 DEF Registrieren, Transaktion
<1>4. PICK stufe \in {"geprueft", "abgelehnt"} : Weiter(r, stufe)
    BY DEF Registrieren
<1> QED
    BY <1>3, <1>4, NurGelesen DEF Registrieren, dbVars, Stufen, Beendet

-----------------------------------------------------------------------------
(* Steps that write.                                                       *)

\* A step that ends request r keeps IInv, if every row some other request has a
\* copy of either stays as it is or gets a higher version.
LEMMA Geschrieben ==
    ASSUME IInv, NEW r \in Anfragen, pc[r] # "fertig", Weiter(r, "fertig"), UNCHANGED tx,
           pc[r] # "bereit",
           kunden' \subseteq kunden \cup {r}, adressen' \subseteq adressen \cup {r},
           JederKundeHatAdresse',
           zeile' \in [Ids -> Zeile], adresse' \in [Ids -> Adresszeile],
           \A k \in Ids \ {r} :
              /\ zeile'[k] = zeile[k] \/ zeile'[k].version > zeile[k].version
              /\ adresse'[k] = adresse[k] \/ adresse'[k].version > adresse[k].version
    PROVE  IInv'
<1>1. /\ pc' \in [Anfragen -> Stufen]
      /\ pc'[r] = "fertig"
      /\ \A s \in Anfragen \ {r} : pc'[s] = pc[s]
    BY DEF IInv, TypeOK, Weiter, Stufen, Beendet
<1>2. TypeOK'
    BY <1>1 DEF IInv, TypeOK, Ids
<1>3. HerkunftInv'
    BY <1>1 DEF IInv, HerkunftInv, MitKopie, Beendet
<1>4. KopieInv'
  <2> SUFFICES ASSUME NEW s \in Anfragen, MitKopie(s)', NEW k \in {tx[s].id}
               PROVE  /\ tx[s].kopie.version <= zeile'[k].version
                      /\ tx[s].kopie.version = zeile'[k].version =>
                            tx[s].kopie.daten = zeile'[k].daten
                      /\ tx[s].adrGelesen.version <= adresse'[k].version
                      /\ tx[s].adrGelesen.version = adresse'[k].version =>
                            tx[s].adrGelesen.ort = adresse'[k].ort
      BY DEF KopieInv
  <2>1. s # r /\ MitKopie(s)
      BY <1>1 DEF MitKopie, Beendet
  <2>2. k \in Ids \ {r}
      BY <2>1 DEF IInv, TypeOK, HerkunftInv, Transaktion
  <2>3. /\ tx[s].kopie.version \in Nat /\ tx[s].adrGelesen.version \in Nat
        /\ zeile[k].version \in Nat /\ zeile'[k].version \in Nat
        /\ adresse[k].version \in Nat /\ adresse'[k].version \in Nat
      BY <2>2 DEF IInv, TypeOK, Transaktion, Zeile, Adresszeile
  <2>4. /\ tx[s].kopie.version <= zeile[k].version
        /\ tx[s].kopie.version = zeile[k].version => tx[s].kopie.daten = zeile[k].daten
        /\ tx[s].adrGelesen.version <= adresse[k].version
        /\ tx[s].adrGelesen.version = adresse[k].version =>
              tx[s].adrGelesen.ort = adresse[k].ort
      BY <2>1 DEF IInv, KopieInv
  <2> QED
      BY <2>2, <2>3, <2>4
<1>5. AdrKopieInv'
    BY DEF IInv, AdrKopieInv
<1> QED
    BY <1>2, <1>3, <1>4, <1>5 DEF IInv

\* The new customer has an id of his own and an Adresse.
LEMMA CreateKundeIInv ==
    ASSUME IInv, NEW r \in Anfragen, CreateKunde(r)
    PROVE  IInv'
<1>1. /\ zeile \in [Ids -> Zeile] /\ adresse \in [Ids -> Adresszeile]
      /\ tx[r].neu \in Eingabe /\ r \in Ids
    BY DEF IInv, TypeOK, Transaktion, Ids
<1>2. zeile' \in [Ids -> Zeile] /\ adresse' \in [Ids -> Adresszeile]
    BY <1>1 DEF CreateKunde, Einfuegen, Eingabe, Zeile, Adresszeile
<1>3. JederKundeHatAdresse'
    BY DEF IInv, JederKundeHatAdresse, CreateKunde, Einfuegen
<1> QED
    BY <1>1, <1>2, <1>3, Geschrieben DEF CreateKunde, Einfuegen

\* An update writes what exists, with a higher version.
LEMMA CommitUpdateIInv ==
    ASSUME IInv, NEW r \in Anfragen, CommitUpdate(r)
    PROVE  IInv'
<1>1. /\ zeile \in [Ids -> Zeile] /\ adresse \in [Ids -> Adresszeile]
      /\ tx[r].neu \in Eingabe /\ tx[r].id \in Ids
    BY DEF IInv, TypeOK, Transaktion
<1>2. Schreiben(r)
    BY DEF CommitUpdate, UpdateMoeglich, AgbAkzeptiert
<1>3. /\ zeile' \in [Ids -> Zeile]
      /\ \A k \in Ids : zeile'[k] = zeile[k] \/ zeile'[k].version > zeile[k].version
    BY <1>1, <1>2 DEF Schreiben, Eingabe, Zeile
<1>4. /\ adresse' \in [Ids -> Adresszeile]
      /\ \A k \in Ids : adresse'[k] = adresse[k] \/ adresse'[k].version > adresse[k].version
    BY <1>1 DEF CommitUpdate, Eingabe, Adresszeile
<1>5. JederKundeHatAdresse'
    BY <1>2 DEF IInv, JederKundeHatAdresse, CommitUpdate, Schreiben
<1> QED
    BY <1>2, <1>3, <1>4, <1>5, Geschrieben DEF CommitUpdate, Schreiben

\* A deletion takes the Adresse along.
LEMMA CommitDeleteIInv ==
    ASSUME IInv, NEW r \in Anfragen, CommitDelete(r)
    PROVE  IInv'
<1>1. zeile \in [Ids -> Zeile] /\ adresse \in [Ids -> Adresszeile]
    BY DEF IInv, TypeOK
<1>2. JederKundeHatAdresse'
    BY DEF IInv, JederKundeHatAdresse, CommitDelete
<1> QED
    BY <1>1, <1>2, Geschrieben DEF CommitDelete

-----------------------------------------------------------------------------
(* The induction.                                                          *)

\* Every step keeps IInv.
LEMMA NextIInv == IInv /\ [Next]_vars => IInv'
<1> SUFFICES ASSUME IInv, [Next]_vars PROVE IInv'
    OBVIOUS
<1>1. ASSUME UNCHANGED vars PROVE IInv'
    BY <1>1 DEF vars, IInv, TypeOK, HerkunftInv, KopieInv, AdrKopieInv, MitKopie,
                JederKundeHatAdresse
<1>2. ASSUME NEW r \in Anfragen, Eingang(r) PROVE IInv'
  <2>1. CASE \E neu \in Eingabe : Registrieren(r, neu)
      BY <2>1, RegistrierenIInv
  <2>2. CASE \E k \in Ids : FindKundeById(r, "rest", k) \/ FindKundeById(r, "jsf", k)
      BY <2>2, GelesenIInv DEF FindKundeById, dbVars
  <2>3. CASE \E k \in Ids : DeleteKundeById(r, k)
      BY <2>3, GelesenIInv DEF DeleteKundeById, dbVars
  <2> QED
      BY <1>2, <2>1, <2>2, <2>3 DEF Eingang
<1>3. ASSUME NEW r \in Anfragen, Schritt(r) PROVE IInv'
  <2>0. /\ tx[r] \in Transaktion /\ tx[r].neu \in Eingabe /\ tx[r].einfuegen \in BOOLEAN
        /\ tx[r].adrGelesen \in Adresszeile /\ tx[r].id \in Ids
        /\ tx \in [Anfragen -> Transaktion] /\ adresse[tx[r].id] \in Adresszeile
      BY DEF IInv, TypeOK, Transaktion
  <2>1. ASSUME NEW neu \in Eingabe, UpdateRest(r, neu) PROVE IInv'
    <3>1. PICK gelesen \in {adresse[tx[r].id], tx[r].adrGelesen} :
             tx' = [tx EXCEPT ![r] = [@ EXCEPT !.neu = neu, !.einfuegen = tx[r].einfuegen,
                                               !.adrGelesen = gelesen]]
        BY <2>0, <2>1 DEF UpdateRest, Transaktion
    <3>2. PICK stufe \in {"vorhanden", "abgelehnt"} : Weiter(r, stufe)
        BY <2>1 DEF UpdateRest
    <3>3. pc[r] \notin Beendet /\ tx[r].art = "rest" /\ UNCHANGED dbVars
        BY <2>1 DEF UpdateRest, Beendet, dbVars
    <3> QED
        BY <2>0, <2>1, <3>1, <3>2, <3>3, NeuIInv
  <2>2. ASSUME NEW neu \in Eingabe, UpdateJsf(r, neu) PROVE IInv'
    <3>1. tx' = [tx EXCEPT ![r] = [@ EXCEPT !.neu = neu, !.einfuegen = tx[r].einfuegen,
                                            !.adrGelesen = tx[r].adrGelesen]]
        BY <2>0, <2>2 DEF UpdateJsf, Transaktion
    <3>2. pc[r] \notin Beendet /\ tx[r].art = "jsf" /\ UNCHANGED dbVars /\ Weiter(r, "vorhanden")
        BY <2>2 DEF UpdateJsf, Beendet, dbVars
    <3> QED
        BY <2>0, <2>2, <3>1, <3>2, NeuIInv
  <2>3. CASE Merge(r)
    <3>1. tx' = [tx EXCEPT ![r] = [@ EXCEPT !.neu = tx[r].neu,
                                            !.einfuegen = tx[r].id \notin kunden,
                                            !.adrGelesen = tx[r].adrGelesen]]
        BY <2>0, <2>3 DEF Merge, Transaktion
    <3>2. PICK stufe \in {"gemischt", "abgelehnt"} : Weiter(r, stufe)
        BY <2>3 DEF Merge
    <3>3. pc[r] \notin Beendet /\ tx[r].art \in {"rest", "jsf"} /\ UNCHANGED dbVars
        BY <2>3 DEF Merge, Beendet, dbVars
    <3>4. (tx[r].id \notin kunden) \in BOOLEAN
        OBVIOUS
    <3> QED
        BY <2>0, <2>3, <3>1, <3>2, <3>3, <3>4, NeuIInv
  <2>4. CASE PruefeGeloescht(r)
    <3>1. PICK stufe \in {"gefunden", "abgelehnt"} : Weiter(r, stufe)
        BY <2>4 DEF PruefeGeloescht
    <3> QED
        BY <2>4, <3>1, NurWeiter DEF PruefeGeloescht, Stufen, Beendet, dbVars
  <2>5. CASE PruefeEmail(r)
    <3>1. PICK stufe \in {"geprueft", "abgelehnt"} : Weiter(r, stufe)
        BY <2>5 DEF PruefeEmail
    <3> QED
        BY <2>5, <3>1, NurWeiter DEF PruefeEmail, Stufen, Beendet, dbVars
  <2>6. CASE VerwerfeCreateKunde(r) \/ VerwerfeUpdate(r) \/ VerwerfeDelete(r)
      BY <2>6, AblehnenIInv DEF VerwerfeCreateKunde, VerwerfeUpdate, VerwerfeDelete, Beendet
  <2> QED
      BY <1>3, <2>1, <2>2, <2>3, <2>4, <2>5, <2>6, CreateKundeIInv, CommitUpdateIInv,
         CommitDeleteIInv DEF Schritt
<1>4. ASSUME NEW r \in Anfragen, Abbruch(r) PROVE IInv'
    BY <1>4, AblehnenIInv DEF Abbruch
<1> QED
    BY <1>1, <1>2, <1>3, <1>4 DEF Next, Ende

\* The inductive invariant holds in every reachable state.
THEOREM Induktion == Spec => []IInv
<1> QED
    BY InitIInv, NextIInv, PTL DEF Spec

\* All variables keep their types.
THEOREM TypKorrekt == Spec => []TypeOK
<1>1. IInv => TypeOK
    BY DEF IInv
<1> QED
    BY <1>1, Induktion, PTL

\* No customer is ever without an Adresse.
THEOREM NieOhneAdresse == Spec => []JederKundeHatAdresse
<1>1. IInv => JederKundeHatAdresse
    BY DEF IInv
<1> QED
    BY <1>1, Induktion, PTL

-----------------------------------------------------------------------------
(* What a step may never do.                                               *)

\* Only two actions change columns of a row: one writes a row nobody knows yet,
\* the other the row its request has a copy of.
LEMMA WerSchreibt ==
    ASSUME IInv, [Next]_vars
    PROVE  \/ zeile' = zeile /\ adresse' = adresse
           \/ \E r \in Anfragen :
                 /\ CreateKunde(r)
                 /\ r \notin kunden \cup adressen
                 /\ \A k \in Ids \ {r} : zeile'[k] = zeile[k] /\ adresse'[k] = adresse[k]
           \/ \E r \in Anfragen :
                 /\ CommitUpdate(r)
                 /\ Schreiben(r)
                 /\ \A k \in Ids \ {tx[r].id} : zeile'[k] = zeile[k] /\ adresse'[k] = adresse[k]
<1>1. zeile \in [Ids -> Zeile] /\ adresse \in [Ids -> Adresszeile]
    BY DEF IInv, TypeOK
<1>2. CASE \E r \in Anfragen : CreateKunde(r)
  <2>1. PICK r \in Anfragen : CreateKunde(r)
      BY <1>2
  <2>2. r \notin kunden \cup adressen
      BY <2>1 DEF CreateKunde, IInv, HerkunftInv
  <2>3. \A k \in Ids \ {r} : zeile'[k] = zeile[k] /\ adresse'[k] = adresse[k]
      BY <1>1, <2>1 DEF CreateKunde, Einfuegen
  <2> QED
      BY <2>1, <2>2, <2>3
<1>3. CASE \E r \in Anfragen : CommitUpdate(r)
  <2>1. PICK r \in Anfragen : CommitUpdate(r)
      BY <1>3
  <2>2. Schreiben(r)
      BY <2>1 DEF CommitUpdate, UpdateMoeglich, AgbAkzeptiert
  <2>3. \A k \in Ids \ {tx[r].id} : zeile'[k] = zeile[k] /\ adresse'[k] = adresse[k]
      BY <1>1, <2>1, <2>2 DEF CommitUpdate, Schreiben
  <2> QED
      BY <2>1, <2>2, <2>3
<1>4. CASE ~ \E r \in Anfragen : CreateKunde(r) \/ CommitUpdate(r)
    BY <1>4 DEF Next, Ende, Eingang, Schritt, Abbruch, Ablehnen, Registrieren, FindKundeById,
       DeleteKundeById, UpdateRest, UpdateJsf, VerwerfeCreateKunde, PruefeGeloescht, PruefeEmail,
       Merge, VerwerfeUpdate, CommitDelete, VerwerfeDelete, vars
<1> QED
    BY <1>2, <1>3, <1>4

\* Nobody overwrites a customer he has not seen as he is.
THEOREM KeinVerlorenesUpdate == Spec => KundeNichtUeberschrieben
<1>1. ASSUME IInv, [Next]_vars PROVE [KundeAusKopie]_vars
  <2> SUFFICES ASSUME NEW k \in kunden, k \in kunden', zeile'[k].daten # zeile[k].daten
               PROVE  \E r \in Anfragen : /\ pc'[r] # pc[r]
                                         /\ tx[r].id = k
                                         /\ tx[r].kopie.daten = zeile[k].daten
      BY DEF KundeAusKopie
  <2>1. k \in Ids
      BY <1>1 DEF IInv, TypeOK
  <2>2. PICK r \in Anfragen : CommitUpdate(r) /\ Schreiben(r) /\ tx[r].id = k
      BY <1>1, <2>1, WerSchreibt
  <2>3. VersionPasst(r)
      BY <2>2 DEF CommitUpdate, UpdateMoeglich, Schreiben, AgbAkzeptiert
  <2>4. MitKopie(r)
      BY <2>2 DEF CommitUpdate, MitKopie, Beendet
  <2>5. tx[r].kopie.daten = zeile[k].daten
      BY <1>1, <2>2, <2>3, <2>4 DEF IInv, KopieInv, VersionPasst
  <2>6. pc'[r] # pc[r]
      BY <1>1, <2>2 DEF CommitUpdate, Schreiben, Weiter, IInv, TypeOK
  <2> QED
      BY <2>2, <2>5, <2>6
<1> QED
    BY <1>1, Induktion, PTL DEF Spec, KundeNichtUeberschrieben

\* The JSF pages do not overwrite an Adresse they have not shown.
THEOREM KeineVerloreneAdresse == Spec => JsfAdresseNichtUeberschrieben
<1>1. ASSUME IInv, [Next]_vars PROVE [AdresseAusKopie({"jsf"})]_vars
  <2> SUFFICES ASSUME NEW k \in adressen, k \in adressen', adresse'[k].ort # adresse[k].ort
               PROVE  \E r \in Anfragen :
                         /\ pc'[r] # pc[r]
                         /\ tx[r].id = k
                         /\ tx[r].art \in {"jsf"} => tx[r].adrKopie.ort = adresse[k].ort
      BY DEF AdresseAusKopie
  <2>1. k \in Ids
      BY <1>1 DEF IInv, TypeOK
  <2>2. PICK r \in Anfragen : CommitUpdate(r) /\ Schreiben(r) /\ tx[r].id = k
      BY <1>1, <2>1, WerSchreibt
  <2>3. AdressversionPasst(r)
      BY <2>2 DEF CommitUpdate, UpdateMoeglich
  <2>4. MitKopie(r)
      BY <2>2 DEF CommitUpdate, MitKopie, Beendet
  <2>5. tx[r].adrGelesen.ort = adresse[k].ort
      BY <1>1, <2>2, <2>3, <2>4 DEF IInv, KopieInv, AdressversionPasst
  <2>6. pc'[r] # pc[r]
      BY <1>1, <2>2 DEF CommitUpdate, Schreiben, Weiter, IInv, TypeOK
  <2> QED
      BY <1>1, <2>2, <2>5, <2>6 DEF IInv, AdrKopieInv
<1> QED
    BY <1>1, Induktion, PTL DEF Spec, JsfAdresseNichtUeberschrieben

\* A deletion takes away what it has looked at, and nothing newer.
THEOREM LoeschenGesehen == Spec => NurGesehenesGeloescht
<1>1. ASSUME IInv, [Next]_vars PROVE [KundeGeloescht]_vars
  <2> SUFFICES ASSUME NEW r \in Anfragen, tx[r].art = "loeschen",
                      pc[r] # "fertig", pc'[r] = "fertig"
               PROVE  /\ zeile[tx[r].id].daten = tx[r].kopie.daten
                      /\ tx[r].id \in adressen => adresse[tx[r].id].ort = tx[r].adrKopie.ort
      BY DEF KundeGeloescht
  <2>1. pc \in [Anfragen -> Stufen]
      BY <1>1 DEF IInv, TypeOK
  <2>2. CommitDelete(r)
    <3>1. PICK s \in Anfragen : Eingang(s) \/ Schritt(s) \/ Abbruch(s)
        BY <1>1 DEF Next, Ende, vars
    <3>2. CASE CreateKunde(s) \/ CommitUpdate(s) \/ CommitDelete(s)
        BY <2>1, <3>2 DEF CreateKunde, CommitUpdate, UpdateMoeglich, AgbAkzeptiert, CommitDelete,
           Einfuegen, Schreiben, Weiter
    <3>3. CASE ~ (CreateKunde(s) \/ CommitUpdate(s) \/ CommitDelete(s))
        BY <2>1, <3>1, <3>3 DEF Eingang, Schritt, Abbruch, Ablehnen, Registrieren, FindKundeById,
           DeleteKundeById, UpdateRest, UpdateJsf, VerwerfeCreateKunde, PruefeGeloescht,
           PruefeEmail, Merge, VerwerfeUpdate, VerwerfeDelete, Weiter
    <3> QED
        BY <3>2, <3>3
  <2>3. MitKopie(r)
      BY <2>2 DEF CommitDelete, MitKopie, Beendet
  <2> QED
      BY <1>1, <2>2, <2>3 DEF CommitDelete, LoeschenMoeglich, VersionPasst, AdressversionPasst,
         IInv, KopieInv, AdrKopieInv
<1> QED
    BY <1>1, Induktion, PTL DEF Spec, NurGesehenesGeloescht

\* The id of a first customer, or of a request that has ended: whoever had it, or
\* was to have it, has been inserted before or not at all.
Vergeben(k) == k \in Anfragen => pc[k] = "fertig"

BleibtGeloescht ==
    \A k \in Ids : k \notin kunden /\ Vergeben(k) => k \notin kunden' /\ Vergeben(k)'

\* Deleted for good: an id whose customer is gone is not given to a customer
\* again, neither by the INSERT merge makes of a detached copy (updateKunde) nor
\* by a registration that has ended.
THEOREM GeloeschtKommtNichtWieder == Spec => [][BleibtGeloescht]_vars
<1>1. ASSUME IInv, [Next]_vars, NEW k \in Ids, k \notin kunden,
             k \in Anfragen => pc[k] = "fertig"
      PROVE  k \notin kunden' /\ (k \in Anfragen => pc'[k] = "fertig")
  <2>1. pc \in [Anfragen -> Stufen]
      BY <1>1 DEF IInv, TypeOK
  <2>2. CASE \E r \in Anfragen : CreateKunde(r) \/ CommitUpdate(r)
    <3>1. PICK r \in Anfragen : CreateKunde(r) \/ CommitUpdate(r)
        BY <2>2
    <3>2. pc[r] # "fertig" /\ Weiter(r, "fertig") /\ kunden' \subseteq kunden \cup {r}
        BY <3>1 DEF CreateKunde, CommitUpdate, UpdateMoeglich, AgbAkzeptiert, Einfuegen, Schreiben
    <3> QED
        BY <1>1, <2>1, <3>2 DEF Weiter
  <2>3. CASE \E r \in Anfragen : CommitDelete(r)
      BY <1>1, <2>1, <2>3 DEF CommitDelete, Weiter
  <2>4. CASE ~ \E r \in Anfragen : CreateKunde(r) \/ CommitUpdate(r) \/ CommitDelete(r)
    <3>1. kunden' = kunden
        BY <1>1, <2>4 DEF Next, Ende, Eingang, Schritt, Abbruch, Ablehnen, Registrieren,
           FindKundeById, DeleteKundeById, UpdateRest, UpdateJsf, VerwerfeCreateKunde,
           PruefeGeloescht, PruefeEmail, Merge, VerwerfeUpdate, VerwerfeDelete, vars
    <3>2. UNCHANGED pc \/ \E s \in Anfragen, stufe \in Stufen : pc[s] # "fertig" /\ Weiter(s, stufe)
        BY <1>1, <2>1, <2>4 DEF Next, Ende, Eingang, Schritt, Abbruch, Ablehnen, Registrieren,
           FindKundeById, DeleteKundeById, UpdateRest, UpdateJsf, VerwerfeCreateKunde,
           PruefeGeloescht, PruefeEmail, Merge, VerwerfeUpdate, VerwerfeDelete, vars,
           Beendet, Stufen
    <3> QED
        BY <1>1, <2>1, <3>1, <3>2 DEF Weiter
  <2> QED
      BY <2>2, <2>3, <2>4
<1>2. IInv /\ [Next]_vars => [BleibtGeloescht]_vars
    BY <1>1 DEF BleibtGeloescht, Vergeben
<1> QED
    BY <1>2, Induktion, PTL DEF Spec
=============================================================================
