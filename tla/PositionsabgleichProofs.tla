----------------------- MODULE PositionsabgleichProofs -----------------------
(***************************************************************************)
(* Proofs about Positionsabgleich for orders of any length and any set of  *)
(* articles.                                                               *)
(***************************************************************************)
EXTENDS Positionsabgleich, TLAPS

\* The query finds the articles among the numbers, and nothing else.
LEMMA TrefferRichtig ==
    ASSUME NEW ids \in Seq(Ids), NEW k \in 1..Len(ids)
    PROVE  /\ Treffer(ids) \subseteq Artikel
           /\ ids[k] \in Treffer(ids) <=> ids[k] \in Artikel
BY DEF Treffer

\* IInv holds before the first URI is looked at.
LEMMA InitIInv == Init => IInv
<1> SUFFICES ASSUME Init PROVE IInv
    OBVIOUS
<1>1. PICK n \in 1..MaxPositionen : uris \in [1..n -> Ids \cup {Ohne}]
    BY DEF Init
<1>2. n \in Nat /\ Len(uris) = n /\ uris \in Seq(Ids \cup {Ohne})
    BY <1>1, KonstantenAnnahme
<1>3. TypeOK
    BY <1>2 DEF Init, TypeOK
<1> QED
    BY <1>1, <1>2, <1>3 DEF Init, IInv, GleicherPlatz, Gesammelt, Zugeordnet, Gefunden, Ausgang

-----------------------------------------------------------------------------
(* The first pass.                                                         *)

\* A URI with a number makes both lists longer.
LEMMA LiesUriSchritt == IInv /\ LiesUri => IInv'
<1> SUFFICES ASSUME IInv, LiesUri PROVE IInv'
    OBVIOUS
<1> DEFINE u == uris[gelesen + 1]
<1>1. /\ UNCHANGED <<uris, pc, gefundeneArtikel, i, artikel>>
      /\ pc = "lesen" /\ gelesen \in Nat /\ gelesen < Len(uris) /\ gelesen' = gelesen + 1
      /\ artikelIds' = Append(artikelIds, u)
      /\ u # Ohne /\ u \in Ids
    BY DEF LiesUri, IInv, TypeOK
<1>2. /\ artikelIds \in Seq(Ids) /\ artikelIds' \in Seq(Ids)
      /\ Len(artikelIds') = Len(artikelIds) + 1
      /\ artikelIds'[Len(artikelIds) + 1] = u
      /\ \A p \in 1..Len(artikelIds) : artikelIds'[p] = artikelIds[p]
      /\ Len(artikelIds) \in Nat
      /\ artikelIds' # <<>>
    BY <1>1 DEF IInv, TypeOK
<1>3. i = 0
    BY <1>1 DEF IInv, Zugeordnet, TypeOK
<1>4. TypeOK'
    BY <1>1, <1>2 DEF IInv, TypeOK
<1>5. GleicherPlatz'
    BY <1>1, <1>2 DEF IInv, GleicherPlatz
<1>6. Zugeordnet'
    BY <1>1, <1>2, <1>3 DEF IInv, Zugeordnet
<1>7. Gefunden'
    BY <1>1 DEF Gefunden
<1>8. Ausgang'
    BY <1>1, <1>2 DEF IInv, Ausgang
<1>9. Gesammelt'
    <2>1. ASSUME NEW k \in 1..Len(artikelIds')
          PROVE  \E p \in 1..gelesen' : artikelIds'[k] = uris[p]
        <3>1. CASE k = Len(artikelIds')
            BY <1>1, <1>2, <3>1
        <3>2. CASE k # Len(artikelIds')
            <4>1. k \in 1..Len(artikelIds)
                BY <1>2, <3>2
            <4> QED
                BY <1>1, <1>2, <4>1 DEF IInv, Gesammelt
        <3> QED
            BY <3>1, <3>2
    <2>2. ASSUME NEW p \in 1..gelesen', uris[p] # Ohne
          PROVE  \E k \in 1..Len(artikelIds') : artikelIds'[k] = uris[p]
        <3>1. CASE p = gelesen + 1
            BY <1>1, <1>2, <3>1
        <3>2. CASE p # gelesen + 1
            <4>1. PICK k \in 1..Len(artikelIds) : artikelIds[k] = uris[p]
                BY <1>1, <2>2, <3>2 DEF IInv, Gesammelt
            <4> QED
                BY <1>2, <4>1
        <3> QED
            BY <3>1, <3>2
    <2> QED
        BY <1>1, <2>1, <2>2 DEF Gesammelt
<1> QED
    BY <1>1, <1>4, <1>5, <1>6, <1>7, <1>8, <1>9 DEF IInv

\* A URI without a number makes the second list shorter for good.
LEMMA UebergeheUriSchritt == IInv /\ UebergeheUri => IInv'
<1> SUFFICES ASSUME IInv, UebergeheUri PROVE IInv'
    OBVIOUS
<1>1. /\ UNCHANGED <<uris, pc, artikelIds, gefundeneArtikel, i, artikel>>
      /\ pc = "lesen" /\ gelesen \in Nat /\ gelesen < Len(uris) /\ gelesen' = gelesen + 1
      /\ uris[gelesen + 1] = Ohne
      /\ Len(artikelIds) \in Nat /\ Len(uris) \in Nat
    BY DEF UebergeheUri, IInv, TypeOK
<1>2. TypeOK'
    BY <1>1 DEF IInv, TypeOK
<1>3. GleicherPlatz'
    BY <1>1 DEF IInv, GleicherPlatz
<1>4. Zugeordnet'
    BY <1>1 DEF IInv, Zugeordnet
<1>5. Gefunden'
    BY <1>1 DEF Gefunden
<1>6. Ausgang'
    BY <1>1 DEF IInv, Ausgang
<1>7. Gesammelt'
    <2>1. ASSUME NEW k \in 1..Len(artikelIds)
          PROVE  \E p \in 1..(gelesen + 1) : artikelIds[k] = uris[p]
        <3>1. PICK p \in 1..gelesen : artikelIds[k] = uris[p]
            BY DEF IInv, Gesammelt
        <3>2. p \in 1..(gelesen + 1)
            BY <1>1
        <3> QED
            BY <3>1, <3>2
    <2>2. ASSUME NEW p \in 1..(gelesen + 1), uris[p] # Ohne
          PROVE  \E k \in 1..Len(artikelIds) : artikelIds[k] = uris[p]
        <3>1. p \in 1..gelesen
            BY <1>1, <2>2
        <3> QED
            BY <2>2, <3>1 DEF IInv, Gesammelt
    <2> QED
        BY <1>1, <2>1, <2>2 DEF Gesammelt
<1> QED
    BY <1>1, <1>2, <1>3, <1>4, <1>5, <1>6, <1>7 DEF IInv

\* The end of the first pass, and the query.
LEMMA SucheSchritt ==
    IInv /\ (KeineArtikelId \/ IdsGelesen \/ FindArtikelByIds \/ KeineGefunden) => IInv'
<1> SUFFICES ASSUME IInv, KeineArtikelId \/ IdsGelesen \/ FindArtikelByIds \/ KeineGefunden
             PROVE  IInv'
    OBVIOUS
<1>1. UNCHANGED <<uris, gelesen, artikelIds, i, artikel>>
    BY DEF KeineArtikelId, IdsGelesen, FindArtikelByIds, KeineGefunden
<1>2. /\ i = 0
      /\ pc \in {"lesen", "suchen"}
      /\ gelesen = Len(uris)
    BY DEF KeineArtikelId, IdsGelesen, FindArtikelByIds, KeineGefunden, IInv, TypeOK, Zugeordnet, GleicherPlatz
<1>3. \/ pc' = "abgelehnt" /\ Treffer(artikelIds) = {} /\ UNCHANGED gefundeneArtikel
      \/ pc' = "suchen" /\ UNCHANGED gefundeneArtikel
      \/ /\ pc' = "zuordnen" /\ Treffer(artikelIds) # {}
         /\ gefundeneArtikel' = Treffer(artikelIds)
    BY DEF KeineArtikelId, IdsGelesen, FindArtikelByIds, KeineGefunden, Treffer
<1>4. Treffer(artikelIds) \subseteq Artikel
    BY DEF Treffer
<1>5. TypeOK'
    BY <1>1, <1>3, <1>4 DEF IInv, TypeOK
<1>6. GleicherPlatz'
    BY <1>1, <1>2 DEF IInv, GleicherPlatz
<1>7. Zugeordnet'
    BY <1>1, <1>2 DEF IInv, Zugeordnet
<1>8. Gefunden'
    BY <1>1, <1>3 DEF Gefunden, Treffer
<1>9. Ausgang'
    BY <1>1, <1>3 DEF IInv, Ausgang, Treffer
<1>10. Gesammelt'
    BY <1>1 DEF IInv, Gesammelt
<1> QED
    BY <1>1, <1>5, <1>6, <1>7, <1>8, <1>9, <1>10 DEF IInv

-----------------------------------------------------------------------------
(* The second pass.                                                        *)

\* The next position gets the article of the same place.
LEMMA ZuordnenSchritt == IInv /\ Zuordnen => IInv'
<1> SUFFICES ASSUME IInv, Zuordnen PROVE IInv'
    OBVIOUS
<1> DEFINE a == artikelIds[i + 1]
<1>1. /\ UNCHANGED <<uris, pc, gelesen, artikelIds, gefundeneArtikel>>
      /\ pc = "zuordnen" /\ i \in Nat /\ i < Len(uris) /\ i < Len(artikelIds) /\ i' = i + 1
      /\ artikel' = IF a \in gefundeneArtikel THEN [artikel EXCEPT ![i + 1] = a] ELSE artikel
      /\ artikelIds \in Seq(Ids) /\ Len(artikelIds) \in Nat /\ Len(uris) \in Nat
      /\ i + 1 \in 1..Len(uris) /\ i + 1 \in 1..Len(artikelIds)
    BY DEF Zuordnen, IInv, TypeOK
<1>2. a \in gefundeneArtikel <=> a \in Artikel
    BY <1>1, TrefferRichtig DEF IInv, Gefunden
<1>3. /\ artikel \in [1..Len(uris) -> Artikel \cup {Ohne}]
      /\ artikel[i + 1] = Ohne
    BY <1>1 DEF IInv, TypeOK, Zugeordnet
<1>4. /\ artikel' \in [1..Len(uris) -> Artikel \cup {Ohne}]
      /\ artikel'[i + 1] = IF a \in Artikel THEN a ELSE Ohne
      /\ \A p \in 1..Len(uris) : p # i + 1 => artikel'[p] = artikel[p]
    BY <1>1, <1>2, <1>3
<1>5. TypeOK'
    BY <1>1, <1>4 DEF IInv, TypeOK
<1>6. GleicherPlatz' /\ Gesammelt' /\ Gefunden' /\ Ausgang'
    BY <1>1 DEF IInv, GleicherPlatz, Gesammelt, Gefunden, Ausgang
<1>7. Zugeordnet'
  <2>1. ASSUME NEW p \in 1..(i + 1)
        PROVE  artikel'[p] = IF artikelIds[p] \in Artikel THEN artikelIds[p] ELSE Ohne
    <3>1. CASE p = i + 1
        BY <1>4, <3>1
    <3>2. CASE p # i + 1
      <4>1. p \in 1..i /\ p \in 1..Len(uris)
          BY <1>1, <3>2
      <4> QED
          BY <1>4, <3>2, <4>1 DEF IInv, Zugeordnet
    <3> QED
        BY <3>1, <3>2
  <2>2. \A p \in 1..Len(uris) : p > i + 1 => artikel'[p] = Ohne
      BY <1>1, <1>4 DEF IInv, Zugeordnet
  <2> QED
      BY <1>1, <2>1, <2>2 DEF Zugeordnet
<1> QED
    BY <1>1, <1>5, <1>6, <1>7 DEF IInv

\* If both lists have the same places and the query has found something, a
\* position is left.
LEMMA EinePositionBleibt == IInv => NieLeer
<1> SUFFICES ASSUME IInv, pc = "zuordnen", i = Len(uris) PROVE Bestellt # {}
    BY DEF NieLeer
<1>1. PICK a \in Artikel, k \in 1..Len(artikelIds) : artikelIds[k] = a
    BY DEF IInv, Gefunden, Treffer
<1>2. k \in 1..i /\ k \in 1..Len(uris)
    BY DEF IInv, TypeOK, Zugeordnet, GleicherPlatz
<1>3. artikel[k] = a
    BY <1>1, <1>2 DEF IInv, Zugeordnet
<1> QED
    BY <1>2, <1>3, KonstantenAnnahme DEF Bestellt

\* The request is answered.
LEMMA AntwortSchritt == IInv /\ (IndexZuGross \/ CreateBestellung) => IInv'
<1> SUFFICES ASSUME IInv, IndexZuGross \/ CreateBestellung PROVE IInv'
    OBVIOUS
<1>1. /\ UNCHANGED <<uris, gelesen, artikelIds, gefundeneArtikel, i, artikel>>
      /\ pc = "zuordnen"
      /\ \/ pc' = "fehler" /\ i < Len(uris) /\ i >= Len(artikelIds)
         \/ pc' = "bestellt" /\ i = Len(uris)
    BY EinePositionBleibt DEF IndexZuGross, CreateBestellung, NieLeer
<1>2. TypeOK'
    BY <1>1 DEF IInv, TypeOK
<1>3. GleicherPlatz' /\ Gesammelt' /\ Zugeordnet' /\ Gefunden'
    BY <1>1 DEF IInv, GleicherPlatz, Gesammelt, Zugeordnet, Gefunden, Treffer
<1>4. Ausgang'
    BY <1>1 DEF IInv, TypeOK, Ausgang, Gefunden, Treffer
<1> QED
    BY <1>1, <1>2, <1>3, <1>4 DEF IInv

-----------------------------------------------------------------------------
(* The theorems.                                                           *)

\* IInv is inductive: the two lists of bestellen have the same places as long
\* as every URI has had a number.
THEOREM Induktion == IInv /\ [Next]_vars => IInv'
<1> SUFFICES ASSUME IInv, [Next]_vars PROVE IInv'
    OBVIOUS
<1>1. CASE UNCHANGED vars
    BY <1>1 DEF vars, IInv, TypeOK, GleicherPlatz, Gesammelt, Zugeordnet, Gefunden,
                Ausgang, Treffer, Bestellt
<1> QED
    BY <1>1, LiesUriSchritt, UebergeheUriSchritt, SucheSchritt, ZuordnenSchritt, AntwortSchritt
    DEF Next, Ende

\* IInv holds in every state the program reaches.
LEMMA IInvGilt == Spec => []IInv
<1> QED
    BY InitIInv, Induktion, PTL DEF Spec

\* All variables keep their types: in particular the index of the second pass
\* never leaves the list of positions (BestellungResource.bestellen).
THEOREM TypKorrekt == Spec => []TypeOK
<1>1. IInv => TypeOK
    BY DEF IInv
<1> QED
    BY <1>1, IInvGilt, PTL

\* ArtikelPasst: an order created over REST has the articles its URIs name.
THEOREM ImmerPassend == Spec => []ArtikelPasst
<1>1. IInv => ArtikelPasst
  <2> SUFFICES ASSUME IInv, pc = "bestellt", NEW p \in 1..Len(uris)
               PROVE  artikel[p] = Soll(p)
      BY DEF ArtikelPasst
  <2>1. i = Len(uris) /\ gelesen = Len(uris) /\ Len(artikelIds) = Len(uris)
      BY DEF IInv, TypeOK, Ausgang, GleicherPlatz, Zugeordnet
  <2>2. artikelIds[p] = uris[p]
      BY <2>1 DEF IInv, GleicherPlatz
  <2> QED
      BY <2>1, <2>2 DEF IInv, Zugeordnet, Soll
<1> QED
    BY <1>1, IInvGilt, PTL

\* AntwortGenau: the outcome of bestellen is a function of the URIs.  An order
\* one of whose URIs has no number is never created, wherever that URI stands.
THEOREM AusgangBestimmt == Spec => []AntwortGenau
<1>1. IInv => AntwortGenau
  <2> SUFFICES ASSUME IInv PROVE AntwortGenau
      OBVIOUS
  <2> DEFINE eineNenntArtikel == \E p \in 1..Len(uris) : uris[p] \in Artikel
             eineOhneNummer == \E p \in 1..Len(uris) : uris[p] = Ohne
  <2>1. /\ Len(uris) \in Nat /\ Len(artikelIds) \in Nat
        /\ pc # "lesen" => gelesen = Len(uris)
      BY DEF IInv, TypeOK, GleicherPlatz
  <2>2. ASSUME pc # "lesen" PROVE Treffer(artikelIds) # {} <=> eineNenntArtikel
    <3>1. ASSUME Treffer(artikelIds) # {} PROVE eineNenntArtikel
        <4>1. PICK k \in 1..Len(artikelIds) : artikelIds[k] \in Artikel
            BY <3>1 DEF Treffer
        <4>2. PICK p \in 1..gelesen : artikelIds[k] = uris[p]
            BY DEF IInv, Gesammelt
        <4> QED
            BY <2>1, <2>2, <4>1, <4>2
    <3>2. ASSUME NEW p \in 1..Len(uris), uris[p] \in Artikel PROVE Treffer(artikelIds) # {}
        <4>1. uris[p] # Ohne /\ p \in 1..gelesen
            BY <2>1, <2>2, <3>2, KonstantenAnnahme
        <4>2. PICK k \in 1..Len(artikelIds) : artikelIds[k] = uris[p]
            BY <4>1 DEF IInv, Gesammelt
        <4> QED
            BY <3>2, <4>2 DEF Treffer
    <3> QED
        BY <3>1, <3>2
  <2>3. ASSUME pc # "lesen" PROVE Len(artikelIds) = Len(uris) <=> ~ eineOhneNummer
    <3>1. ASSUME Len(artikelIds) = Len(uris), NEW p \in 1..Len(uris) PROVE uris[p] # Ohne
        <4>1. artikelIds[p] = uris[p] /\ artikelIds[p] \in Ids
            BY <2>1, <2>3, <3>1 DEF IInv, TypeOK, GleicherPlatz
        <4> QED
            BY <4>1, KonstantenAnnahme DEF Ids
    <3>2. ASSUME ~ eineOhneNummer PROVE Len(artikelIds) = Len(uris)
        BY <2>1, <2>3, <3>2 DEF IInv, Ausgang
    <3> QED
        BY <3>1, <3>2
  <2>4. pc = "abgelehnt" => ~ eineNenntArtikel
      BY <2>2 DEF IInv, Ausgang
  <2>5. pc = "fehler" => eineNenntArtikel /\ eineOhneNummer
    <3> SUFFICES ASSUME pc = "fehler" PROVE eineNenntArtikel /\ eineOhneNummer
        OBVIOUS
    <3>1. Len(artikelIds) < Len(uris) /\ Treffer(artikelIds) # {}
        BY DEF IInv, Ausgang
    <3> QED
        BY <2>1, <2>2, <2>3, <3>1
  <2>6. pc = "bestellt" => eineNenntArtikel /\ ~ eineOhneNummer
    <3> SUFFICES ASSUME pc = "bestellt" PROVE eineNenntArtikel /\ ~ eineOhneNummer
        OBVIOUS
    <3>1. i = Len(uris) /\ Treffer(artikelIds) # {}
        BY DEF IInv, Ausgang
    <3>2. Len(artikelIds) = Len(uris)
        BY <2>1, <3>1 DEF IInv, TypeOK, Zugeordnet, GleicherPlatz
    <3> QED
        BY <2>2, <2>3, <3>1, <3>2
  <2> QED
      BY <2>4, <2>5, <2>6 DEF AntwortGenau
<1> QED
    BY <1>1, IInvGilt, PTL

\* VollstaendigeBestellt: no order is turned away by bestellen if each of its
\* positions names an article.
THEOREM NieAbgewiesen == Spec => []VollstaendigeBestellt
<1>1. IInv /\ AntwortGenau => VollstaendigeBestellt
  <2> SUFFICES ASSUME IInv, AntwortGenau, AlleNennenArtikel
               PROVE  pc \notin {"abgelehnt", "fehler"}
      BY DEF VollstaendigeBestellt
  <2>1. 1 \in 1..Len(uris)
      BY DEF IInv, TypeOK
  <2>2. \A p \in 1..Len(uris) : uris[p] \in Artikel /\ uris[p] # Ohne
      BY KonstantenAnnahme DEF AlleNennenArtikel
  <2> QED
      BY <2>1, <2>2 DEF AntwortGenau
<1> QED
    BY <1>1, IInvGilt, AusgangBestimmt, PTL

\* NieLeer: the second pass never leaves an order without a position.
THEOREM NieOhnePosition == Spec => []NieLeer
<1> QED
    BY IInvGilt, EinePositionBleibt, PTL
=============================================================================
