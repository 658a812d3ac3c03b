------------------------- MODULE ArtikelpflegeProofs -------------------------
(***************************************************************************)
(* Proofs about Artikelpflege for any number of articles, requests and     *)
(* visits of the form.                                                     *)
(***************************************************************************)
EXTENDS Artikelpflege, TLAPS

\* The empty values have their types.
LEMMA LeereWerte ==
    /\ KeineZeile \in Zeile
    /\ KeinPut \in Put /\ KeinPut.stufe = "frei"
    /\ KeinGet \in Get /\ KeinGet.stufe = "frei" /\ KeinGet.zweck = "suche"
    /\ Verbraucht \in Get /\ Verbraucht.stufe = "fertig" /\ Verbraucht.zweck = "suche"
    /\ NeueMaske \in Maske
BY DEF KeineZeile, Zeile, KeinPut, Put, KeinGet, Get, Verbraucht, NeueMaske, Maske

LEMMA ErledigtTyp ==
    ASSUME NEW stufe \in {"fertig", "abgelehnt"}
    PROVE  Erledigt(stufe) \in Put /\ Erledigt(stufe).stufe = stufe
BY LeereWerte DEF Erledigt, Put, KeinPut

LEMMA InitPflegeIInv == PflegeInit => PflegeIInv
<1> SUFFICES ASSUME PflegeInit PROVE PflegeIInv
    OBVIOUS
<1>1. PICK z \in [vorhanden -> NeueZeilen] :
          zeile = [id \in Artikel |-> IF id \in vorhanden THEN z[id] ELSE KeineZeile]
    BY DEF PflegeInit, ArtikelInit
<1>2. vorhanden \subseteq Artikel
    BY DEF PflegeInit, ArtikelInit
<1>3. \A id \in vorhanden : /\ zeile[id] \in Zeile
                            /\ zeile[id].bezeichnung # Ohne /\ zeile[id].preis # Ohne
    <2> SUFFICES ASSUME NEW id \in vorhanden
                 PROVE  /\ zeile[id] \in Zeile
                        /\ zeile[id].bezeichnung # Ohne /\ zeile[id].preis # Ohne
        OBVIOUS
    <2>1. z[id] \in NeueZeilen /\ zeile[id] = z[id]
        BY <1>1, <1>2
    <2>2. /\ zeile[id].bezeichnung \in Bezeichnungen /\ zeile[id].preis \in Preise
          /\ zeile[id] \in Zeile
        BY <2>1 DEF NeueZeilen, Zeile
    <2> QED
        BY <2>2, ArtikelAnnahme
<1>4. zeile \in [Artikel -> Zeile]
    BY <1>1, <1>3, LeereWerte
<1>5. PflegeTypeOK
    BY <1>2, <1>4, LeereWerte DEF PflegeInit, ArtikelInit, PflegeTypeOK, ArtikelTypeOK
<1>6. PutsStimmen /\ FormularStimmt
    BY LeereWerte DEF PflegeInit, ArtikelInit, PutsStimmen, FormularStimmt
<1>7. AnzeigeStimmt /\ AntwortStimmt /\ AnfrageDerMaske
    BY LeereWerte DEF PflegeInit, AnzeigeStimmt, AntwortStimmt, AnfrageDerMaske
<1> QED
    BY <1>3, <1>5, <1>6, <1>7 DEF PflegeIInv, NieUnvollstaendig

-----------------------------------------------------------------------------
(* The requests that change rows.                                          *)

\* What a step does to the rows if it does anything: articles stay, and a row
\* that changes gets the next version.
VersionWaechst ==
    /\ vorhanden \subseteq vorhanden'
    /\ \A id \in vorhanden : \/ zeile'[id] = zeile[id]
                             \/ zeile'[id].version = zeile[id].version + 1

\* Values that agree with a row go on to do so, or become old.
LEMMA StimmtBleibt ==
    ASSUME ArtikelTypeOK, VersionWaechst, NEW id, NEW werte \in Zeile, Stimmt(id, werte)
    PROVE  /\ id \in vorhanden'
           /\ werte.version <= zeile'[id].version
           /\ werte.version = zeile'[id].version =>
                 werte.ausgesondert = zeile'[id].ausgesondert
<1>1. /\ id \in Artikel /\ id \in vorhanden /\ zeile[id] \in Zeile
      /\ werte.version \in Nat /\ zeile[id].version \in Nat
    BY DEF ArtikelTypeOK, Stimmt, Zeile
<1> QED
    BY <1>1 DEF VersionWaechst, Stimmt

\* The browser notices nothing of such a step.
LEMMA BrowserUnberuehrt ==
    ASSUME PflegeIInv, VersionWaechst, ArtikelTypeOK', UNCHANGED pflegeVars
    PROVE  PflegeTypeOK' /\ AnzeigeStimmt' /\ AntwortStimmt' /\ AnfrageDerMaske'
<1>1. PflegeTypeOK' /\ AnzeigeStimmt' /\ AnfrageDerMaske'
    BY DEF PflegeIInv, PflegeTypeOK, AnzeigeStimmt, AnfrageDerMaske, pflegeVars
<1>2. ArtikelTypeOK /\ get \in [Gets -> Get]
    BY DEF PflegeIInv, PflegeTypeOK
<1>3. ASSUME NEW q \in Gets, get[q].stufe = "beantwortet"
      PROVE  /\ get[q].id \in vorhanden'
             /\ get[q].antwort.version <= zeile'[get[q].id].version
             /\ get[q].antwort.version = zeile'[get[q].id].version =>
                   get[q].antwort.ausgesondert = zeile'[get[q].id].ausgesondert
    <2>1. get[q].antwort \in Zeile
        BY <1>2 DEF Get
    <2>2. Stimmt(get[q].id, get[q].antwort)
        BY <1>3 DEF PflegeIInv, AntwortStimmt
    <2> QED
        BY <1>2, <2>1, <2>2, StimmtBleibt
<1>4. AntwortStimmt'
    BY <1>3 DEF AntwortStimmt, Stimmt, pflegeVars
<1> QED
    BY <1>1, <1>4

\* The other PUT requests notice only newer versions.
LEMMA AnderePuts ==
    ASSUME PflegeIInv, VersionWaechst, NEW p \in Puts,
           \A r \in Puts : r # p => put'[r] = put[r]
    PROVE  \A r \in Puts : r # p =>
               /\ put'[r].stufe = "gelesen" =>
                      Gueltig(put'[r].werte) /\ put'[r].id \in vorhanden'
               /\ put'[r].maske /\ put'[r].stufe \in {"gesendet", "gelesen"} =>
                      /\ put'[r].id \in vorhanden'
                      /\ put'[r].werte.version <= zeile'[put'[r].id].version
                      /\ put'[r].werte.version = zeile'[put'[r].id].version =>
                            put'[r].werte.ausgesondert = zeile'[put'[r].id].ausgesondert
<1> SUFFICES ASSUME NEW r \in Puts, r # p
             PROVE  /\ put[r].stufe = "gelesen" =>
                           Gueltig(put[r].werte) /\ put[r].id \in vorhanden'
                    /\ put[r].maske /\ put[r].stufe \in {"gesendet", "gelesen"} =>
                           /\ put[r].id \in vorhanden'
                           /\ put[r].werte.version <= zeile'[put[r].id].version
                           /\ put[r].werte.version = zeile'[put[r].id].version =>
                                 put[r].werte.ausgesondert = zeile'[put[r].id].ausgesondert
    OBVIOUS
<1>1. ArtikelTypeOK /\ put[r].werte \in Zeile
    BY DEF PflegeIInv, PflegeTypeOK, ArtikelTypeOK, Put
<1>2. put[r].stufe = "gelesen" => Gueltig(put[r].werte) /\ put[r].id \in vorhanden'
    BY DEF PflegeIInv, PutsStimmen, VersionWaechst
<1>3. put[r].maske /\ put[r].stufe \in {"gesendet", "gelesen"} =>
          Stimmt(put[r].id, put[r].werte)
    BY DEF PflegeIInv, FormularStimmt
<1> QED
    BY <1>1, <1>2, <1>3, StimmtBleibt

\* Both invariants about PUT requests, from those about one of them.
LEMMA PutsZusammen ==
    ASSUME PflegeIInv, VersionWaechst, NEW p \in Puts,
           \A r \in Puts : r # p => put'[r] = put[r],
           put'[p].stufe = "gelesen" =>
               Gueltig(put'[p].werte) /\ put'[p].id \in vorhanden',
           put'[p].maske /\ put'[p].stufe \in {"gesendet", "gelesen"} =>
               /\ put'[p].id \in vorhanden'
               /\ put'[p].werte.version <= zeile'[put'[p].id].version
               /\ put'[p].werte.version = zeile'[put'[p].id].version =>
                     put'[p].werte.ausgesondert = zeile'[put'[p].id].ausgesondert
    PROVE  PutsStimmen' /\ FormularStimmt'
BY AnderePuts DEF PutsStimmen, FormularStimmt, Stimmt, Gueltig

\* A PUT is received, or it ends without writing.
LEMMA PutOhneZeileSchritt ==
    ASSUME PflegeIInv, NEW p \in Puts, UNCHANGED pflegeVars,
           \/ UpdateArtikel(p) \/ VerwerfePut(p) \/ OhneUnterschied(p) \/ KonfliktPut(p)
    PROVE  PflegeIInv'
<1>1. /\ UNCHANGED <<vorhanden, zeile>>
      /\ ArtikelTypeOK /\ put \in [Puts -> Put] /\ zeile \in [Artikel -> Zeile]
      /\ vorhanden \subseteq Artikel
    BY DEF UpdateArtikel, VerwerfePut, OhneUnterschied, KonfliktPut,
           PflegeIInv, PflegeTypeOK, ArtikelTypeOK
<1>2. VersionWaechst
    BY <1>1 DEF VersionWaechst
<1>3. /\ put' \in [Puts -> Put]
      /\ \A r \in Puts : r # p => put'[r] = put[r]
      /\ put'[p].stufe = "gelesen" =>
             Gueltig(put'[p].werte) /\ put'[p].id \in vorhanden'
      /\ put'[p].stufe \in {"gesendet", "gelesen"} =>
             /\ put[p].stufe = "gesendet" /\ put'[p].maske = put[p].maske
             /\ put'[p].id = put[p].id /\ put'[p].werte = put[p].werte
    <2>1. CASE UpdateArtikel(p)
        <3>1. zeile[put[p].id] \in Zeile /\ put[p] \in Put
            BY <1>1, <2>1 DEF UpdateArtikel
        <3>2. put' = [put EXCEPT ![p] = [put[p] EXCEPT !.stufe = "gelesen",
                                                       !.alt = zeile[put[p].id]]]
            BY <1>1, <2>1 DEF UpdateArtikel
        <3> QED
            BY <1>1, <2>1, <3>1, <3>2 DEF UpdateArtikel, Put
    <2>2. CASE VerwerfePut(p) \/ OhneUnterschied(p) \/ KonfliktPut(p)
        <3>1. PICK stufe \in {"fertig", "abgelehnt"} :
                  put' = [put EXCEPT ![p] = Erledigt(stufe)]
            BY <2>2 DEF VerwerfePut, OhneUnterschied, KonfliktPut
        <3> QED
            BY <1>1, <3>1, ErledigtTyp
    <2> QED
        BY <2>1, <2>2
<1>4. PflegeTypeOK' /\ AnzeigeStimmt' /\ AntwortStimmt' /\ AnfrageDerMaske'
    BY <1>1, <1>2, <1>3, BrowserUnberuehrt DEF ArtikelTypeOK
<1>5. put[p].maske /\ put[p].stufe = "gesendet" => Stimmt(put[p].id, put[p].werte)
    BY DEF PflegeIInv, FormularStimmt
<1>6. PutsStimmen' /\ FormularStimmt'
    BY <1>1, <1>2, <1>3, <1>5, PutsZusammen DEF Stimmt
<1>7. NieUnvollstaendig'
    BY <1>1 DEF PflegeIInv, NieUnvollstaendig
<1> QED
    BY <1>4, <1>6, <1>7 DEF PflegeIInv

\* A PUT is committed: the row has the next version, and it is complete.
LEMMA CommitPutSchritt ==
    ASSUME PflegeIInv, NEW p \in Puts, UNCHANGED pflegeVars, CommitPut(p)
    PROVE  PflegeIInv'
<1> DEFINE neu == [put[p].werte EXCEPT !.version = put[p].alt.version + 1]
<1>1. /\ put[p].stufe = "gelesen" /\ put[p].id \in vorhanden /\ put[p] \in Put
      /\ put[p].id \in Artikel /\ vorhanden \subseteq Artikel
      /\ Gueltig(put[p].werte)
      /\ put \in [Puts -> Put] /\ zeile \in [Artikel -> Zeile]
      /\ zeile[put[p].id].version = put[p].alt.version
      /\ zeile' = [zeile EXCEPT ![put[p].id] = neu]
      /\ put' = [put EXCEPT ![p] = Erledigt("fertig")]
      /\ vorhanden' = vorhanden
    BY DEF CommitPut, PflegeIInv, PflegeTypeOK, ArtikelTypeOK, PutsStimmen
<1>2. /\ neu \in Zeile /\ neu.version = zeile[put[p].id].version + 1
      /\ Gueltig(neu)
    BY <1>1 DEF Put, Zeile, Gueltig
<1>3. VersionWaechst /\ ArtikelTypeOK'
    <2> HIDE DEF neu
    <2> QED
        BY <1>1, <1>2, ErledigtTyp DEF VersionWaechst, ArtikelTypeOK
<1>4. PflegeTypeOK' /\ AnzeigeStimmt' /\ AntwortStimmt' /\ AnfrageDerMaske'
    BY <1>3, BrowserUnberuehrt
<1>5. put'[p].stufe = "fertig" /\ \A r \in Puts : r # p => put'[r] = put[r]
    BY <1>1, ErledigtTyp
<1>6. PutsStimmen' /\ FormularStimmt'
    BY <1>3, <1>5, PutsZusammen
<1>7. NieUnvollstaendig'
    <2> HIDE DEF neu
    <2> QED
        BY <1>1, <1>2 DEF PflegeIInv, NieUnvollstaendig, Gueltig
<1> QED
    BY <1>4, <1>6, <1>7 DEF PflegeIInv

\* A new article is complete, and nobody knows it yet.
LEMMA AnlegenSchritt ==
    ASSUME PflegeIInv, NEW id \in Artikel, NEW b \in Bezeichnungen \cup {Ohne},
           NEW c \in Preise \cup {Ohne}, AnlegenKlick(id, b, c)
    PROVE  PflegeIInv'
<1> DEFINE w == [KeineZeile EXCEPT !.bezeichnung = b, !.preis = c]
<1>1. /\ id \notin vorhanden /\ Gueltig(w)
      /\ vorhanden' = vorhanden \cup {id}
      /\ zeile' = [zeile EXCEPT ![id] = w]
      /\ UNCHANGED put /\ UNCHANGED pflegeVars
    BY DEF AnlegenKlick, CreateArtikel
<1>2. /\ ArtikelTypeOK /\ zeile \in [Artikel -> Zeile] /\ vorhanden \subseteq Artikel
      /\ put \in [Puts -> Put]
    BY DEF PflegeIInv, PflegeTypeOK, ArtikelTypeOK
<1>3. w \in Zeile
    BY LeereWerte DEF Zeile, KeineZeile
<1>4. VersionWaechst /\ ArtikelTypeOK'
    <2> HIDE DEF w
    <2> QED
        BY <1>1, <1>2, <1>3 DEF VersionWaechst, ArtikelTypeOK
<1>5. PflegeTypeOK' /\ AnzeigeStimmt' /\ AntwortStimmt' /\ AnfrageDerMaske'
    BY <1>1, <1>4, BrowserUnberuehrt
<1>6. PutsStimmen' /\ FormularStimmt'
    <2>1. ASSUME NEW p \in Puts
          PROVE  /\ put'[p].stufe = "gelesen" =>
                        Gueltig(put'[p].werte) /\ put'[p].id \in vorhanden'
                 /\ put'[p].maske /\ put'[p].stufe \in {"gesendet", "gelesen"} =>
                       /\ put'[p].id \in vorhanden'
                       /\ put'[p].werte.version <= zeile'[put'[p].id].version
                       /\ put'[p].werte.version = zeile'[put'[p].id].version =>
                             put'[p].werte.ausgesondert = zeile'[put'[p].id].ausgesondert
        <3>1. put[p].werte \in Zeile /\ put'[p] = put[p]
            BY <1>1, <1>2 DEF Put
        <3>2. put[p].maske /\ put[p].stufe \in {"gesendet", "gelesen"} =>
                  Stimmt(put[p].id, put[p].werte)
            BY DEF PflegeIInv, FormularStimmt
        <3>3. put[p].stufe = "gelesen" => Gueltig(put[p].werte) /\ put[p].id \in vorhanden
            BY DEF PflegeIInv, PutsStimmen
        <3> QED
            BY <1>2, <1>4, <3>1, <3>2, <3>3, StimmtBleibt DEF VersionWaechst
    <2> QED
        BY <2>1 DEF PutsStimmen, FormularStimmt, Stimmt, Gueltig
<1>7. NieUnvollstaendig'
    <2> HIDE DEF w
    <2> QED
        BY <1>1, <1>2, <1>3 DEF PflegeIInv, NieUnvollstaendig, Gueltig
<1> QED
    BY <1>5, <1>6, <1>7 DEF PflegeIInv

-----------------------------------------------------------------------------
(* The browser.                                                            *)

\* Steps of the browser that change one GET request, and no row and no PUT.
LEMMA GetSchritt ==
    ASSUME PflegeIInv, NEW q \in Gets, NEW g \in Get,
           get' = [get EXCEPT ![q] = g],
           UNCHANGED artikelVars,
           maske' \in [Masken -> Maske],
           aktiv' \in Masken \cup {Ohne},
           g.stufe = "beantwortet" => Stimmt(g.id, g.antwort),
           g.zweck # "suche" => g.maske \in Masken,
           \/ /\ UNCHANGED <<anzeige, gesucht>>
              /\ anzeige = q => g.stufe # "frei" /\ g.zweck = "suche" /\ g.id = gesucht
           \/ /\ anzeige' = q /\ gesucht' = g.id /\ g.id \in Artikel
              /\ g.stufe # "frei" /\ g.zweck = "suche"
    PROVE  PflegeIInv'
<1>1. get \in [Gets -> Get] /\ get' \in [Gets -> Get] /\ get'[q] = g
    BY DEF PflegeIInv, PflegeTypeOK
<1>2. PflegeTypeOK'
    BY <1>1 DEF PflegeIInv, PflegeTypeOK, ArtikelTypeOK, artikelVars
<1>3. PutsStimmen' /\ NieUnvollstaendig' /\ FormularStimmt'
    BY DEF PflegeIInv, PutsStimmen, NieUnvollstaendig, FormularStimmt, Gueltig, Stimmt,
           artikelVars
<1>4. AnzeigeStimmt'
    BY <1>1 DEF PflegeIInv, PflegeTypeOK, AnzeigeStimmt
<1>5. AntwortStimmt' /\ AnfrageDerMaske'
    BY <1>1 DEF PflegeIInv, AntwortStimmt, AnfrageDerMaske, Stimmt, artikelVars
<1> QED
    BY <1>2, <1>3, <1>4, <1>5 DEF PflegeIInv

\* A request that is sent is a free one, so not the one that is shown.
LEMMA SendeGetSchritt ==
    ASSUME PflegeIInv, NEW q \in Gets, NEW id \in Artikel,
           \/ Search(q, id)
           \/ \E m \in Masken : EditArtikel(m, q, id)
    PROVE  PflegeIInv'
<1>1. /\ get \in [Gets -> Get] /\ maske \in [Masken -> Maske]
      /\ aktiv \in Masken \cup {Ohne}
    BY DEF PflegeIInv, PflegeTypeOK
<1>2. CASE Search(q, id)
    <2> DEFINE g == [KeinGet EXCEPT !.stufe = "unterwegs", !.zweck = "suche",
                                    !.id = id, !.maske = Ohne]
    <2>1. g \in Get /\ g.stufe = "unterwegs" /\ g.zweck = "suche" /\ g.id = id
        BY LeereWerte DEF Get, KeinGet
    <2>2. /\ get' = [get EXCEPT ![q] = g] /\ anzeige' = q /\ gesucht' = id
          /\ UNCHANGED artikelVars /\ UNCHANGED <<maske, aktiv>>
        BY <1>2 DEF Search, SendeGet
    <2> HIDE DEF g
    <2> QED
        BY <1>1, <2>1, <2>2, GetSchritt
<1>3. ASSUME NEW m \in Masken, EditArtikel(m, q, id)
      PROVE  PflegeIInv'
    <2> DEFINE g == [KeinGet EXCEPT !.stufe = "unterwegs", !.zweck = "show",
                                    !.id = id, !.maske = m]
    <2>1. g \in Get /\ g.stufe = "unterwegs" /\ g.maske = m
        BY LeereWerte DEF Get, KeinGet
    <2>2. /\ get' = [get EXCEPT ![q] = g] /\ get[q].stufe = "frei"
          /\ UNCHANGED artikelVars /\ UNCHANGED <<anzeige, gesucht>>
          /\ maske' = [maske EXCEPT ![m].id = id] /\ aktiv' = m
        BY <1>3 DEF EditArtikel, SendeGet
    <2>3. maske' \in [Masken -> Maske]
        BY <1>1, <2>2 DEF Maske
    <2>4. anzeige # q
        BY <2>2, PflegeAnnahme DEF PflegeIInv, AnzeigeStimmt
    <2> HIDE DEF g
    <2> QED
        BY <1>1, <2>1, <2>2, <2>3, <2>4, GetSchritt
<1> QED
    BY <1>2, <1>3

LEMMA UpdateKlickSchritt ==
    ASSUME PflegeIInv, NEW q \in Gets, NEW m \in Masken, UpdateKlick(m, q)
    PROVE  PflegeIInv'
<1> DEFINE g == [KeinGet EXCEPT !.stufe = "unterwegs", !.zweck = "update",
                                !.id = maske[m].id, !.maske = m]
<1>1. /\ get \in [Gets -> Get] /\ maske \in [Masken -> Maske]
      /\ aktiv \in Masken \cup {Ohne} /\ maske[m].id \in Artikel \cup {Ohne}
    BY DEF PflegeIInv, PflegeTypeOK, Maske
<1>2. g \in Get /\ g.stufe = "unterwegs" /\ g.maske = m
    BY <1>1, LeereWerte DEF Get, KeinGet
<1>3. /\ get' = [get EXCEPT ![q] = g] /\ get[q].stufe = "frei"
      /\ UNCHANGED artikelVars /\ UNCHANGED <<anzeige, gesucht, maske, aktiv>>
    BY DEF UpdateKlick, SendeGet
<1>4. anzeige # q
    BY <1>3, PflegeAnnahme DEF PflegeIInv, AnzeigeStimmt
<1> HIDE DEF g
<1> QED
    BY <1>1, <1>2, <1>3, <1>4, GetSchritt

\* An answer agrees with the row it has been read from.
LEMMA AntwortSchritt ==
    ASSUME PflegeIInv, NEW q \in Gets, FindArtikelById(q)
    PROVE  PflegeIInv'
<1> DEFINE g == [get[q] EXCEPT !.stufe = "beantwortet", !.antwort = zeile[get[q].id]]
<1>1. /\ get \in [Gets -> Get] /\ maske \in [Masken -> Maske]
      /\ aktiv \in Masken \cup {Ohne} /\ get[q].id \in vorhanden
      /\ zeile[get[q].id] \in Zeile
    BY DEF FindArtikelById, PflegeIInv, PflegeTypeOK, ArtikelTypeOK
<1>2. /\ g \in Get /\ g.stufe = "beantwortet" /\ g.id = get[q].id
      /\ g.zweck = get[q].zweck /\ g.antwort = zeile[get[q].id]
      /\ g.zweck # "suche" => g.maske \in Masken
    BY <1>1 DEF Get, PflegeIInv, AnfrageDerMaske
<1>3. /\ get' = [get EXCEPT ![q] = g]
      /\ UNCHANGED artikelVars /\ UNCHANGED <<anzeige, gesucht, maske, aktiv>>
    BY <1>1 DEF FindArtikelById
<1>4. Stimmt(g.id, g.antwort)
    BY <1>1, <1>2 DEF Stimmt, Zeile
<1>5. anzeige = q => g.stufe # "frei" /\ g.zweck = "suche" /\ g.id = gesucht
    BY <1>2, PflegeAnnahme DEF PflegeIInv, AnzeigeStimmt
<1> HIDE DEF g
<1> QED
    BY <1>1, <1>2, <1>3, <1>4, <1>5, GetSchritt

\* An answer that is used up, or does not come.  Only a search remains to be
\* seen.
LEMMA EndeGetSchritt ==
    ASSUME PflegeIInv, NEW q \in Gets,
           GetFehler(q) \/ EmpfangeSuche(q) \/ EmpfangeShow(q)
    PROVE  PflegeIInv'
<1>1. /\ get \in [Gets -> Get] /\ maske \in [Masken -> Maske]
      /\ aktiv \in Masken \cup {Ohne}
    BY DEF PflegeIInv, PflegeTypeOK
<1>2. anzeige = q => get[q].stufe # "frei" /\ get[q].zweck = "suche" /\ get[q].id = gesucht
    BY PflegeAnnahme DEF PflegeIInv, AnzeigeStimmt
<1>3. /\ UNCHANGED artikelVars /\ UNCHANGED <<anzeige, gesucht, aktiv>>
      /\ maske' \in [Masken -> Maske]
    <2>1. CASE EmpfangeShow(q)
        <3> DEFINE m == get[q].maske
                   n == [maske[m] EXCEPT !.bezeichnung = get[q].antwort.bezeichnung,
                                         !.preis = get[q].antwort.preis]
        <3>1. get[q].antwort \in Zeile /\ m \in Masken
            BY <1>1, <2>1 DEF EmpfangeShow, Get, PflegeIInv, AnfrageDerMaske
        <3>2. n \in Maske
            BY <1>1, <3>1 DEF Zeile, Maske
        <3>3. maske' = [maske EXCEPT ![m] = n]
            BY <1>1, <2>1, <3>1 DEF EmpfangeShow
        <3> HIDE DEF n
        <3> QED
            BY <1>1, <2>1, <3>1, <3>2, <3>3 DEF EmpfangeShow
    <2> QED
        BY <1>1, <2>1 DEF GetFehler, EmpfangeSuche
<1>4. PICK g \in Get :
          /\ get' = [get EXCEPT ![q] = g]
          /\ g.stufe \in {"fertig", "fehler"}
          /\ get[q].zweck = "suche" => g.zweck = "suche" /\ g.id = get[q].id
          /\ g.zweck = "suche"
    <2>1. CASE EmpfangeShow(q)
        BY <2>1, LeereWerte DEF EmpfangeShow
    <2>2. CASE EmpfangeSuche(q)
        <3> DEFINE h == [get[q] EXCEPT !.stufe = "fertig"]
        <3>1. h \in Get /\ h.stufe = "fertig" /\ h.zweck = get[q].zweck /\ h.id = get[q].id
            BY <1>1 DEF Get
        <3>2. get' = [get EXCEPT ![q] = h]
            BY <1>1, <2>2 DEF EmpfangeSuche
        <3> HIDE DEF h
        <3> QED
            BY <2>2, <3>1, <3>2 DEF EmpfangeSuche
    <2>3. CASE GetFehler(q) /\ get[q].zweck = "suche"
        <3> DEFINE h == [get[q] EXCEPT !.stufe = "fehler"]
        <3>1. h \in Get /\ h.stufe = "fehler" /\ h.zweck = get[q].zweck /\ h.id = get[q].id
            BY <1>1 DEF Get
        <3>2. get' = [get EXCEPT ![q] = h]
            BY <1>1, <2>3 DEF GetFehler
        <3> HIDE DEF h
        <3> QED
            BY <2>3, <3>1, <3>2
    <2>4. CASE GetFehler(q) /\ get[q].zweck # "suche"
        <3>1. get' = [get EXCEPT ![q] = Verbraucht]
            BY <1>1, <2>4 DEF GetFehler
        <3> QED
            BY <2>4, <3>1, LeereWerte
    <2> QED
        BY <2>1, <2>2, <2>3, <2>4
<1> QED
    BY <1>1, <1>2, <1>3, <1>4, GetSchritt

\* The user types, or leaves the page.
LEMMA TippeSchritt ==
    ASSUME PflegeIInv,
           \/ \E m \in Masken, b \in Bezeichnungen, c \in Preise : Tippe(m, b, c)
           \/ Cancel
    PROVE  PflegeIInv'
<1>1. /\ UNCHANGED artikelVars /\ UNCHANGED <<get, anzeige, gesucht>>
      /\ maske' \in [Masken -> Maske] /\ aktiv' \in Masken \cup {Ohne}
    <2>1. CASE Cancel
        BY <2>1 DEF Cancel, PflegeIInv, PflegeTypeOK
    <2>2. ASSUME NEW m \in Masken, NEW b \in Bezeichnungen, NEW c \in Preise, Tippe(m, b, c)
          PROVE  /\ UNCHANGED artikelVars /\ UNCHANGED <<get, anzeige, gesucht>>
                 /\ maske' \in [Masken -> Maske] /\ aktiv' \in Masken \cup {Ohne}
        <3>1. maske \in [Masken -> Maske] /\ aktiv \in Masken \cup {Ohne}
            BY DEF PflegeIInv, PflegeTypeOK
        <3>2. \/ maske' = [maske EXCEPT ![m].bezeichnung = b]
              \/ maske' = [maske EXCEPT ![m].preis = c]
            BY <2>2 DEF Tippe
        <3>3. maske' \in [Masken -> Maske]
            BY <3>1, <3>2 DEF Maske
        <3> QED
            BY <2>2, <3>1, <3>3 DEF Tippe
    <2> QED
        BY <2>1, <2>2
<1>2. PflegeTypeOK'
    BY <1>1 DEF PflegeIInv, PflegeTypeOK, ArtikelTypeOK, artikelVars
<1> QED
    BY <1>1, <1>2 DEF PflegeIInv, PutsStimmen, NieUnvollstaendig, AnzeigeStimmt,
       AntwortStimmt, AnfrageDerMaske, FormularStimmt, Gueltig, Stimmt, artikelVars

\* A PUT that is sent: from the form it agrees with the row as the answer did.
LEMMA SendePutSchritt ==
    ASSUME PflegeIInv, NEW p \in Puts, NEW id \in Artikel \cup {Ohne},
           NEW werte \in Zeile, NEW m \in BOOLEAN,
           SendePut(p, id, werte, m),
           m => Stimmt(id, werte),
           UNCHANGED <<vorhanden, zeile>>
    PROVE  ArtikelTypeOK' /\ PutsStimmen' /\ NieUnvollstaendig' /\ FormularStimmt'
<1> DEFINE n == [KeinPut EXCEPT !.stufe = "gesendet", !.maske = m,
                                !.id = id, !.werte = werte]
<1>1. /\ n \in Put /\ n.stufe = "gesendet" /\ n.maske = m /\ n.id = id /\ n.werte = werte
    BY LeereWerte DEF Put, KeinPut
<1>2. put' = [put EXCEPT ![p] = n] /\ put \in [Puts -> Put]
    BY DEF SendePut, PflegeIInv, PflegeTypeOK, ArtikelTypeOK
<1> HIDE DEF n
<1>3. ArtikelTypeOK'
    BY <1>1, <1>2 DEF PflegeIInv, PflegeTypeOK, ArtikelTypeOK
<1>4. VersionWaechst
    BY DEF VersionWaechst
<1>5. PutsStimmen' /\ FormularStimmt'
    BY <1>1, <1>2, <1>4, PutsZusammen DEF Stimmt
<1>6. NieUnvollstaendig'
    BY DEF PflegeIInv, NieUnvollstaendig
<1> QED
    BY <1>3, <1>5, <1>6

LEMMA EmpfangeUpdateSchritt ==
    ASSUME PflegeIInv, NEW q \in Gets, NEW p \in Puts, EmpfangeUpdate(q, p)
    PROVE  PflegeIInv'
<1> DEFINE m == get[q].maske
           w == Objekt(get[q].antwort, maske[m])
<1>1. /\ get[q].stufe = "beantwortet" /\ get[q].zweck = "update"
      /\ get' = [get EXCEPT ![q] = Verbraucht]
      /\ SendePut(p, get[q].id, w, TRUE)
      /\ aktiv' = Ohne
      /\ UNCHANGED <<vorhanden, zeile, anzeige, gesucht, maske>>
    BY DEF EmpfangeUpdate
<1>2. /\ get \in [Gets -> Get] /\ get[q] \in Get
      /\ maske \in [Masken -> Maske]
    BY DEF PflegeIInv, PflegeTypeOK
<1>3. m \in Masken
    BY <1>1 DEF PflegeIInv, AnfrageDerMaske
<1>4. /\ w \in Zeile
      /\ w.version = get[q].antwort.version
      /\ w.ausgesondert = get[q].antwort.ausgesondert
    BY <1>2, <1>3 DEF Objekt, Get, Zeile, Maske
<1>5. Stimmt(get[q].id, get[q].antwort)
    BY <1>1 DEF PflegeIInv, AntwortStimmt
<1>6. Stimmt(get[q].id, w) /\ get[q].id \in Artikel \cup {Ohne}
    <2> HIDE DEF w
    <2> QED
        BY <1>2, <1>4, <1>5 DEF Stimmt, Get
<1>7. ArtikelTypeOK' /\ PutsStimmen' /\ NieUnvollstaendig' /\ FormularStimmt'
    <2> HIDE DEF w
    <2> QED
        BY <1>1, <1>4, <1>6, SendePutSchritt
<1>8. anzeige # q
    BY <1>1, PflegeAnnahme DEF PflegeIInv, AnzeigeStimmt
<1>9. PflegeTypeOK' /\ AnzeigeStimmt' /\ AntwortStimmt' /\ AnfrageDerMaske'
    BY <1>1, <1>2, <1>7, <1>8, LeereWerte
       DEF PflegeIInv, PflegeTypeOK, AnzeigeStimmt, AntwortStimmt, AnfrageDerMaske, Stimmt
<1> QED
    BY <1>7, <1>9 DEF PflegeIInv

\* Another client takes an article out of the offer, or back in.
LEMMA AussondernSchritt ==
    ASSUME PflegeIInv, NEW p \in Puts, NEW id \in Artikel, Aussondern(p, id)
    PROVE  PflegeIInv'
<1> DEFINE w == [zeile[id] EXCEPT !.ausgesondert = ~@]
<1>1. w \in Zeile
    BY DEF PflegeIInv, PflegeTypeOK, ArtikelTypeOK, Zeile
<1>2. /\ SendePut(p, id, w, FALSE)
      /\ UNCHANGED <<vorhanden, zeile>> /\ UNCHANGED pflegeVars
    BY DEF Aussondern
<1>3. ArtikelTypeOK' /\ PutsStimmen' /\ NieUnvollstaendig' /\ FormularStimmt'
    <2> HIDE DEF w
    <2> QED
        BY <1>1, <1>2, SendePutSchritt
<1>4. PflegeTypeOK' /\ AnzeigeStimmt' /\ AntwortStimmt' /\ AnfrageDerMaske'
    BY <1>2, <1>3, BrowserUnberuehrt DEF VersionWaechst
<1> QED
    BY <1>3, <1>4 DEF PflegeIInv

-----------------------------------------------------------------------------
(* The theorems.                                                           *)

\* PflegeIInv is preserved by every step of the pages and of the requests.
THEOREM PflegeInduktion ==
    PflegeIInv /\ [PflegeNext]_<<artikelVars, pflegeVars>> => PflegeIInv'
<1> SUFFICES ASSUME PflegeIInv, [PflegeNext]_<<artikelVars, pflegeVars>>
             PROVE  PflegeIInv'
    OBVIOUS
<1>1. CASE ArtikelSchritt /\ UNCHANGED pflegeVars
    BY <1>1, PutOhneZeileSchritt, CommitPutSchritt DEF ArtikelSchritt
<1>2. CASE \E q \in Gets : \/ FindArtikelById(q) \/ GetFehler(q)
                           \/ EmpfangeSuche(q) \/ EmpfangeShow(q)
    BY <1>2, AntwortSchritt, EndeGetSchritt
<1>3. CASE \E q \in Gets, id \in Artikel : Search(q, id)
    BY <1>3, SendeGetSchritt
<1>4. CASE \E m \in Masken, q \in Gets, id \in Artikel : EditArtikel(m, q, id)
    BY <1>4, SendeGetSchritt
<1>5. CASE \/ \E m \in Masken, b \in Bezeichnungen, c \in Preise : Tippe(m, b, c)
           \/ Cancel
    BY <1>5, TippeSchritt
<1>6. CASE \E m \in Masken, q \in Gets : UpdateKlick(m, q)
    BY <1>6, UpdateKlickSchritt
<1>7. CASE \E q \in Gets, p \in Puts : EmpfangeUpdate(q, p)
    BY <1>7, EmpfangeUpdateSchritt
<1>8. CASE \E id \in Artikel, b \in Bezeichnungen \cup {Ohne}, c \in Preise \cup {Ohne} :
              AnlegenKlick(id, b, c)
    BY <1>8, AnlegenSchritt
<1>9. CASE \E p \in Puts, id \in Artikel : Aussondern(p, id)
    BY <1>9, AussondernSchritt
<1>10. CASE UNCHANGED <<artikelVars, pflegeVars>>
    BY <1>10 DEF artikelVars, pflegeVars, PflegeIInv, PflegeTypeOK, ArtikelTypeOK,
       PutsStimmen, NieUnvollstaendig, AnzeigeStimmt, AntwortStimmt, AnfrageDerMaske,
       FormularStimmt, Gueltig, Stimmt
<1> QED
    BY <1>1, <1>2, <1>3, <1>4, <1>5, <1>6, <1>7, <1>8, <1>9, <1>10 DEF PflegeNext

THEOREM PflegeInvariante == PflegeSpec => []PflegeIInv
<1> QED
    BY InitPflegeIInv, PflegeInduktion, PTL DEF PflegeSpec

\* The rows, the requests and the forms have their types.
THEOREM PflegeTypen == PflegeSpec => []PflegeTypeOK
<1>1. PflegeIInv => PflegeTypeOK
    BY DEF PflegeIInv
<1> QED
    BY <1>1, PflegeInvariante, PTL

\* No article is ever stored without a name or a price.
THEOREM ImmerVollstaendig == PflegeSpec => []NieUnvollstaendig
<1>1. PflegeIInv => NieUnvollstaendig
    BY DEF PflegeIInv
<1> QED
    BY <1>1, PflegeInvariante, PTL

\* The search page shows the article that was searched for last, in whatever
\* order the answers arrive.
THEOREM AnzeigeImmerRichtig == PflegeSpec => []AnzeigeGehoertZurSuche
<1>1. PflegeIInv => AnzeigeGehoertZurSuche
    BY DEF PflegeIInv, AnzeigeStimmt, AnzeigeGehoertZurSuche
<1> QED
    BY <1>1, PflegeInvariante, PTL

\* What the form has sent takes nothing out of the offer, and nothing back in,
\* unless the row has changed since the form has fetched it.
LEMMA AusgesondertSchritt ==
    ASSUME PflegeIInv, [PflegeNext]_<<artikelVars, pflegeVars>>, NEW p \in Puts,
           put[p].maske, put[p].stufe = "gelesen", put'[p].stufe = "fertig",
           put[p].werte.version = zeile[put[p].id].version
    PROVE  zeile'[put[p].id].ausgesondert = zeile[put[p].id].ausgesondert
<1>1. /\ put \in [Puts -> Put] /\ zeile \in [Artikel -> Zeile]
      /\ vorhanden \subseteq Artikel
    BY DEF PflegeIInv, PflegeTypeOK, ArtikelTypeOK
<1>2. /\ put[p].id \in vorhanden
      /\ put[p].werte.ausgesondert = zeile[put[p].id].ausgesondert
    BY DEF PflegeIInv, FormularStimmt, Stimmt
<1>3. put[p].werte \in Zeile
    BY <1>1 DEF Put
<1>4. CASE CommitPut(p)
    <2> DEFINE neu == [put[p].werte EXCEPT !.version = put[p].alt.version + 1]
    <2>1. neu.ausgesondert = put[p].werte.ausgesondert
        BY <1>3 DEF Zeile
    <2>2. zeile'[put[p].id] = neu
        BY <1>1, <1>2, <1>4 DEF CommitPut
    <2> QED
        BY <1>2, <2>1, <2>2
<1>5. CASE zeile' = zeile
    BY <1>5
<1>6. CASE \E r \in Puts : r # p /\ CommitPut(r)
    <2>1. put'[p] = put[p]
        BY <1>1, <1>6 DEF CommitPut
    <2> QED
        BY <2>1
<1>7. CASE \E id \in Artikel, b \in Bezeichnungen \cup {Ohne}, c \in Preise \cup {Ohne} :
              AnlegenKlick(id, b, c)
    BY <1>7 DEF AnlegenKlick, CreateArtikel
<1>8. \/ \E r \in Puts : CommitPut(r)
      \/ \E id \in Artikel, b \in Bezeichnungen \cup {Ohne}, c \in Preise \cup {Ohne} :
             AnlegenKlick(id, b, c)
      \/ zeile' = zeile
    BY DEF PflegeNext, ArtikelSchritt, UpdateArtikel, VerwerfePut, OhneUnterschied,
           KonfliktPut, FindArtikelById, GetFehler, EmpfangeSuche, EmpfangeShow, Search,
           EditArtikel, Tippe, Cancel, UpdateKlick, EmpfangeUpdate, Aussondern,
           artikelVars
<1> QED
    BY <1>4, <1>5, <1>6, <1>7, <1>8

\* The form does not touch whether an article is in the offer (updateArtikel
\* fetches the article again before it sends it back).
THEOREM AusgesondertBleibtImmer == PflegeSpec => AusgesondertBleibt
<1>1. PflegeIInv /\ [PflegeNext]_<<artikelVars, pflegeVars>> =>
        [\A p \in Puts :
            put[p].maske /\ put[p].stufe = "gelesen" /\ put'[p].stufe = "fertig" =>
               \/ put[p].werte.version # zeile[put[p].id].version
               \/ zeile'[put[p].id].ausgesondert = zeile[put[p].id].ausgesondert
        ]_<<artikelVars, pflegeVars>>
    BY AusgesondertSchritt
<1> QED
    BY <1>1, PflegeInvariante, PTL DEF PflegeSpec, AusgesondertBleibt

=============================================================================
