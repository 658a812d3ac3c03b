----------------------- MODULE RollenverwaltungProofs -----------------------
(***************************************************************************)
(* Proofs about Rollenverwaltung for any number of customers, roles,       *)
(* sessions of administrators and logins.                                  *)
(***************************************************************************)
EXTENDS Rollenverwaltung, TLAPS

\* findKundeById changes what a transaction knows, and nothing else of it.
LEMMA GeladenFelder ==
    ASSUME RollenTypeOK, NEW s \in Sitzungen, tx[s].kunde \in Kunden
    PROVE  LET t == Geladen(tx[s])
           IN  /\ t \in Transaktion
               /\ t.stufe = tx[s].stufe /\ t.kunde = tx[s].kunde
               /\ t.plus = tx[s].plus /\ t.minus = tx[s].minus
               /\ t.geladen
               /\ tx[s].geladen => t = tx[s]
               /\ ~tx[s].geladen =>
                     /\ t.gelesen = rollenVersion[tx[s].kunde]
                     /\ t.alt = rollen[tx[s].kunde]
                     /\ t.neu = rollen[tx[s].kunde]
<1>1. tx[s] \in Transaktion /\ rollen \in [Kunden -> SUBSET Rollen]
      /\ rollenVersion \in [Kunden -> Nat]
    BY DEF RollenTypeOK
<1> QED
    BY <1>1 DEF Geladen, Transaktion

\* The empty values have their types.
LEMMA LeereWerte ==
    /\ LeereBean \in Bean
    /\ KeineTx \in Transaktion
    /\ KeineAnmeldung \in Anmeldung
    /\ KeineTx.stufe = "bereit" /\ ~KeineTx.geladen
    /\ KeineTx.plus \cap KeineTx.minus = {}
    /\ ~KeineAnmeldung.laeuft
BY DEF LeereBean, Bean, KeineTx, Transaktion, Stufen, KeineAnmeldung, Anmeldung

LEMMA InitRollenIInv == RollenInit => RollenIInv
<1> SUFFICES ASSUME RollenInit PROVE RollenIInv
    OBVIOUS
<1>1. RollenTypeOK
    BY LeereWerte DEF RollenInit, RollenTypeOK
<1>2. TxStimmt /\ VersionStimmt
    BY LeereWerte DEF RollenInit, TxStimmt, VersionStimmt
<1>3. AnmeldungStimmt /\ CacheStimmt
    BY LeereWerte DEF RollenInit, AnmeldungStimmt, CacheStimmt
<1> QED
    BY <1>1, <1>2, <1>3 DEF RollenIInv

-----------------------------------------------------------------------------
(* The dialogue.                                                           *)

\* Nothing but the session bean changes when a page is opened.
LEMMA SeiteSchritt ==
    ASSUME RollenIInv, NEW s \in Sitzungen, NEW k \in Kunden,
           FindRollenByUsername(s, k) \/ FindRollenOhneKunde(s, k)
    PROVE  RollenIInv'
<1>1. UNCHANGED <<zeilenVars, tx, cacheVars>> /\ bean' \in [Sitzungen -> Bean]
    <2>1. CASE FindRollenByUsername(s, k)
        BY <2>1 DEF FindRollenByUsername, RollenIInv, RollenTypeOK, Bean
    <2>2. CASE FindRollenOhneKunde(s, k)
        BY <2>2, LeereWerte DEF FindRollenOhneKunde, RollenIInv, RollenTypeOK
    <2> QED
        BY <2>1, <2>2
<1>2. RollenTypeOK'
    BY <1>1 DEF RollenIInv, RollenTypeOK, zeilenVars, cacheVars
<1>3. TxStimmt' /\ VersionStimmt'
    BY <1>1 DEF RollenIInv, TxStimmt, VersionStimmt, NochAktuell, zeilenVars
<1>4. AnmeldungStimmt' /\ CacheStimmt'
    BY <1>1 DEF RollenIInv, AnmeldungStimmt, CacheStimmt, Schwebend, zeilenVars, cacheVars
<1> QED
    BY <1>2, <1>3, <1>4 DEF RollenIInv

\* A step that leaves the rows and the cache alone, and after which the
\* transaction is one that has not loaded the customer, or has loaded the same
\* things as before, keeps whatever depends on them.
LEMMA TxSchritt ==
    ASSUME RollenIInv, NEW s \in Sitzungen, NEW t \in Transaktion,
           UNCHANGED <<zeilenVars, cacheVars>>,
           tx' = [tx EXCEPT ![s] = t],
           bean' \in [Sitzungen -> Bean],
           t.stufe # "bereit" => t.kunde \in Kunden,
           t.geladen => /\ tx[s].geladen
                        /\ t.kunde = tx[s].kunde
                        /\ t.gelesen = tx[s].gelesen
                        /\ t.alt = tx[s].alt
    PROVE  RollenTypeOK' /\ VersionStimmt' /\ AnmeldungStimmt' /\ CacheStimmt'
<1>1. tx \in [Sitzungen -> Transaktion]
    BY DEF RollenIInv, RollenTypeOK
<1>2. RollenTypeOK'
    BY <1>1 DEF RollenIInv, RollenTypeOK, zeilenVars, cacheVars
<1>3. VersionStimmt'
    BY <1>1 DEF RollenIInv, VersionStimmt, NochAktuell, zeilenVars
<1>4. \A k \in Kunden : Schwebend(k)' => Schwebend(k)
    BY <1>1 DEF Schwebend
<1>5. AnmeldungStimmt' /\ CacheStimmt'
    BY <1>4 DEF RollenIInv, RollenTypeOK, AnmeldungStimmt, CacheStimmt, zeilenVars, cacheVars
<1> QED
    BY <1>2, <1>3, <1>5

\* The difference between the page and the session bean is taken.
LEMMA UpdateRollenSchritt ==
    ASSUME RollenAnnahme, RollenIInv, NEW s \in Sitzungen,
           NEW auswahl \in SUBSET Rollen, UpdateRollen(s, auswahl)
    PROVE  RollenIInv'
<1> DEFINE t == [KeineTx EXCEPT !.stufe = "hinzu",
                                !.kunde = bean[s].kunde,
                                !.plus = auswahl \ bean[s].orig,
                                !.minus = bean[s].orig \ auswahl]
<1>1. bean[s] \in Bean /\ bean[s].kunde \in Kunden /\ bean[s].orig \in SUBSET Rollen
      /\ tx \in [Sitzungen -> Transaktion]
    BY DEF UpdateRollen, RollenIInv, RollenTypeOK, Bean
<1>2. /\ t \in Transaktion
      /\ t.stufe = "hinzu" /\ t.kunde \in Kunden /\ ~t.geladen /\ t.plus \cap t.minus = {}
    BY <1>1 DEF KeineTx, Transaktion, Stufen
<1>3. /\ tx' = [tx EXCEPT ![s] = t]
      /\ UNCHANGED <<zeilenVars, bean, cacheVars>>
    BY DEF UpdateRollen
<1>4. bean' \in [Sitzungen -> Bean]
    BY <1>3 DEF RollenIInv, RollenTypeOK
<1>5. RollenTypeOK' /\ VersionStimmt' /\ AnmeldungStimmt' /\ CacheStimmt'
    <2> HIDE DEF t
    <2> QED
        BY <1>2, <1>3, <1>4, TxSchritt
<1>6. TxStimmt'
    <2> HIDE DEF t
    <2> QED
        BY <1>1, <1>2, <1>3 DEF RollenIInv, TxStimmt
<1> QED
    BY <1>5, <1>6 DEF RollenIInv

\* A list of roles that is empty is skipped.
LEMMA OhneRollenSchritt ==
    ASSUME RollenIInv, NEW s \in Sitzungen, OhneNeueRollen(s) \/ OhneAlteRollen(s)
    PROVE  RollenIInv'
<1> DEFINE t == [tx[s] EXCEPT !.stufe = IF tx[s].stufe = "hinzu" THEN "weg" ELSE "ende"]
<1>1. tx[s] \in Transaktion /\ tx \in [Sitzungen -> Transaktion]
    BY DEF RollenIInv, RollenTypeOK
<1>2. /\ tx' = [tx EXCEPT ![s] = t]
      /\ UNCHANGED <<zeilenVars, cacheVars>>
      /\ \/ tx[s].stufe = "hinzu" /\ tx[s].plus = {}
         \/ tx[s].stufe = "weg" /\ tx[s].minus = {}
    BY DEF OhneNeueRollen, OhneAlteRollen
<1>3. bean' \in [Sitzungen -> Bean]
    BY LeereWerte DEF OhneNeueRollen, OhneAlteRollen, RollenIInv, RollenTypeOK
<1>4. /\ t \in Transaktion
      /\ t.kunde = tx[s].kunde /\ t.gelesen = tx[s].gelesen
      /\ t.geladen = tx[s].geladen /\ t.alt = tx[s].alt /\ t.neu = tx[s].neu
      /\ t.plus = tx[s].plus /\ t.minus = tx[s].minus
      /\ t.stufe = IF tx[s].stufe = "hinzu" THEN "weg" ELSE "ende"
    BY <1>1 DEF Transaktion, Stufen
<1>5. tx[s].kunde \in Kunden
    BY <1>2 DEF RollenIInv, RollenTypeOK
<1>6. RollenTypeOK' /\ VersionStimmt' /\ AnmeldungStimmt' /\ CacheStimmt'
    <2> HIDE DEF t
    <2> QED
        BY <1>2, <1>3, <1>4, <1>5, TxSchritt
<1>7. TxStimmt'
    <2> HIDE DEF t
    <2> QED
        BY <1>1, <1>2, <1>4 DEF RollenIInv, TxStimmt
<1> QED
    BY <1>6, <1>7 DEF RollenIInv

\* Whatever depends on k in the cache is gone after a flush, or marked.
LEMMA FlushWirkung ==
    ASSUME RollenIInv, NEW k \in Kunden, FlushSecurityCache(k),
           UNCHANGED zeilenVars,
           \A l \in Kunden : l # k => (Schwebend(l)' => Schwebend(l))
    PROVE  /\ AnmeldungStimmt' /\ CacheStimmt'
           /\ gecacht' \subseteq Kunden
           /\ cache' \in [Kunden -> SUBSET Rollen]
           /\ imFenster' \subseteq Kunden
           /\ anmeldung' \in [Anmeldungen -> Anmeldung]
           /\ \A a \in Anmeldungen : anmeldung'[a].laeuft => anmeldung'[a].kunde \in Kunden
<1>1. /\ anmeldung \in [Anmeldungen -> Anmeldung]
      /\ \A a \in Anmeldungen : anmeldung[a].laeuft => anmeldung[a].kunde \in Kunden
      /\ gecacht \subseteq Kunden /\ cache \in [Kunden -> SUBSET Rollen]
      /\ imFenster \subseteq Kunden
    BY DEF RollenIInv, RollenTypeOK
<1>2. \A a \in Anmeldungen :
          /\ anmeldung'[a] \in Anmeldung
          /\ anmeldung'[a].laeuft = anmeldung[a].laeuft
          /\ anmeldung'[a].kunde = anmeldung[a].kunde
          /\ anmeldung'[a].rollen = anmeldung[a].rollen
          /\ anmeldung[a].kunde = k => anmeldung'[a].beruehrt
          /\ anmeldung[a].kunde # k => anmeldung'[a].beruehrt = anmeldung[a].beruehrt
    BY <1>1 DEF FlushSecurityCache, Anmeldung
<1>3. anmeldung' \in [Anmeldungen -> Anmeldung]
    BY <1>2 DEF FlushSecurityCache
<1>4. gecacht' \subseteq Kunden /\ cache' \in [Kunden -> SUBSET Rollen]
      /\ imFenster' \subseteq Kunden
    BY <1>1 DEF FlushSecurityCache
<1>5. AnmeldungStimmt'
    BY <1>1, <1>2 DEF RollenIInv, AnmeldungStimmt, zeilenVars
<1>6. CacheStimmt'
    BY <1>1 DEF RollenIInv, CacheStimmt, FlushSecurityCache, zeilenVars
<1> QED
    BY <1>1, <1>2, <1>3, <1>4, <1>5, <1>6

\* addRollen and removeRollen: what they share.
LEMMA AendereRollenSchritt ==
    ASSUME RollenIInv, NEW s \in Sitzungen, NEW t \in Transaktion,
           tx[s].stufe \in {"hinzu", "weg"},
           tx' = [tx EXCEPT ![s] = t],
           UNCHANGED zeilenVars,
           bean' \in [Sitzungen -> Bean],
           FlushSecurityCache(tx[s].kunde),
           t.kunde = tx[s].kunde,
           t.geladen,
           t.gelesen = Geladen(tx[s]).gelesen,
           t.alt = Geladen(tx[s]).alt
    PROVE  RollenTypeOK' /\ VersionStimmt' /\ AnmeldungStimmt' /\ CacheStimmt'
<1>1. tx \in [Sitzungen -> Transaktion] /\ tx[s].kunde \in Kunden
    BY DEF RollenIInv, RollenTypeOK
<1>2. \A l \in Kunden : l # tx[s].kunde => (Schwebend(l)' => Schwebend(l))
    BY <1>1 DEF Schwebend
<1>3. /\ AnmeldungStimmt' /\ CacheStimmt'
      /\ gecacht' \subseteq Kunden
      /\ cache' \in [Kunden -> SUBSET Rollen]
      /\ imFenster' \subseteq Kunden
      /\ anmeldung' \in [Anmeldungen -> Anmeldung]
      /\ \A a \in Anmeldungen : anmeldung'[a].laeuft => anmeldung'[a].kunde \in Kunden
    BY <1>1, <1>2, FlushWirkung
<1>4. RollenTypeOK'
    BY <1>1, <1>3 DEF RollenIInv, RollenTypeOK, zeilenVars
<1>5. /\ tx[s].geladen => Geladen(tx[s]) = tx[s]
      /\ ~tx[s].geladen => /\ Geladen(tx[s]).gelesen = rollenVersion[tx[s].kunde]
                           /\ Geladen(tx[s]).alt = rollen[tx[s].kunde]
      /\ rollenVersion[tx[s].kunde] \in Nat
    BY <1>1, GeladenFelder DEF RollenIInv, RollenTypeOK
<1>6. t.gelesen <= rollenVersion[t.kunde]
    BY <1>5 DEF RollenIInv, VersionStimmt
<1>7. NochAktuell(t) => t.alt = rollen[t.kunde]
    BY <1>5 DEF RollenIInv, VersionStimmt, NochAktuell
<1>8. VersionStimmt'
    BY <1>1, <1>6, <1>7 DEF RollenIInv, VersionStimmt, NochAktuell, zeilenVars
<1> QED
    BY <1>3, <1>4, <1>8

LEMMA AddRollenSchritt ==
    ASSUME RollenIInv, NEW s \in Sitzungen, AddRollen(s)
    PROVE  RollenIInv'
<1> DEFINE g == Geladen(tx[s])
           t == [g EXCEPT !.stufe = "weg", !.neu = @ \cup g.plus]
<1>1. /\ tx[s].stufe = "hinzu" /\ tx[s].kunde \in Kunden
      /\ tx \in [Sitzungen -> Transaktion]
      /\ bean \in [Sitzungen -> Bean]
    BY DEF AddRollen, RollenIInv, RollenTypeOK
<1>2. /\ g \in Transaktion /\ g.kunde = tx[s].kunde /\ g.geladen
      /\ g.plus = tx[s].plus /\ g.minus = tx[s].minus
      /\ ~tx[s].geladen /\ g.neu = rollen[tx[s].kunde] /\ g.alt = rollen[tx[s].kunde]
    BY <1>1, GeladenFelder DEF RollenIInv, TxStimmt
<1>3. /\ t \in Transaktion /\ t.kunde = tx[s].kunde /\ t.geladen
      /\ t.gelesen = g.gelesen /\ t.alt = g.alt /\ t.plus = tx[s].plus
      /\ t.minus = tx[s].minus /\ t.stufe = "weg" /\ t.neu = t.alt \cup t.plus
    <2> HIDE DEF g
    <2> QED
        BY <1>2 DEF Transaktion, Stufen
<1>4. /\ tx' = [tx EXCEPT ![s] = t]
      /\ UNCHANGED <<zeilenVars, bean>>
      /\ FlushSecurityCache(tx[s].kunde)
    BY DEF AddRollen
<1>5. RollenTypeOK' /\ VersionStimmt' /\ AnmeldungStimmt' /\ CacheStimmt'
    <2> HIDE DEF t
    <2> QED
        BY <1>1, <1>3, <1>4, AendereRollenSchritt
<1>6. TxStimmt'
    <2> HIDE DEF t, g
    <2> QED
        BY <1>1, <1>3, <1>4 DEF RollenIInv, TxStimmt
<1> QED
    BY <1>5, <1>6 DEF RollenIInv

LEMMA RemoveRollenSchritt ==
    ASSUME RollenIInv, NEW s \in Sitzungen, RemoveRollen(s)
    PROVE  RollenIInv'
<1> DEFINE g == Geladen(tx[s])
           t == [g EXCEPT !.stufe = "ende", !.neu = @ \ g.minus]
<1>1. /\ tx[s].stufe = "weg" /\ tx[s].kunde \in Kunden
      /\ tx \in [Sitzungen -> Transaktion]
    BY DEF RemoveRollen, RollenIInv, RollenTypeOK
<1>2. bean' \in [Sitzungen -> Bean]
    BY LeereWerte DEF RemoveRollen, RollenIInv, RollenTypeOK
<1>3. /\ g \in Transaktion /\ g.kunde = tx[s].kunde /\ g.geladen
      /\ g.plus = tx[s].plus /\ g.minus = tx[s].minus
      /\ g.neu = g.alt \cup g.plus
    <2>1. CASE tx[s].geladen
        BY <1>1, <2>1, GeladenFelder DEF RollenIInv, TxStimmt
    <2>2. CASE ~tx[s].geladen
        BY <1>1, <2>2, GeladenFelder DEF RollenIInv, TxStimmt
    <2> QED
        BY <2>1, <2>2
<1>4. /\ t \in Transaktion /\ t.kunde = tx[s].kunde /\ t.geladen
      /\ t.gelesen = g.gelesen /\ t.alt = g.alt /\ t.plus = tx[s].plus
      /\ t.minus = tx[s].minus /\ t.stufe = "ende"
      /\ t.neu = (t.alt \cup t.plus) \ t.minus
    <2> HIDE DEF g
    <2> QED
        BY <1>3 DEF Transaktion, Stufen
<1>5. /\ tx' = [tx EXCEPT ![s] = t]
      /\ UNCHANGED zeilenVars
      /\ FlushSecurityCache(tx[s].kunde)
    BY DEF RemoveRollen
<1>6. RollenTypeOK' /\ VersionStimmt' /\ AnmeldungStimmt' /\ CacheStimmt'
    <2> HIDE DEF t
    <2> QED
        BY <1>1, <1>2, <1>4, <1>5, AendereRollenSchritt
<1>7. TxStimmt'
    <2> HIDE DEF t, g
    <2> QED
        BY <1>1, <1>4, <1>5 DEF RollenIInv, TxStimmt
<1> QED
    BY <1>6, <1>7 DEF RollenIInv

-----------------------------------------------------------------------------
(* The end of the transaction.                                             *)

\* The difference of the two sets turns the stored roles into the new ones.
LEMMA CommitWirkung ==
    ASSUME RollenIInv, NEW s \in Sitzungen, CommitRollen(s)
    PROVE  /\ tx[s].kunde \in rollenKunden /\ tx[s].kunde \in Kunden
           /\ rollen' = [rollen EXCEPT ![tx[s].kunde] = tx[s].neu]
           /\ tx[s].neu = (rollen[tx[s].kunde] \cup tx[s].plus) \ tx[s].minus
<1>1. /\ tx[s].stufe = "ende" /\ tx[s].geladen
      /\ tx[s].kunde \in rollenKunden /\ NochAktuell(tx[s])
      /\ tx[s].kunde \in Kunden
      /\ rollen \in [Kunden -> SUBSET Rollen]
    BY DEF CommitRollen, Geaendert, NochAktuell, RollenIInv, RollenTypeOK
<1>2. tx[s].alt = rollen[tx[s].kunde]
      /\ tx[s].neu = (tx[s].alt \cup tx[s].plus) \ tx[s].minus
    BY <1>1 DEF RollenIInv, VersionStimmt, TxStimmt
<1>3. (rollen[tx[s].kunde] \cup (tx[s].neu \ tx[s].alt)) \ (tx[s].alt \ tx[s].neu)
      = tx[s].neu
    BY <1>2
<1>4. rollen' = [rollen EXCEPT ![tx[s].kunde] =
                    (rollen[tx[s].kunde] \cup (tx[s].neu \ tx[s].alt))
                    \ (tx[s].alt \ tx[s].neu)]
    BY <1>1 DEF CommitRollen
<1> QED
    BY <1>1, <1>2, <1>3, <1>4

LEMMA CommitRollenSchritt ==
    ASSUME RollenIInv, NEW s \in Sitzungen, CommitRollen(s)
    PROVE  RollenIInv'
<1> DEFINE k == tx[s].kunde
<1>1. /\ tx[s] \in Transaktion /\ tx \in [Sitzungen -> Transaktion]
      /\ tx[s].geladen /\ k \in Kunden
      /\ rollen \in [Kunden -> SUBSET Rollen] /\ rollenVersion \in [Kunden -> Nat]
      /\ rollenVersion' = [rollenVersion EXCEPT ![k] = @ + 1]
      /\ tx' = [tx EXCEPT ![s] = KeineTx]
      /\ UNCHANGED <<rollenKunden, bean, cacheVars>>
    BY CommitWirkung DEF CommitRollen, Geaendert, RollenIInv, RollenTypeOK
<1>2. rollen' = [rollen EXCEPT ![k] = tx[s].neu] /\ tx[s].neu \in SUBSET Rollen
    BY <1>1, CommitWirkung DEF Transaktion
<1>3. RollenTypeOK'
    <2>1. /\ rollen' \in [Kunden -> SUBSET Rollen]
          /\ rollenVersion' \in [Kunden -> Nat]
          /\ tx' \in [Sitzungen -> Transaktion]
        BY <1>1, <1>2, LeereWerte
    <2> QED
        BY <1>1, <2>1, LeereWerte DEF RollenIInv, RollenTypeOK, cacheVars
<1>4. TxStimmt'
    BY <1>1, LeereWerte DEF RollenIInv, TxStimmt
<1>5. VersionStimmt'
    <2> SUFFICES ASSUME NEW r \in Sitzungen, tx'[r].geladen
                 PROVE  /\ tx'[r].gelesen <= rollenVersion'[tx'[r].kunde]
                        /\ tx'[r].kunde \in rollenKunden'
                           /\ rollenVersion'[tx'[r].kunde] = tx'[r].gelesen
                           => tx'[r].alt = rollen'[tx'[r].kunde]
        BY DEF VersionStimmt, NochAktuell
    <2>1. r # s /\ tx'[r] = tx[r] /\ tx[r] \in Transaktion
        BY <1>1, LeereWerte
    <2>2. tx[r].kunde \in Kunden /\ tx[r].gelesen \in Nat
        BY <2>1 DEF RollenIInv, RollenTypeOK, TxStimmt, Transaktion
    <2>3. /\ tx[r].gelesen <= rollenVersion[tx[r].kunde]
          /\ NochAktuell(tx[r]) => tx[r].alt = rollen[tx[r].kunde]
        BY <2>1 DEF RollenIInv, VersionStimmt
    <2>4. CASE tx[r].kunde = k
        BY <1>1, <2>1, <2>2, <2>3, <2>4
    <2>5. CASE tx[r].kunde # k
        BY <1>1, <1>2, <2>1, <2>2, <2>3, <2>5 DEF NochAktuell
    <2> QED
        BY <2>4, <2>5
<1>6. Schwebend(k) /\ \A l \in Kunden : Schwebend(l)' => Schwebend(l)
    BY <1>1, LeereWerte DEF Schwebend
<1>7. AnmeldungStimmt' /\ CacheStimmt'
    BY <1>1, <1>2, <1>6 DEF RollenIInv, RollenTypeOK, AnmeldungStimmt, CacheStimmt, cacheVars
<1> QED
    BY <1>3, <1>4, <1>5, <1>7 DEF RollenIInv

\* The transaction ends without writing anything.
LEMMA EndeSchritt ==
    ASSUME RollenIInv, NEW s \in Sitzungen,
           OhneAenderung(s) \/ VerwerfeRollen(s) \/ AbbruchRollen(s)
    PROVE  RollenIInv'
<1>1. /\ tx' = [tx EXCEPT ![s] = KeineTx]
      /\ UNCHANGED <<zeilenVars, cacheVars>>
      /\ tx \in [Sitzungen -> Transaktion]
    BY DEF OhneAenderung, VerwerfeRollen, AbbruchRollen, RollenIInv, RollenTypeOK
<1>2. bean' \in [Sitzungen -> Bean]
    BY LeereWerte DEF OhneAenderung, VerwerfeRollen, AbbruchRollen, RollenIInv, RollenTypeOK
<1>3. RollenTypeOK' /\ VersionStimmt' /\ AnmeldungStimmt' /\ CacheStimmt'
    BY <1>1, <1>2, LeereWerte, TxSchritt
<1>4. TxStimmt'
    BY <1>1, LeereWerte DEF RollenIInv, TxStimmt
<1> QED
    BY <1>3, <1>4 DEF RollenIInv

-----------------------------------------------------------------------------
(* What goes on around it.                                                 *)

LEMMA LoescheKundeSchritt ==
    ASSUME RollenIInv, NEW k \in Kunden, LoescheKunde(k)
    PROVE  RollenIInv'
<1>1. /\ rollenKunden' = rollenKunden \ {k}
      /\ rollen' = [rollen EXCEPT ![k] = {}]
      /\ rollen \in [Kunden -> SUBSET Rollen]
      /\ rollenKunden \subseteq Kunden
      /\ UNCHANGED <<rollenVersion, bean, tx, cacheVars>>
    BY DEF LoescheKunde, RollenIInv, RollenTypeOK
<1>2. RollenTypeOK'
    BY <1>1 DEF RollenIInv, RollenTypeOK, cacheVars
<1>3. TxStimmt' /\ VersionStimmt'
    BY <1>1 DEF RollenIInv, TxStimmt, VersionStimmt, NochAktuell
<1>4. \A l \in Kunden : Schwebend(l)' <=> Schwebend(l)
    BY <1>1 DEF Schwebend
<1>5. AnmeldungStimmt' /\ CacheStimmt'
    BY <1>1, <1>4 DEF RollenIInv, AnmeldungStimmt, CacheStimmt, cacheVars
<1> QED
    BY <1>2, <1>3, <1>5 DEF RollenIInv

LEMMA LiesAnmeldungSchritt ==
    ASSUME RollenIInv, NEW a \in Anmeldungen, NEW k \in Kunden, LiesAnmeldung(a, k)
    PROVE  RollenIInv'
<1> DEFINE neu == [laeuft |-> TRUE, kunde |-> k, rollen |-> rollen[k],
                   beruehrt |-> Schwebend(k)]
<1>1. /\ anmeldung' = [anmeldung EXCEPT ![a] = neu]
      /\ anmeldung \in [Anmeldungen -> Anmeldung]
      /\ UNCHANGED <<zeilenVars, bean, tx, gecacht, cache, imFenster>>
      /\ rollen[k] \in SUBSET Rollen
    BY DEF LiesAnmeldung, RollenIInv, RollenTypeOK
<1>2. /\ neu \in Anmeldung /\ neu.laeuft /\ neu.kunde = k /\ neu.rollen = rollen[k]
      /\ neu.beruehrt = Schwebend(k)
    <2>1. Schwebend(k) \in BOOLEAN
        BY DEF Schwebend
    <2> QED
        BY <1>1, <2>1 DEF Anmeldung
<1>3. RollenTypeOK'
    BY <1>1, <1>2 DEF RollenIInv, RollenTypeOK, zeilenVars
<1>4. TxStimmt' /\ VersionStimmt'
    BY <1>1 DEF RollenIInv, TxStimmt, VersionStimmt, NochAktuell, zeilenVars
<1>5. \A l \in Kunden : Schwebend(l)' <=> Schwebend(l)
    BY <1>1 DEF Schwebend
<1>6. AnmeldungStimmt'
    <2> HIDE DEF neu
    <2> QED
        BY <1>1, <1>2, <1>5 DEF RollenIInv, RollenTypeOK, AnmeldungStimmt, zeilenVars
<1>7. CacheStimmt'
    BY <1>1, <1>5 DEF RollenIInv, RollenTypeOK, CacheStimmt, zeilenVars
<1> QED
    BY <1>3, <1>4, <1>6, <1>7 DEF RollenIInv

LEMMA FuelleCacheSchritt ==
    ASSUME RollenIInv, NEW a \in Anmeldungen, FuelleCache(a)
    PROVE  RollenIInv'
<1> DEFINE k == anmeldung[a].kunde
<1>1. /\ anmeldung[a].laeuft /\ k \in Kunden /\ anmeldung[a] \in Anmeldung
      /\ anmeldung \in [Anmeldungen -> Anmeldung]
      /\ gecacht \subseteq Kunden /\ imFenster \subseteq Kunden
      /\ rollenKunden \subseteq Kunden
      /\ cache \in [Kunden -> SUBSET Rollen]
    BY DEF FuelleCache, RollenIInv, RollenTypeOK
<1>2. /\ gecacht' = gecacht \cup {k}
      /\ cache' = [cache EXCEPT ![k] = anmeldung[a].rollen]
      /\ imFenster' = IF anmeldung[a].beruehrt THEN imFenster \cup {k}
                                               ELSE imFenster \ {k}
      /\ anmeldung' = [anmeldung EXCEPT ![a] = KeineAnmeldung]
      /\ UNCHANGED <<zeilenVars, bean, tx>>
    BY DEF FuelleCache
<1>3. cache' \in [Kunden -> SUBSET Rollen]
    BY <1>1, <1>2 DEF Anmeldung
<1>4. RollenTypeOK'
    BY <1>1, <1>2, <1>3, LeereWerte DEF RollenIInv, RollenTypeOK, zeilenVars
<1>5. TxStimmt' /\ VersionStimmt'
    BY <1>2 DEF RollenIInv, TxStimmt, VersionStimmt, NochAktuell, zeilenVars
<1>6. \A l \in Kunden : Schwebend(l)' <=> Schwebend(l)
    BY <1>2 DEF Schwebend
<1>7. AnmeldungStimmt'
    BY <1>1, <1>2, <1>6, LeereWerte
       DEF RollenIInv, RollenTypeOK, AnmeldungStimmt, zeilenVars
<1>8. CacheStimmt'
    <2> SUFFICES ASSUME NEW l \in (gecacht' \cap rollenKunden') \ imFenster'
                 PROVE  cache'[l] = rollen'[l] /\ ~Schwebend(l)'
        BY DEF CacheStimmt
    <2>1. l \in Kunden /\ l \in rollenKunden
        BY <1>1, <1>2 DEF zeilenVars
    <2>2. CASE l = k
        BY <1>1, <1>2, <1>6, <2>1, <2>2 DEF RollenIInv, AnmeldungStimmt, zeilenVars
    <2>3. CASE l # k
        BY <1>1, <1>2, <1>6, <2>1, <2>3 DEF RollenIInv, CacheStimmt, zeilenVars
    <2> QED
        BY <2>2, <2>3
<1> QED
    BY <1>4, <1>5, <1>7, <1>8 DEF RollenIInv

-----------------------------------------------------------------------------
(* The theorems.                                                           *)

\* RollenIInv is preserved by every step of AuthModel, AuthService, of the
\* logins and of the deletion of customers.
THEOREM RollenInduktion == RollenIInv /\ [RollenNext]_rollenVars => RollenIInv'
<1> SUFFICES ASSUME RollenIInv, [RollenNext]_rollenVars PROVE RollenIInv'
    OBVIOUS
<1>1. CASE \E s \in Sitzungen : RollenSchritt(s)
    BY <1>1, AddRollenSchritt, RemoveRollenSchritt, OhneRollenSchritt,
       CommitRollenSchritt, EndeSchritt DEF RollenSchritt
<1>2. CASE \E s \in Sitzungen, k \in Kunden :
              FindRollenByUsername(s, k) \/ FindRollenOhneKunde(s, k)
    BY <1>2, SeiteSchritt
<1>3. CASE \E s \in Sitzungen, auswahl \in SUBSET Rollen : UpdateRollen(s, auswahl)
    BY <1>3, RollenAnnahme, UpdateRollenSchritt
<1>4. CASE \E k \in Kunden : LoescheKunde(k)
    BY <1>4, LoescheKundeSchritt
<1>5. CASE \E a \in Anmeldungen, k \in Kunden : LiesAnmeldung(a, k)
    BY <1>5, LiesAnmeldungSchritt
<1>6. CASE \E a \in Anmeldungen : FuelleCache(a)
    BY <1>6, FuelleCacheSchritt
<1>7. CASE UNCHANGED rollenVars
    BY <1>7 DEF rollenVars, zeilenVars, cacheVars, RollenIInv, RollenTypeOK, TxStimmt,
                VersionStimmt, NochAktuell, AnmeldungStimmt, CacheStimmt, Schwebend
<1> QED
    BY <1>1, <1>2, <1>3, <1>4, <1>5, <1>6, <1>7 DEF RollenNext

THEOREM RollenInvariante == RollenSpec => []RollenIInv
<1> QED
    BY InitRollenIInv, RollenInduktion, PTL DEF RollenSpec

\* The fields of the session beans, of the transactions and of the cache have
\* their types, and a running transaction or login is about some customer.
THEOREM RollenTypen == RollenSpec => []RollenTypeOK
<1>1. RollenIInv => RollenTypeOK
    BY DEF RollenIInv
<1> QED
    BY <1>1, RollenInvariante, PTL

\* Whoever is in the security cache is there with his committed roles, unless
\* his login has overlapped with a change between its flush and its commit.
THEOREM CacheImmerAktuell == RollenSpec => []CacheAktuell
<1>1. RollenIInv => CacheAktuell
    BY DEF RollenIInv, CacheStimmt, CacheAktuell
<1> QED
    BY <1>1, RollenInvariante, PTL

\* A step that changes the roles of a customer deletes him, or adds and
\* removes exactly what the page asks for.
LEMMA AenderungSchritt ==
    ASSUME RollenIInv, [RollenNext]_rollenVars, NEW k \in Kunden, rollen'[k] # rollen[k]
    PROVE  \/ k \notin rollenKunden'
           \/ \E s \in Sitzungen :
                 /\ tx[s].stufe = "ende"
                 /\ tx[s].kunde = k
                 /\ rollen'[k] = (rollen[k] \cup tx[s].plus) \ tx[s].minus
<1>1. rollen \in [Kunden -> SUBSET Rollen]
    BY DEF RollenIInv, RollenTypeOK
<1>2. CASE \E s \in Sitzungen : CommitRollen(s)
    <2>1. PICK s \in Sitzungen : CommitRollen(s)
        BY <1>2
    <2>2. /\ tx[s].stufe = "ende"
          /\ tx[s].kunde \in Kunden
          /\ rollen' = [rollen EXCEPT ![tx[s].kunde] = tx[s].neu]
          /\ tx[s].neu = (rollen[tx[s].kunde] \cup tx[s].plus) \ tx[s].minus
        BY <2>1, CommitWirkung DEF CommitRollen
    <2> QED
        BY <1>1, <2>2
<1>3. CASE \E l \in Kunden : LoescheKunde(l)
    BY <1>1, <1>3 DEF LoescheKunde
<1>4. CASE rollen' = rollen
    BY <1>4
<1>5. \/ \E s \in Sitzungen : CommitRollen(s)
      \/ \E l \in Kunden : LoescheKunde(l)
      \/ rollen' = rollen
    BY DEF RollenNext, RollenSchritt, AddRollen, OhneNeueRollen, RemoveRollen,
           OhneAlteRollen, OhneAenderung, VerwerfeRollen, AbbruchRollen,
           FindRollenByUsername, FindRollenOhneKunde, UpdateRollen, LiesAnmeldung,
           FuelleCache, rollenVars, zeilenVars
<1> QED
    BY <1>2, <1>3, <1>4, <1>5

\* Changes of several administrators add up (AuthModel.updateRollen).
THEOREM AenderungenAddierenSich == RollenSpec => AenderungAddiertSich
<1>1. RollenIInv /\ [RollenNext]_rollenVars =>
        [\A k \in Kunden :
            rollen'[k] # rollen[k] =>
               \/ k \notin rollenKunden'
               \/ \E s \in Sitzungen :
                     /\ tx[s].stufe = "ende"
                     /\ tx[s].kunde = k
                     /\ rollen'[k] = (rollen[k] \cup tx[s].plus) \ tx[s].minus
        ]_rollenVars
    BY AenderungSchritt
<1> QED
    BY <1>1, RollenInvariante, PTL DEF RollenSpec, AenderungAddiertSich

=============================================================================
