-------------------------- MODULE Rollenverwaltung --------------------------
(***************************************************************************)
(* The roles of the customers: the dialogue in which administrators change *)
(* them (AuthModel, AuthService), and the security cache of the container, *)
(* which is filled by every login and flushed by every change.             *)
(*                                                                         *)
(* A session bean AuthModel serves one request at a time (@Stateful), so   *)
(* each session s \in Sitzungen has at most one transaction, tx[s].  The   *)
(* transaction of updateRollen spans addRollen and removeRollen.  The      *)
(* cache lies outside of it: a flush takes effect at once.                 *)
(***************************************************************************)
EXTENDS Naturals

CONSTANTS
    Kunden,        \* ids of the customers, which are also their usernames
    Rollen,        \* RolleType
    Sitzungen,     \* sessions of administrators
    Anmeldungen,   \* logins that miss the security cache
    Niemand,       \* stands for "no customer"
    MaxVersion     \* bound on the version of a customer

ASSUME RollenAnnahme ==
    /\ Niemand \notin Kunden
    /\ MaxVersion \in Nat

VARIABLES
    \* committed rows
    rollenKunden,  \* the rows of table kunde
    rollen,        \* the rows of table kunde_rolle, for each customer
    rollenVersion, \* column version of a customer (@Version)
    \* the application
    bean,          \* fields kundeId and ausgewaehlteRollenOrig of AuthModel
    tx,            \* the transaction of updateRollen
    \* the container
    gecacht,       \* the customers the security cache knows
    cache,         \* their roles in the security cache
    anmeldung,     \* a login between its SELECT and its entry in the cache
    \* observation
    imFenster      \* customers whose entry comes from a login that overlapped
                   \* with a transaction between its flush and its commit

zeilenVars == <<rollenKunden, rollen, rollenVersion>>
cacheVars == <<gecacht, cache, anmeldung, imFenster>>
rollenVars == <<zeilenVars, bean, tx, cacheVars>>

-----------------------------------------------------------------------------
Stufen == {"bereit", "hinzu", "weg", "ende"}

Bean == [kunde : Kunden \cup {Niemand}, orig : SUBSET Rollen]

\* plus and minus are the lists zusaetzlicheRollen and zuEntfernendeRollen;
\* alt is the Set<RolleType> as it was loaded (the snapshot Hibernate keeps),
\* neu what addRollen and removeRollen have made of it.
Transaktion == [stufe : Stufen,
                kunde : Kunden \cup {Niemand},
                plus : SUBSET Rollen,
                minus : SUBSET Rollen,
                geladen : BOOLEAN,
                gelesen : Nat,
                alt : SUBSET Rollen,
                neu : SUBSET Rollen]

Anmeldung == [laeuft : BOOLEAN,
              kunde : Kunden \cup {Niemand},
              rollen : SUBSET Rollen,
              beruehrt : BOOLEAN]

\* A transaction and a login under way are about some customer.
RollenTypeOK ==
    /\ rollenKunden \subseteq Kunden
    /\ rollen \in [Kunden -> SUBSET Rollen]
    /\ rollenVersion \in [Kunden -> Nat]
    /\ bean \in [Sitzungen -> Bean]
    /\ tx \in [Sitzungen -> Transaktion]
    /\ \A s \in Sitzungen : tx[s].stufe # "bereit" => tx[s].kunde \in Kunden
    /\ gecacht \subseteq Kunden
    /\ cache \in [Kunden -> SUBSET Rollen]
    /\ anmeldung \in [Anmeldungen -> Anmeldung]
    /\ \A a \in Anmeldungen : anmeldung[a].laeuft => anmeldung[a].kunde \in Kunden
    /\ imFenster \subseteq Kunden

LeereBean == [kunde |-> Niemand, orig |-> {}]

KeineTx == [stufe |-> "bereit", kunde |-> Niemand, plus |-> {}, minus |-> {},
            geladen |-> FALSE, gelesen |-> 0, alt |-> {}, neu |-> {}]

KeineAnmeldung == [laeuft |-> FALSE, kunde |-> Niemand, rollen |-> {},
                   beruehrt |-> FALSE]

RollenInit ==
    /\ rollenKunden = Kunden
    /\ rollen \in [Kunden -> SUBSET Rollen]
    /\ rollenVersion = [k \in Kunden |-> 0]
    /\ bean = [s \in Sitzungen |-> LeereBean]
    /\ tx = [s \in Sitzungen |-> KeineTx]
    /\ gecacht = {}
    /\ cache = [k \in Kunden |-> {}]
    /\ anmeldung = [a \in Anmeldungen |-> KeineAnmeldung]
    /\ imFenster = {}

-----------------------------------------------------------------------------
(***************************************************************************)
(* The dialogue.                                                           *)
(***************************************************************************)

\* AuthModel.findRollenByUsername: the page is opened, the roles of k go into
\* the session bean.  A second tab of the session overwrites them.
FindRollenByUsername(s, k) ==
    /\ tx[s].stufe = "bereit"
    /\ k \in rollenKunden
    /\ bean' = [bean EXCEPT ![s] = [kunde |-> k, orig |-> rollen[k]]]
    /\ UNCHANGED <<zeilenVars, tx, cacheVars>>

\* ... and kunde.getRollen() fails if there is no such customer: the container
\* discards the session bean.
FindRollenOhneKunde(s, k) ==
    /\ tx[s].stufe = "bereit"
    /\ k \notin rollenKunden
    /\ bean' = [bean EXCEPT ![s] = LeereBean]
    /\ UNCHANGED <<zeilenVars, tx, cacheVars>>

\* with no page opened before
UpdateRollen_Fehler(s, auswahl) ==
    /\ tx[s].stufe = "bereit"
    /\ tx' = [tx EXCEPT ![s] = [KeineTx EXCEPT
                 !.stufe = "hinzu",
                 !.kunde = bean[s].kunde,
                 !.plus = auswahl \ bean[s].orig,
                 !.minus = bean[s].orig \ auswahl]]
    /\ UNCHANGED <<zeilenVars, bean, cacheVars>>

\* AuthModel.updateRollen begins.  auswahl is what the page has sent.  It can
\* be any page: an old one, or one of another tab, of another customer even;
\* the difference is taken to what the session bean holds.  Without a page
\* opened before, ausgewaehlteRollenOrig is null and nothing happens.
UpdateRollen(s, auswahl) ==
    /\ tx[s].stufe = "bereit"
    /\ bean[s].kunde # Niemand
    /\ rollenVersion[bean[s].kunde] < MaxVersion
    /\ tx' = [tx EXCEPT ![s] = [KeineTx EXCEPT
                 !.stufe = "hinzu",
                 !.kunde = bean[s].kunde,
                 !.plus = auswahl \ bean[s].orig,
                 !.minus = bean[s].orig \ auswahl]]
    /\ UNCHANGED <<zeilenVars, bean, cacheVars>>

\* every call loads the customer anew
Geladen_Fehler(t) ==
    [t EXCEPT !.geladen = TRUE,
              !.gelesen = rollenVersion[t.kunde],
              !.alt = rollen[t.kunde],
              !.neu = rollen[t.kunde]]

\* findKundeById inside of addRollen or removeRollen: the first call loads
\* the customer and his roles, the second one gets the same managed object.
Geladen(t) ==
    IF t.geladen THEN t
    ELSE [t EXCEPT !.geladen = TRUE,
                   !.gelesen = rollenVersion[t.kunde],
                   !.alt = rollen[t.kunde],
                   !.neu = rollen[t.kunde]]

\* forgotten
FlushSecurityCache_Fehler(k) == UNCHANGED cacheVars

\* AuthService.flushSecurityCache.  (A login under way is only marked.)
FlushSecurityCache(k) ==
    /\ gecacht' = gecacht \ {k}
    /\ cache' = [cache EXCEPT ![k] = {}]
    /\ imFenster' = imFenster \ {k}
    /\ anmeldung' = [a \in Anmeldungen |->
           IF anmeldung[a].kunde = k
           THEN [anmeldung[a] EXCEPT !.beruehrt = TRUE]
           ELSE anmeldung[a]]

\* AuthService.addRollen
AddRollen(s) ==
    /\ tx[s].stufe = "hinzu"
    /\ tx[s].plus # {}
    /\ tx[s].kunde \in rollenKunden
    /\ LET t == Geladen(tx[s])
       IN  tx' = [tx EXCEPT ![s] = [t EXCEPT !.stufe = "weg",
                                             !.neu = @ \cup t.plus]]
    /\ FlushSecurityCache(tx[s].kunde)
    /\ UNCHANGED <<zeilenVars, bean>>

\* ... which returns at once if the list is empty
OhneNeueRollen(s) ==
    /\ tx[s].stufe = "hinzu"
    /\ tx[s].plus = {}
    /\ tx' = [tx EXCEPT ![s].stufe = "weg"]
    /\ UNCHANGED <<zeilenVars, bean, cacheVars>>

\* AuthService.removeRollen, and the end of updateRollen, which resets the
\* fields of the session bean before the transaction is committed
RemoveRollen(s) ==
    /\ tx[s].stufe = "weg"
    /\ tx[s].minus # {}
    /\ tx[s].geladen \/ tx[s].kunde \in rollenKunden
    /\ LET t == Geladen(tx[s])
       IN  tx' = [tx EXCEPT ![s] = [t EXCEPT !.stufe = "ende",
                                             !.neu = @ \ t.minus]]
    /\ FlushSecurityCache(tx[s].kunde)
    /\ bean' = [bean EXCEPT ![s] = LeereBean]
    /\ UNCHANGED zeilenVars

OhneAlteRollen(s) ==
    /\ tx[s].stufe = "weg"
    /\ tx[s].minus = {}
    /\ tx' = [tx EXCEPT ![s].stufe = "ende"]
    /\ bean' = [bean EXCEPT ![s] = LeereBean]
    /\ UNCHANGED <<zeilenVars, cacheVars>>

-----------------------------------------------------------------------------
(***************************************************************************)
(* The end of the transaction.                                             *)
(***************************************************************************)

Geaendert(t) == t.geladen /\ t.neu # t.alt

\* A changed collection increments the version of the customer it belongs to,
\* in an UPDATE that names the version that was read.
NochAktuell(t) ==
    /\ t.kunde \in rollenKunden
    /\ rollenVersion[t.kunde] = t.gelesen

\* The rows of kunde_rolle are deleted and inserted one by one: those in which
\* the Set differs from what was loaded.
CommitRollen(s) ==
    /\ tx[s].stufe = "ende"
    /\ Geaendert(tx[s])
    /\ NochAktuell(tx[s])
    /\ rollen' = [rollen EXCEPT ![tx[s].kunde] =
                     (@ \cup (tx[s].neu \ tx[s].alt)) \ (tx[s].alt \ tx[s].neu)]
    /\ rollenVersion' = [rollenVersion EXCEPT ![tx[s].kunde] = @ + 1]
    /\ tx' = [tx EXCEPT ![s] = KeineTx]
    /\ UNCHANGED <<rollenKunden, bean, cacheVars>>

\* Roles that were there already are no change.
OhneAenderung(s) ==
    /\ tx[s].stufe = "ende"
    /\ ~Geaendert(tx[s])
    /\ tx' = [tx EXCEPT ![s] = KeineTx]
    /\ UNCHANGED <<zeilenVars, bean, cacheVars>>

\* OptimisticLockException
VerwerfeRollen(s) ==
    /\ tx[s].stufe = "ende"
    /\ Geaendert(tx[s])
    /\ ~NochAktuell(tx[s])
    /\ tx' = [tx EXCEPT ![s] = KeineTx]
    /\ UNCHANGED <<zeilenVars, bean, cacheVars>>

\* An exception on the way: the customer is gone, the flush has failed, the
\* database does not answer.  The container discards the session bean.
AbbruchRollen(s) ==
    /\ tx[s].stufe # "bereit"
    /\ tx' = [tx EXCEPT ![s] = KeineTx]
    /\ bean' = [bean EXCEPT ![s] = LeereBean]
    /\ UNCHANGED <<zeilenVars, cacheVars>>

-----------------------------------------------------------------------------
(***************************************************************************)
(* What goes on around it.                                                 *)
(***************************************************************************)

\* KundeService.deleteKundeById.  The cache is not flushed.
LoescheKunde(k) ==
    /\ k \in rollenKunden
    /\ rollenKunden' = rollenKunden \ {k}
    /\ rollen' = [rollen EXCEPT ![k] = {}]
    /\ UNCHANGED <<rollenVersion, bean, tx, cacheVars>>

\* A transaction has flushed the entry of k and is not at its end yet.
Schwebend(k) == \E s \in Sitzungen : tx[s].geladen /\ tx[s].kunde = k

\* request.login (AuthModel.login), and any call with HTTP authentication,
\* for a customer the cache does not know: the login module reads his roles
LiesAnmeldung(a, k) ==
    /\ ~anmeldung[a].laeuft
    /\ k \in rollenKunden \ gecacht
    /\ anmeldung' = [anmeldung EXCEPT ![a] =
           [laeuft |-> TRUE, kunde |-> k, rollen |-> rollen[k],
            beruehrt |-> Schwebend(k)]]
    /\ UNCHANGED <<zeilenVars, bean, tx, gecacht, cache, imFenster>>

\* ... and the container keeps them.
FuelleCache(a) ==
    /\ anmeldung[a].laeuft
    /\ LET k == anmeldung[a].kunde
       IN  /\ gecacht' = gecacht \cup {k}
           /\ cache' = [cache EXCEPT ![k] = anmeldung[a].rollen]
           /\ imFenster' = IF anmeldung[a].beruehrt
                           THEN imFenster \cup {k}
                           ELSE imFenster \ {k}
    /\ anmeldung' = [anmeldung EXCEPT ![a] = KeineAnmeldung]
    /\ UNCHANGED <<zeilenVars, bean, tx>>

RollenSchritt(s) ==
    \/ AddRollen(s) \/ OhneNeueRollen(s)
    \/ RemoveRollen(s) \/ OhneAlteRollen(s)
    \/ CommitRollen(s) \/ OhneAenderung(s) \/ VerwerfeRollen(s)
    \/ AbbruchRollen(s)

RollenNext ==
    \/ \E s \in Sitzungen : RollenSchritt(s)
    \/ \E s \in Sitzungen, k \in Kunden :
          FindRollenByUsername(s, k) \/ FindRollenOhneKunde(s, k)
    \/ \E s \in Sitzungen, auswahl \in SUBSET Rollen : UpdateRollen(s, auswahl)
    \/ \E k \in Kunden : LoescheKunde(k)
    \/ \E a \in Anmeldungen, k \in Kunden : LiesAnmeldung(a, k)
    \/ \E a \in Anmeldungen : FuelleCache(a)

RollenSpec == RollenInit /\ [][RollenNext]_rollenVars

-----------------------------------------------------------------------------
(***************************************************************************)
(* Properties.                                                             *)
(***************************************************************************)

\* Changes of several administrators add up: whenever the roles of a customer
\* change, the new ones are those stored at that moment, with exactly the
\* additions and removals of the page that is being saved.  What another
\* administrator has committed since the page was opened, or since the row
\* was read, is neither lost nor brought back (AuthModel.updateRollen takes
\* the difference, and the version of the customer guards the rest).
AenderungAddiertSich ==
    [][\A k \in Kunden :
          rollen'[k] # rollen[k] =>
             \/ k \notin rollenKunden'
             \/ \E s \in Sitzungen :
                   /\ tx[s].stufe = "ende"
                   /\ tx[s].kunde = k
                   /\ rollen'[k] = (rollen[k] \cup tx[s].plus) \ tx[s].minus
      ]_rollenVars

\* The security cache holds the committed roles of a customer, unless the
\* login that filled it overlapped with a change of these roles between flush
\* and commit: AuthService flushes before the commit, and nobody flushes
\* after it.
CacheAktuell ==
    \A k \in gecacht \cap rollenKunden :
        k \notin imFenster => cache[k] = rollen[k]

-----------------------------------------------------------------------------
(* The parts of the inductive invariant of both. *)

\* What addRollen and removeRollen have made of the roles that were loaded.
TxStimmt ==
    \A s \in Sitzungen :
        /\ tx[s].stufe \in {"bereit", "hinzu"} => ~tx[s].geladen
        /\ tx[s].plus \cap tx[s].minus = {}
        /\ tx[s].stufe = "weg" =>
              IF tx[s].geladen THEN tx[s].neu = tx[s].alt \cup tx[s].plus
                               ELSE tx[s].plus = {}
        /\ tx[s].stufe = "ende" /\ tx[s].geladen =>
              tx[s].neu = (tx[s].alt \cup tx[s].plus) \ tx[s].minus

\* A version that is still current has been read together with current roles.
VersionStimmt ==
    \A s \in Sitzungen : tx[s].geladen =>
        /\ tx[s].gelesen <= rollenVersion[tx[s].kunde]
        /\ NochAktuell(tx[s]) => tx[s].alt = rollen[tx[s].kunde]

\* A login that has not been overtaken by a flush knows the committed roles,
\* and nobody is about to change them.
AnmeldungStimmt ==
    \A a \in Anmeldungen :
        /\ anmeldung[a].laeuft
        /\ ~anmeldung[a].beruehrt
        /\ anmeldung[a].kunde \in rollenKunden
        => /\ anmeldung[a].rollen = rollen[anmeldung[a].kunde]
           /\ ~Schwebend(anmeldung[a].kunde)

\* So does an entry of the cache.
CacheStimmt ==
    \A k \in (gecacht \cap rollenKunden) \ imFenster :
        cache[k] = rollen[k] /\ ~Schwebend(k)

RollenIInv ==
    /\ RollenTypeOK
    /\ TxStimmt
    /\ VersionStimmt
    /\ AnmeldungStimmt
    /\ CacheStimmt

=============================================================================
