--------------------------- MODULE Dateibeobachtung --------------------------
(***************************************************************************)
(* All behaviours of Dateiablage, with an observer that knows whether they *)
(* have been calm so far: nothing has failed, an upload has overlapped     *)
(* neither another one nor a page, and none has begun within the tolerance *)
(* of FileHelper.store.                                                    *)
(***************************************************************************)
EXTENDS Dateiablage

VARIABLE ungestoert

Ruhig == Nacheinander /\ Geduldig /\ ~ \E r \in Anfragen : Stoerung(r)

BeobachteterBeginn == Init /\ ungestoert = TRUE

BeobachteterSchritt == Next /\ ungestoert' = (ungestoert /\ Ruhig)

BeobachteteSpec == BeobachteterBeginn /\ [][BeobachteterSchritt]_<<vars, ungestoert>>

\* As long as that is so, a copy that the next page would deliver holds the
\* bytes of the row: the tolerance does its job.
AktuellSolangeUngestoert == ungestoert => AblageAktuell

-----------------------------------------------------------------------------
(* The parts of the inductive invariant of AktuellSolangeUngestoert. *)

Schreibend(r) == pc[r] \in {"gesetzt", "geschrieben"}

Kopierend(r) == ablage[r] \in {"wartet", "ersetzt", "geloescht", "angelegt"}

\* A thread that stores what has been committed, or is going to, has the
\* contents of the row.
KopiererHabenZeile ==
    \A r \in Anfragen :
        pc[r] = "geladen" \/ (Kopierend(r) /\ ~ Schreibend(r)) => objekt[r] = zeile

\* An upload that is not committed is alone.
SchreiberAllein ==
    \A r \in Anfragen : Schreibend(r) =>
        /\ objekt[r].inhalt = r
        /\ \A s \in Anfragen \ {r} :
              ~ Schreibend(s) /\ ~ Kopierend(s) /\ pc[s] # "geladen"

\* The copy where o belongs holds what o holds, or will be seen to be older
\* than o, which is, or is going to be, dated zeit.
RichtigOderAlt(o, zeit) ==
    LET kopie == platte[o.endung]
    IN  kopie.von # Keine => kopie.inhalt = o.inhalt \/ kopie.erzeugt + TOLERANZ <= zeit

\* The date its row will have, as far as it is known: a changed entity is dated
\* when it is written.
Datum(r) == IF pc[r] = "gesetzt" /\ gelesen[r] # 0 THEN jetzt ELSE objekt[r].aktualisiert

KopienStimmen ==
    /\ \A r \in Anfragen : Schreibend(r) => RichtigOderAlt(objekt[r], Datum(r))
    /\ version > 0 /\ (\A r \in Anfragen : ~ Schreibend(r))
          => RichtigOderAlt(zeile, zeile.aktualisiert)

RuhigIInv ==
    /\ \A r \in Anfragen : ablage[r] # "gescheitert"
    /\ KopiererHabenZeile
    /\ SchreiberAllein
    /\ KopienStimmen

UngestoertIInv == ungestoert => RuhigIInv

=============================================================================
