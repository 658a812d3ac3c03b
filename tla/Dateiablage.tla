----------------------------- MODULE Dateiablage -----------------------------
(***************************************************************************)
(* The uploaded file of a customer: one row in table file_tbl, and a copy  *)
(* in a directory from which the web server delivers it.                   *)
(*                                                                         *)
(* The copy is written by FileHelper.store, which two kinds of threads     *)
(* call: a worker thread that KundeService.setFile starts before its       *)
(* transaction commits, and a request that shows the customer              *)
(* (KundeModel.getFilename).  Nothing but the dates of the row and of the  *)
(* copy tells store whether there is anything to do.                       *)
(*                                                                         *)
(* The bytes of an upload are represented by the name of its request.      *)
(***************************************************************************)
EXTENDS Integers

CONSTANTS
    Anfragen,        \* the requests: uploads and pages
    Keine,           \* no bytes
    Typen,           \* the MIME types of the files uploaded
    TOLERANZ,        \* tolerance of FileHelper.store (1000 ms in the code)
    MaxZeit          \* bound on the time that passes

MimeTypes == {"JPEG", "PJPEG", "PNG", "MP4", "WAV", "unbekannt"}

ASSUME KonstantenAnnahme ==
    /\ Keine \notin Anfragen
    /\ Typen \subseteq MimeTypes
    /\ TOLERANZ \in Nat \ {0}
    /\ MaxZeit \in Nat

VARIABLES
    zeile,           \* the row of the file
    version,         \* how often it has been written; 0: there is no row
    platte,          \* the directory
    pc,              \* how far a request has come
    objekt,          \* its entity File
    gelesen,         \* the version of the row it has read
    ablage,          \* how far its call of FileHelper.store has come
    jetzt            \* the clock

reqVars == <<pc, objekt, gelesen>>
vars == <<zeile, version, platte, reqVars, ablage, jetzt>>

Endungen == {"jpeg", "png", "mp4"}

\* a type is given an extension for which there is no place
Extension_Fehler(t) ==
    CASE t \in {"JPEG", "PJPEG"} -> "jpeg"
      [] t = "PNG" -> "png"
      [] t = "MP4" -> "mp4"
      [] OTHER -> "wav"

\* MimeType.getExtension; for the other types uploading fails.
Extension(t) ==
    CASE t \in {"JPEG", "PJPEG"} -> "jpeg"
      [] t = "PNG" -> "png"
      [] t = "MP4" -> "mp4"
      [] OTHER -> "keine"

Datei == [inhalt : Anfragen \cup {Keine}, endung : Endungen, aktualisiert : Nat]

\* A file on disk: the request whose thread has created it (Keine: there is no
\* such file), the upload its bytes come from, whether all of them have been
\* written, and the time it was created.
Plattendatei == [von : Anfragen \cup {Keine}, inhalt : Anfragen \cup {Keine},
                 fertig : BOOLEAN, erzeugt : Nat]

TypeOK ==
    /\ zeile \in Datei
    /\ version \in Nat
    /\ platte \in [Endungen -> Plattendatei]
    /\ pc \in [Anfragen -> {"bereit", "gesetzt", "geschrieben", "geladen",
                            "fertig", "abgelehnt"}]
    /\ objekt \in [Anfragen -> Datei]
    /\ gelesen \in [Anfragen -> Nat]
    /\ ablage \in [Anfragen -> {"keine", "wartet", "ersetzt", "geloescht",
                                "angelegt", "aus", "gescheitert"}]
    /\ jetzt \in Nat

OhneDatei == [inhalt |-> Keine, endung |-> "jpeg", aktualisiert |-> 0]

NichtDa == [von |-> Keine, inhalt |-> Keine, fertig |-> FALSE, erzeugt |-> 0]

Init ==
    /\ zeile = OhneDatei
    /\ version = 0
    /\ platte = [e \in Endungen |-> NichtDa]
    /\ pc = [r \in Anfragen |-> "bereit"]
    /\ objekt = [r \in Anfragen |-> OhneDatei]
    /\ gelesen = [r \in Anfragen |-> 0]
    /\ ablage = [r \in Anfragen |-> "keine"]
    /\ jetzt = 0

Weiter(r, stufe) == pc' = [pc EXCEPT ![r] = stufe]

Stufe(r, stufe) == ablage' = [ablage EXCEPT ![r] = stufe]

-----------------------------------------------------------------------------
(***************************************************************************)
(* KundeService.setFile.                                                   *)
(***************************************************************************)

\* NoMimeTypeException, or no extension for a known type.
VerwerfeTyp(r, t) ==
    /\ pc[r] = "bereit"
    /\ Extension(t) = "keine"
    /\ Weiter(r, "abgelehnt")
    /\ UNCHANGED <<zeile, version, platte, objekt, gelesen, ablage, jetzt>>

\* The row is read, or made; it takes over the new bytes; the worker thread is
\* started with the entity.  A new entity is dated by persist, a changed one
\* only when it is written.
SetFile(r, t) ==
    /\ pc[r] = "bereit"
    /\ Extension(t) # "keine"
    /\ objekt' = [objekt EXCEPT ![r] =
                    [inhalt |-> r, endung |-> Extension(t),
                     aktualisiert |-> IF version = 0 THEN jetzt ELSE zeile.aktualisiert]]
    /\ gelesen' = [gelesen EXCEPT ![r] = version]
    /\ Stufe(r, "wartet")
    /\ Weiter(r, "gesetzt")
    /\ UNCHANGED <<zeile, version, platte, jetzt>>

\* the date of an update forgotten
Flush_Fehler(r) ==
    /\ pc[r] = "gesetzt"
    /\ Weiter(r, "geschrieben")
    /\ UNCHANGED <<zeile, version, platte, objekt, gelesen, ablage, jetzt>>

\* The EntityManager writes: @PreUpdate dates the entity the worker thread has.
Flush(r) ==
    /\ pc[r] = "gesetzt"
    /\ objekt' = [objekt EXCEPT ![r].aktualisiert = IF gelesen[r] = 0 THEN @ ELSE jetzt]
    /\ Weiter(r, "geschrieben")
    /\ UNCHANGED <<zeile, version, platte, gelesen, ablage, jetzt>>

\* Commit; of two concurrent uploads the version (or, for the first file of a
\* customer, the version of the customer) lets only one through.
CommitFile(r) ==
    /\ pc[r] = "geschrieben"
    /\ gelesen[r] = version
    /\ zeile' = objekt[r]
    /\ version' = version + 1
    /\ Weiter(r, "fertig")
    /\ UNCHANGED <<platte, objekt, gelesen, ablage, jetzt>>

\* OptimisticLockException, or any other failure.
VerwerfeFile(r) ==
    /\ pc[r] \in {"gesetzt", "geschrieben"}
    /\ Weiter(r, "abgelehnt")
    /\ UNCHANGED <<zeile, version, platte, objekt, gelesen, ablage, jetzt>>

-----------------------------------------------------------------------------
(***************************************************************************)
(* A page that shows the customer.                                         *)
(***************************************************************************)

\* The session loads the customer and his file ...
LadeKunde(r) ==
    /\ pc[r] = "bereit"
    /\ version > 0
    /\ objekt' = [objekt EXCEPT ![r] = zeile]
    /\ gelesen' = [gelesen EXCEPT ![r] = version]
    /\ Weiter(r, "geladen")
    /\ UNCHANGED <<zeile, version, platte, ablage, jetzt>>

\* ... and some time later renders the page.
GetFilename(r) ==
    /\ pc[r] = "geladen"
    /\ Stufe(r, "wartet")
    /\ Weiter(r, "fertig")
    /\ UNCHANGED <<zeile, version, platte, objekt, gelesen, jetzt>>

-----------------------------------------------------------------------------
(***************************************************************************)
(* FileHelper.store.  Files.copy with REPLACE_EXISTING deletes the file,   *)
(* creates a new one, which fails if it exists, and writes the bytes.      *)
(***************************************************************************)

\* The copy store of request r works on.
Kopie(r) == platte[objekt[r].endung]

Existiert(r) == Kopie(r).von # Keine

\* "Die Datei existiert bereits"
Vorhanden(r) == Existiert(r) /\ Kopie(r).erzeugt + TOLERANZ > objekt[r].aktualisiert

Ueberspringe(r) ==
    /\ ablage[r] = "wartet"
    /\ Vorhanden(r)
    /\ Stufe(r, "aus")
    /\ UNCHANGED <<zeile, version, platte, reqVars, jetzt>>

Ersetze(r) ==
    /\ ablage[r] = "wartet"
    /\ ~ Vorhanden(r)
    /\ Stufe(r, "ersetzt")
    /\ UNCHANGED <<zeile, version, platte, reqVars, jetzt>>

Loesche(r) ==
    /\ ablage[r] = "ersetzt"
    /\ platte' = [platte EXCEPT ![objekt[r].endung] = NichtDa]
    /\ Stufe(r, "geloescht")
    /\ UNCHANGED <<zeile, version, reqVars, jetzt>>

LegeAn(r) ==
    /\ ablage[r] = "geloescht"
    /\ ~ Existiert(r)
    /\ platte' = [platte EXCEPT ![objekt[r].endung] =
                    [von |-> r, inhalt |-> objekt[r].inhalt,
                     fertig |-> FALSE, erzeugt |-> jetzt]]
    /\ Stufe(r, "angelegt")
    /\ UNCHANGED <<zeile, version, reqVars, jetzt>>

\* the thread goes away without a look at the directory
SchonAngelegt_Fehler(r) ==
    /\ ablage[r] = "geloescht"
    /\ Stufe(r, "aus")
    /\ UNCHANGED <<zeile, version, platte, reqVars, jetzt>>

\* Another thread was faster: the IOException is only logged.
SchonAngelegt(r) ==
    /\ ablage[r] = "geloescht"
    /\ Existiert(r)
    /\ Stufe(r, "aus")
    /\ UNCHANGED <<zeile, version, platte, reqVars, jetzt>>

\* The bytes are written; if another thread has deleted the file meanwhile,
\* they are written to nowhere.
Schreibe(r) ==
    /\ ablage[r] = "angelegt"
    /\ platte' = [platte EXCEPT ![objekt[r].endung].fertig =
                    @ \/ Kopie(r).von = r]
    /\ Stufe(r, "aus")
    /\ UNCHANGED <<zeile, version, reqVars, jetzt>>

\* Disk full, no permission, a crash in the middle: logged, if at all.
Fehlschlag(r) ==
    /\ ablage[r] \in {"ersetzt", "geloescht", "angelegt"}
    /\ Stufe(r, "gescheitert")
    /\ UNCHANGED <<zeile, version, platte, reqVars, jetzt>>

-----------------------------------------------------------------------------
Tick ==
    /\ jetzt < MaxZeit
    /\ jetzt' = jetzt + 1
    /\ UNCHANGED <<zeile, version, platte, reqVars, ablage>>

\* No thread works on the disk.
KeineAblage == \A r \in Anfragen : ablage[r] \in {"keine", "aus", "gescheitert"}

\* Nor is an upload on its way.
Ruhe == KeineAblage /\ \A r \in Anfragen : pc[r] \notin {"gesetzt", "geschrieben"}

\* All requests of the bounded workload are done.
Feierabend ==
    /\ Ruhe
    /\ \A r \in Anfragen : pc[r] # "geladen"
    /\ UNCHANGED vars

Anfrage(r) ==
    \/ \E t \in Typen : VerwerfeTyp(r, t) \/ SetFile(r, t)
    \/ Flush(r) \/ CommitFile(r)
    \/ LadeKunde(r) \/ GetFilename(r)

Store(r) ==
    \/ Ueberspringe(r) \/ Ersetze(r) \/ Loesche(r) \/ LegeAn(r)
    \/ SchonAngelegt(r) \/ Schreibe(r)

\* What goes wrong.
Stoerung(r) == VerwerfeFile(r) \/ Fehlschlag(r)

Next ==
    \/ \E r \in Anfragen : Anfrage(r) \/ Store(r) \/ Stoerung(r)
    \/ Tick
    \/ Feierabend

Spec == Init /\ [][Next]_vars

Beginnt(r, stufe) == pc[r] = "bereit" /\ pc'[r] = stufe

\* An upload begins when all threads have copied and all pages that have loaded
\* the file are rendered; pages begin when it is committed, though its worker
\* thread may still copy, and may overlap.
Nacheinander ==
    \A r \in Anfragen :
        /\ Beginnt(r, "gesetzt") => Ruhe /\ \A s \in Anfragen : pc[s] # "geladen"
        /\ Beginnt(r, "geladen") =>
              \A s \in Anfragen : pc[s] \notin {"gesetzt", "geschrieben"}

\* Before an upload begins, every copy has become older than the tolerance.
Geduldig ==
    (\E r \in Anfragen : Beginnt(r, "gesetzt"))
        => \A e \in Endungen : platte[e].von # Keine => platte[e].erzeugt + TOLERANZ <= jetzt

Geordnet == Next /\ Nacheinander /\ ~ \E r \in Anfragen : Stoerung(r)

GeordnetSpec == Init /\ [][Geordnet]_vars

-----------------------------------------------------------------------------
(***************************************************************************)
(* Safety.                                                                 *)
(***************************************************************************)

\* However the threads that delete, create and write one copy interleave, and
\* whether or not their uploads are committed: if none of them has met an I/O
\* error, every copy that one of them has dealt with is there, and complete.
KopieVollstaendig ==
    KeineAblage /\ (\A r \in Anfragen : ablage[r] # "gescheitert")
        => \A r \in Anfragen : ablage[r] = "aus" => Kopie(r).fertig

-----------------------------------------------------------------------------
(* The parts of the inductive invariant of KopieVollstaendig. *)

\* A request has called store only after it has an entity for good.
AblageNachObjekt ==
    \A r \in Anfragen : pc[r] \in {"bereit", "geladen"} => ablage[r] = "keine"

\* An incomplete copy has a creator who is still writing or has failed.
UnfertigesHatSchreiber ==
    \A e \in Endungen : platte[e].von # Keine /\ ~ platte[e].fertig =>
        /\ objekt[platte[e].von].endung = e
        /\ ablage[platte[e].von] \in {"angelegt", "gescheitert"}

\* A copy that has been dealt with and is missing has been deleted by someone
\* who is about to create it, or has failed to.
FehlendesHatLoescher ==
    \A r \in Anfragen : ablage[r] \in {"angelegt", "aus"} =>
        \/ Existiert(r)
        \/ \E s \in Anfragen : /\ objekt[s].endung = objekt[r].endung
                               /\ ablage[s] \in {"geloescht", "gescheitert"}

IInv == TypeOK /\ AblageNachObjekt /\ UnfertigesHatSchreiber /\ FehlendesHatLoescher

-----------------------------------------------------------------------------
\* A page that opens now would take the copy for the right one.
Akzeptiert ==
    LET kopie == platte[zeile.endung]
    IN  kopie.von # Keine /\ kopie.erzeugt + TOLERANZ > zeile.aktualisiert

\* A copy that the next page would deliver without looking at the row again
\* holds the bytes of the row: the tolerance "sollte ausreichend sein"
\* (FileHelper.store).
AblageAktuell ==
    Ruhe /\ version > 0 /\ Akzeptiert
        => platte[zeile.endung].inhalt = zeile.inhalt /\ platte[zeile.endung].fertig
=============================================================================
