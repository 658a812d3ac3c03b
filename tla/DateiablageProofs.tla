-------------------------- MODULE DateiablageProofs --------------------------
(***************************************************************************)
(* Proofs about Dateiablage for any number of uploads and pages: threads   *)
(* that copy the same file at once leave a complete copy, and what the     *)
(* dates say of the copies is true in calm behaviours.                     *)
(***************************************************************************)
EXTENDS Dateibeobachtung, TLAPS

\* The extensions getExtension knows are the places in the directory.
LEMMA ExtensionTyp ==
    ASSUME NEW t \in Typen, Extension(t) # "keine"
    PROVE  Extension(t) \in Endungen
BY KonstantenAnnahme DEF Extension, Endungen, MimeTypes

\* IInv holds before the first request.
LEMMA InitIInv == Init => IInv
<1> SUFFICES ASSUME Init PROVE IInv
    OBVIOUS
<1>1. OhneDatei \in Datei
    BY DEF OhneDatei, Datei, Endungen
<1>2. NichtDa \in Plattendatei
    BY DEF NichtDa, Plattendatei
<1>3. TypeOK
    BY <1>1, <1>2 DEF Init, TypeOK
<1> QED
    BY <1>3 DEF Init, IInv, AblageNachObjekt, UnfertigesHatSchreiber, FehlendesHatLoescher,
                NichtDa, OhneDatei

-----------------------------------------------------------------------------
(* Steps that leave the disk as it is.                                     *)

\* A step that changes neither the disk nor a thread that has begun to copy
\* keeps IInv.
LEMMA PlatteBleibt ==
    ASSUME IInv, TypeOK', AblageNachObjekt', UNCHANGED platte,
           \A r \in Anfragen : ablage[r] \notin {"keine", "wartet"} =>
               ablage'[r] = ablage[r] /\ objekt'[r].endung = objekt[r].endung,
           \A r \in Anfragen : ablage[r] \in {"keine", "wartet"} =>
               ablage'[r] \in {"keine", "wartet", "ersetzt"}
    PROVE  IInv'
<1>1. UnfertigesHatSchreiber'
  <2> SUFFICES ASSUME NEW e \in Endungen, platte[e].von # Keine, ~ platte[e].fertig
               PROVE  /\ objekt'[platte[e].von].endung = e
                      /\ ablage'[platte[e].von] \in {"angelegt", "gescheitert"}
      BY DEF UnfertigesHatSchreiber
  <2>1. platte[e].von \in Anfragen
      BY DEF IInv, TypeOK, Plattendatei
  <2>2. /\ objekt[platte[e].von].endung = e
        /\ ablage[platte[e].von] \in {"angelegt", "gescheitert"}
      BY DEF IInv, UnfertigesHatSchreiber
  <2> QED
      BY <2>1, <2>2
<1>2. FehlendesHatLoescher'
  <2> SUFFICES ASSUME NEW r \in Anfragen, ablage'[r] \in {"angelegt", "aus"}
               PROVE  Existiert(r)' \/ \E s \in Anfragen :
                                          /\ objekt'[s].endung = objekt'[r].endung
                                          /\ ablage'[s] \in {"geloescht", "gescheitert"}
      BY DEF FehlendesHatLoescher
  <2>1. ablage[r] \in {"angelegt", "aus"} /\ objekt'[r].endung = objekt[r].endung
      BY DEF IInv, TypeOK
  <2>2. CASE Existiert(r)
      BY <2>1, <2>2 DEF Existiert, Kopie
  <2>3. CASE ~ Existiert(r)
    <3>1. PICK s \in Anfragen : /\ objekt[s].endung = objekt[r].endung
                                /\ ablage[s] \in {"geloescht", "gescheitert"}
        BY <2>1, <2>3 DEF IInv, FehlendesHatLoescher
    <3>2. objekt'[s].endung = objekt'[r].endung /\ ablage'[s] \in {"geloescht", "gescheitert"}
        BY <2>1, <3>1
    <3> QED
        BY <3>2
  <2> QED
      BY <2>2, <2>3
<1> QED
    BY <1>1, <1>2 DEF IInv

\* The transaction of an upload.
LEMMA UploadSchritt ==
    ASSUME IInv, NEW r \in Anfragen,
           \/ \E t \in Typen : VerwerfeTyp(r, t) \/ SetFile(r, t)
           \/ Flush(r) \/ CommitFile(r) \/ VerwerfeFile(r)
    PROVE  IInv'
<1> USE DEF IInv, TypeOK, AblageNachObjekt, Weiter, Stufe, Datei
<1>1. ASSUME NEW t \in Typen, VerwerfeTyp(r, t)
      PROVE  IInv'
  <2>1. TypeOK' /\ AblageNachObjekt'
      BY <1>1 DEF VerwerfeTyp
  <2> QED
      BY <1>1, <2>1, PlatteBleibt DEF VerwerfeTyp
<1>2. ASSUME NEW t \in Typen, SetFile(r, t)
      PROVE  IInv'
  <2>1. Extension(t) \in Endungen
      BY <1>2, ExtensionTyp DEF SetFile
  <2>2. TypeOK' /\ AblageNachObjekt'
      BY <1>2, <2>1 DEF SetFile
  <2>3. ablage[r] = "keine"
      BY <1>2 DEF SetFile
  <2> QED
      BY <1>2, <2>2, <2>3, PlatteBleibt DEF SetFile
<1>3. CASE Flush(r)
  <2>1. TypeOK' /\ AblageNachObjekt'
      BY <1>3 DEF Flush
  <2>2. \A s \in Anfragen : objekt'[s].endung = objekt[s].endung
      BY <1>3 DEF Flush
  <2> QED
      BY <1>3, <2>1, <2>2, PlatteBleibt DEF Flush
<1>4. CASE CommitFile(r)
  <2>1. TypeOK' /\ AblageNachObjekt'
      BY <1>4 DEF CommitFile
  <2> QED
      BY <1>4, <2>1, PlatteBleibt DEF CommitFile
<1>5. CASE VerwerfeFile(r)
  <2>1. TypeOK' /\ AblageNachObjekt'
      BY <1>5 DEF VerwerfeFile
  <2> QED
      BY <1>5, <2>1, PlatteBleibt DEF VerwerfeFile
<1> QED
    BY <1>1, <1>2, <1>3, <1>4, <1>5

\* A page until it calls store, and the decision of store to replace the copy.
LEMMA SeiteSchritt ==
    ASSUME IInv, NEW r \in Anfragen, LadeKunde(r) \/ GetFilename(r) \/ Ersetze(r)
    PROVE  IInv'
<1> USE DEF IInv, TypeOK, AblageNachObjekt, Weiter, Stufe
<1>1. CASE LadeKunde(r)
  <2>1. TypeOK' /\ AblageNachObjekt'
      BY <1>1 DEF LadeKunde
  <2>2. ablage[r] = "keine"
      BY <1>1 DEF LadeKunde
  <2> QED
      BY <1>1, <2>1, <2>2, PlatteBleibt DEF LadeKunde
<1>2. CASE GetFilename(r)
  <2>1. TypeOK' /\ AblageNachObjekt'
      BY <1>2 DEF GetFilename
  <2>2. ablage[r] = "keine"
      BY <1>2 DEF GetFilename
  <2> QED
      BY <1>2, <2>1, <2>2, PlatteBleibt DEF GetFilename
<1>3. CASE Ersetze(r)
  <2>1. TypeOK' /\ AblageNachObjekt'
      BY <1>3 DEF Ersetze, reqVars
  <2> QED
      BY <1>3, <2>1, PlatteBleibt DEF Ersetze, reqVars
<1> QED
    BY <1>1, <1>2, <1>3

-----------------------------------------------------------------------------
(* Steps of a thread that copies.                                          *)

\* A thread ends without touching the disk: it has found a copy, or failed.
LEMMA EndeSchritt ==
    ASSUME IInv, NEW r \in Anfragen, Ueberspringe(r) \/ SchonAngelegt(r) \/ Fehlschlag(r)
    PROVE  IInv'
<1>1. /\ UNCHANGED <<zeile, version, platte, pc, objekt, gelesen, jetzt>>
      /\ \A s \in Anfragen \ {r} : ablage'[s] = ablage[s]
      /\ \/ ablage[r] \in {"wartet", "geloescht"} /\ ablage'[r] = "aus" /\ Existiert(r)
         \/ ablage[r] \in {"ersetzt", "geloescht", "angelegt"} /\ ablage'[r] = "gescheitert"
    BY DEF Ueberspringe, SchonAngelegt, Fehlschlag, Vorhanden, Stufe, IInv, TypeOK, reqVars
<1>2. TypeOK' /\ AblageNachObjekt'
    BY DEF Ueberspringe, SchonAngelegt, Fehlschlag, Stufe, IInv, TypeOK, AblageNachObjekt, reqVars
<1>3. UnfertigesHatSchreiber'
  <2> SUFFICES ASSUME NEW e \in Endungen, platte[e].von # Keine, ~ platte[e].fertig
               PROVE  /\ objekt[platte[e].von].endung = e
                      /\ ablage'[platte[e].von] \in {"angelegt", "gescheitert"}
      BY <1>1 DEF UnfertigesHatSchreiber
  <2>1. platte[e].von \in Anfragen
      BY DEF IInv, TypeOK, Plattendatei
  <2>2. /\ objekt[platte[e].von].endung = e
        /\ ablage[platte[e].von] \in {"angelegt", "gescheitert"}
      BY DEF IInv, UnfertigesHatSchreiber
  <2> QED
      BY <1>1, <2>1, <2>2
<1>4. FehlendesHatLoescher'
  <2> SUFFICES ASSUME NEW q \in Anfragen, ablage'[q] \in {"angelegt", "aus"},
                      platte[objekt[q].endung].von = Keine
               PROVE  \E s \in Anfragen : /\ objekt[s].endung = objekt[q].endung
                                          /\ ablage'[s] \in {"geloescht", "gescheitert"}
      BY <1>1 DEF FehlendesHatLoescher, Existiert, Kopie
  <2>1. ablage[q] \in {"angelegt", "aus"}
      BY <1>1 DEF Existiert, Kopie
  <2>2. PICK s \in Anfragen : /\ objekt[s].endung = objekt[q].endung
                              /\ ablage[s] \in {"geloescht", "gescheitert"}
      BY <2>1 DEF IInv, FehlendesHatLoescher, Existiert, Kopie
  <2>3. ablage'[s] \in {"geloescht", "gescheitert"}
      BY <1>1, <2>2 DEF Existiert, Kopie
  <2> QED
      BY <2>2, <2>3
<1> QED
    BY <1>2, <1>3, <1>4 DEF IInv

\* Deleting the copy.
LEMMA LoescheSchritt ==
    ASSUME IInv, NEW r \in Anfragen, Loesche(r)
    PROVE  IInv'
<1>1. /\ UNCHANGED <<zeile, version, pc, objekt, gelesen, jetzt>>
      /\ \A s \in Anfragen \ {r} : ablage'[s] = ablage[s]
      /\ ablage[r] = "ersetzt" /\ ablage'[r] = "geloescht"
      /\ objekt[r].endung \in Endungen
      /\ platte' = [platte EXCEPT ![objekt[r].endung] = NichtDa]
    BY DEF Loesche, Stufe, IInv, TypeOK, Datei, reqVars
<1>2. NichtDa \in Plattendatei
    BY DEF NichtDa, Plattendatei
<1>3. TypeOK' /\ AblageNachObjekt'
    BY <1>1, <1>2 DEF Loesche, Stufe, IInv, TypeOK, AblageNachObjekt, reqVars
<1>4. UnfertigesHatSchreiber'
  <2> SUFFICES ASSUME NEW e \in Endungen, platte'[e].von # Keine, ~ platte'[e].fertig
               PROVE  /\ objekt[platte'[e].von].endung = e
                      /\ ablage'[platte'[e].von] \in {"angelegt", "gescheitert"}
      BY <1>1 DEF UnfertigesHatSchreiber
  <2>1. platte'[e] = platte[e]
      BY <1>1 DEF NichtDa, IInv, TypeOK
  <2>2. platte[e].von \in Anfragen
      BY <2>1 DEF IInv, TypeOK, Plattendatei
  <2>3. /\ objekt[platte[e].von].endung = e
        /\ ablage[platte[e].von] \in {"angelegt", "gescheitert"}
      BY <2>1 DEF IInv, UnfertigesHatSchreiber
  <2> QED
      BY <1>1, <2>1, <2>2, <2>3
<1>5. FehlendesHatLoescher'
  <2> SUFFICES ASSUME NEW q \in Anfragen, ablage'[q] \in {"angelegt", "aus"},
                      platte'[objekt[q].endung].von = Keine
               PROVE  \E s \in Anfragen : /\ objekt[s].endung = objekt[q].endung
                                          /\ ablage'[s] \in {"geloescht", "gescheitert"}
      BY <1>1 DEF FehlendesHatLoescher, Existiert, Kopie
  <2>1. CASE objekt[q].endung = objekt[r].endung
      BY <1>1, <2>1
  <2>2. CASE objekt[q].endung # objekt[r].endung
    <3>1. ablage[q] \in {"angelegt", "aus"} /\ platte[objekt[q].endung].von = Keine
        BY <1>1, <2>2 DEF IInv, TypeOK, Datei
    <3>2. PICK s \in Anfragen : /\ objekt[s].endung = objekt[q].endung
                                /\ ablage[s] \in {"geloescht", "gescheitert"}
        BY <3>1 DEF IInv, FehlendesHatLoescher, Existiert, Kopie
    <3> QED
        BY <1>1, <3>2
  <2> QED
      BY <2>1, <2>2
<1> QED
    BY <1>3, <1>4, <1>5 DEF IInv

\* Creating the copy anew.
LEMMA LegeAnSchritt ==
    ASSUME IInv, NEW r \in Anfragen, LegeAn(r)
    PROVE  IInv'
<1> DEFINE neu == [von |-> r, inhalt |-> objekt[r].inhalt, fertig |-> FALSE, erzeugt |-> jetzt]
<1>1. /\ UNCHANGED <<zeile, version, pc, objekt, gelesen, jetzt>>
      /\ \A s \in Anfragen \ {r} : ablage'[s] = ablage[s]
      /\ ablage[r] = "geloescht" /\ ablage'[r] = "angelegt"
      /\ objekt[r].endung \in Endungen
      /\ platte' = [platte EXCEPT ![objekt[r].endung] = neu]
    BY DEF LegeAn, Stufe, IInv, TypeOK, Datei, reqVars
<1>2. neu \in Plattendatei
    BY DEF Plattendatei, IInv, TypeOK, Datei
<1>3. TypeOK' /\ AblageNachObjekt'
    BY <1>1, <1>2 DEF LegeAn, Stufe, IInv, TypeOK, AblageNachObjekt, reqVars
<1>4. platte'[objekt[r].endung].von = r
      /\ \A e \in Endungen \ {objekt[r].endung} : platte'[e] = platte[e]
    BY <1>1 DEF IInv, TypeOK
<1>5. UnfertigesHatSchreiber'
  <2> SUFFICES ASSUME NEW e \in Endungen, platte'[e].von # Keine, ~ platte'[e].fertig
               PROVE  /\ objekt[platte'[e].von].endung = e
                      /\ ablage'[platte'[e].von] \in {"angelegt", "gescheitert"}
      BY <1>1 DEF UnfertigesHatSchreiber
  <2>1. CASE e = objekt[r].endung
      BY <1>1, <1>4, <2>1
  <2>2. CASE e # objekt[r].endung
    <3>1. platte[e].von \in Anfragen
        BY <1>4, <2>2 DEF IInv, TypeOK, Plattendatei
    <3>2. /\ objekt[platte[e].von].endung = e
          /\ ablage[platte[e].von] \in {"angelegt", "gescheitert"}
        BY <1>4, <2>2 DEF IInv, UnfertigesHatSchreiber
    <3> QED
        BY <1>1, <1>4, <2>2, <3>1, <3>2
  <2> QED
      BY <2>1, <2>2
<1>6. FehlendesHatLoescher'
  <2> SUFFICES ASSUME NEW q \in Anfragen, ablage'[q] \in {"angelegt", "aus"},
                      platte'[objekt[q].endung].von = Keine
               PROVE  \E s \in Anfragen : /\ objekt[s].endung = objekt[q].endung
                                          /\ ablage'[s] \in {"geloescht", "gescheitert"}
      BY <1>1 DEF FehlendesHatLoescher, Existiert, Kopie
  <2>1. objekt[q].endung # objekt[r].endung
      BY <1>4, KonstantenAnnahme
  <2>2. objekt[q].endung \in Endungen
      BY DEF IInv, TypeOK, Datei
  <2>3. ablage[q] \in {"angelegt", "aus"} /\ platte[objekt[q].endung].von = Keine
      BY <1>1, <1>4, <2>1, <2>2
  <2>4. PICK s \in Anfragen : /\ objekt[s].endung = objekt[q].endung
                              /\ ablage[s] \in {"geloescht", "gescheitert"}
      BY <2>3 DEF IInv, FehlendesHatLoescher, Existiert, Kopie
  <2> QED
      BY <1>1, <2>1, <2>4
<1> QED
    BY <1>3, <1>5, <1>6 DEF IInv

\* Writing the bytes, into one's own copy or to nowhere.
LEMMA SchreibeSchritt ==
    ASSUME IInv, NEW r \in Anfragen, Schreibe(r)
    PROVE  IInv'
<1> DEFINE d == objekt[r].endung
<1>1. /\ UNCHANGED <<zeile, version, pc, objekt, gelesen, jetzt>>
      /\ \A s \in Anfragen \ {r} : ablage'[s] = ablage[s]
      /\ ablage[r] = "angelegt" /\ ablage'[r] = "aus"
      /\ d \in Endungen
    BY DEF Schreibe, Stufe, IInv, TypeOK, Datei, reqVars
<1>2. /\ platte' \in [Endungen -> Plattendatei]
      /\ \A e \in Endungen : platte'[e].von = platte[e].von
      /\ \A e \in Endungen : platte'[e].fertig <=> platte[e].fertig \/ (e = d /\ platte[e].von = r)
  <2>1. platte' = [platte EXCEPT ![d].fertig = @ \/ platte[d].von = r]
      BY DEF Schreibe, Kopie
  <2>2. platte[d] \in Plattendatei
      BY <1>1 DEF IInv, TypeOK
  <2>3. CASE platte[d].von = r
    <3>1. platte' = [platte EXCEPT ![d] = [platte[d] EXCEPT !.fertig = TRUE]]
        BY <2>1, <2>3
    <3>2. [platte[d] EXCEPT !.fertig = TRUE] \in Plattendatei
        BY <2>2 DEF Plattendatei
    <3>3. /\ [platte[d] EXCEPT !.fertig = TRUE].von = platte[d].von
          /\ [platte[d] EXCEPT !.fertig = TRUE].fertig = TRUE
        BY <2>2 DEF Plattendatei
    <3> QED
        BY <1>1, <2>3, <3>1, <3>2, <3>3 DEF IInv, TypeOK
  <2>4. CASE platte[d].von # r
    <3>1. platte[d].fertig \in BOOLEAN
        BY <2>2 DEF Plattendatei
    <3>2. platte' = platte
        BY <1>1, <2>1, <2>2, <2>4, <3>1 DEF IInv, TypeOK, Plattendatei
    <3> QED
        BY <2>4, <3>2 DEF IInv, TypeOK
  <2> QED
      BY <2>3, <2>4
<1>3. TypeOK' /\ AblageNachObjekt'
    BY <1>1, <1>2 DEF Schreibe, Stufe, IInv, TypeOK, AblageNachObjekt, reqVars
<1>4. UnfertigesHatSchreiber'
  <2> SUFFICES ASSUME NEW e \in Endungen, platte[e].von # Keine, ~ platte'[e].fertig
               PROVE  /\ objekt[platte[e].von].endung = e
                      /\ ablage'[platte[e].von] \in {"angelegt", "gescheitert"}
      BY <1>1, <1>2 DEF UnfertigesHatSchreiber
  <2>1. platte[e].von \in Anfragen
      BY DEF IInv, TypeOK, Plattendatei
  <2>2. /\ objekt[platte[e].von].endung = e
        /\ ablage[platte[e].von] \in {"angelegt", "gescheitert"}
      BY <1>2 DEF IInv, UnfertigesHatSchreiber
  <2>3. platte[e].von # r
      BY <1>2, <2>2
  <2> QED
      BY <1>1, <2>1, <2>2, <2>3
<1>5. FehlendesHatLoescher'
  <2> SUFFICES ASSUME NEW q \in Anfragen, ablage'[q] \in {"angelegt", "aus"},
                      platte'[objekt[q].endung].von = Keine
               PROVE  \E s \in Anfragen : /\ objekt[s].endung = objekt[q].endung
                                          /\ ablage'[s] \in {"geloescht", "gescheitert"}
      BY <1>1 DEF FehlendesHatLoescher, Existiert, Kopie
  <2>1. ablage[q] \in {"angelegt", "aus"} /\ platte[objekt[q].endung].von = Keine
      BY <1>1, <1>2 DEF IInv, TypeOK, Datei
  <2>2. PICK s \in Anfragen : /\ objekt[s].endung = objekt[q].endung
                              /\ ablage[s] \in {"geloescht", "gescheitert"}
      BY <2>1 DEF IInv, FehlendesHatLoescher, Existiert, Kopie
  <2> QED
      BY <1>1, <2>2
<1> QED
    BY <1>3, <1>4, <1>5 DEF IInv

-----------------------------------------------------------------------------
(* The theorems.                                                           *)

\* IInv is inductive: whatever uploads, pages, threads and failures do next,
\* every incomplete or missing copy still has someone to answer for it.
THEOREM Induktion == IInv /\ [Next]_vars => IInv'
<1> SUFFICES ASSUME IInv, [Next]_vars PROVE IInv'
    OBVIOUS
<1>1. ASSUME NEW r \in Anfragen, Anfrage(r) \/ Store(r) \/ Stoerung(r)
      PROVE  IInv'
    BY <1>1, UploadSchritt, SeiteSchritt, EndeSchritt, LoescheSchritt, LegeAnSchritt,
       SchreibeSchritt
    DEF Anfrage, Store, Stoerung
<1>2. CASE Tick
  <2>1. TypeOK' /\ AblageNachObjekt'
      BY <1>2 DEF Tick, IInv, TypeOK, AblageNachObjekt, reqVars
  <2> QED
      BY <1>2, <2>1, PlatteBleibt DEF Tick, reqVars
<1>3. CASE UNCHANGED vars
  <2>1. TypeOK' /\ AblageNachObjekt'
      BY <1>3 DEF vars, IInv, TypeOK, AblageNachObjekt, reqVars
  <2> QED
      BY <1>3, <2>1, PlatteBleibt DEF vars, reqVars
<1> QED
    BY <1>1, <1>2, <1>3 DEF Next, Feierabend

\* IInv holds in every state the program reaches.
LEMMA IInvGilt == Spec => []IInv
<1> QED
    BY InitIInv, Induktion, PTL DEF Spec

\* All variables keep their types: whatever threads do to the directory, what
\* lies there was written by a request (File, FileHelper.store).
THEOREM TypKorrekt == Spec => []TypeOK
<1>1. IInv => TypeOK
    BY DEF IInv
<1> QED
    BY <1>1, IInvGilt, PTL

\* KopieVollstaendig: however the threads that delete, create and write a copy
\* interleave (FileHelper.store), if none has met an I/O error, every copy that
\* one of them has dealt with is there and complete.
THEOREM KopieImmerVollstaendig == Spec => []KopieVollstaendig
<1>1. IInv => KopieVollstaendig
  <2> SUFFICES ASSUME IInv, KeineAblage,
                      \A s \in Anfragen : ablage[s] # "gescheitert",
                      NEW r \in Anfragen, ablage[r] = "aus"
               PROVE  Kopie(r).fertig
      BY DEF KopieVollstaendig
  <2>1. \A s \in Anfragen : ablage[s] \in {"keine", "aus"}
      BY DEF KeineAblage
  <2>2. Existiert(r)
      BY <2>1 DEF IInv, FehlendesHatLoescher
  <2>3. objekt[r].endung \in Endungen /\ Kopie(r).von \in Anfragen
      BY <2>2 DEF IInv, TypeOK, Datei, Plattendatei, Existiert, Kopie
  <2>4. ablage[Kopie(r).von] \notin {"angelegt", "gescheitert"}
      BY <2>1, <2>3
  <2> QED
      BY <2>2, <2>3, <2>4 DEF IInv, UnfertigesHatSchreiber, Existiert, Kopie
<1> QED
    BY <1>1, IInvGilt, PTL

-----------------------------------------------------------------------------
(* Calm behaviours.                                                        *)

\* A step that changes nothing but the thread that copies for r, which goes on
\* or goes away.
LEMMA StoreRuhig ==
    ASSUME IInv, RuhigIInv, NEW r \in Anfragen,
           Ueberspringe(r) \/ Ersetze(r) \/ SchonAngelegt(r)
    PROVE  RuhigIInv'
<1>1. /\ UNCHANGED <<zeile, version, platte, pc, objekt, gelesen, jetzt>>
      /\ Kopierend(r) /\ ablage'[r] # "gescheitert"
      /\ \A s \in Anfragen \ {r} : ablage'[s] = ablage[s]
    BY DEF Ueberspringe, Ersetze, SchonAngelegt, Stufe, Kopierend, IInv, TypeOK, reqVars
<1>2. KopiererHabenZeile'
    BY <1>1 DEF RuhigIInv, KopiererHabenZeile, Kopierend, Schreibend
<1>3. SchreiberAllein'
    BY <1>1 DEF RuhigIInv, SchreiberAllein, Kopierend, Schreibend
<1>4. KopienStimmen'
    BY <1>1 DEF RuhigIInv, KopienStimmen, RichtigOderAlt, Datum, Schreibend
<1> QED
    BY <1>1, <1>2, <1>3, <1>4 DEF RuhigIInv

\* What a thread copies is what the row holds, or is going to hold: a copy that
\* is deleted, created or written on the way is missing or right.
LEMMA PlatteRuhig ==
    ASSUME IInv, RuhigIInv, NEW r \in Anfragen, Loesche(r) \/ LegeAn(r) \/ Schreibe(r)
    PROVE  RuhigIInv'
<1> DEFINE d == objekt[r].endung
<1>1. /\ UNCHANGED <<zeile, version, pc, objekt, gelesen, jetzt>>
      /\ Kopierend(r) /\ ablage'[r] # "gescheitert"
      /\ \A s \in Anfragen \ {r} : ablage'[s] = ablage[s]
      /\ d \in Endungen /\ platte \in [Endungen -> Plattendatei]
    BY DEF Loesche, LegeAn, Schreibe, Stufe, Kopierend, IInv, TypeOK, Datei, reqVars
<1>2. KopiererHabenZeile'
    BY <1>1 DEF RuhigIInv, KopiererHabenZeile, Kopierend, Schreibend
<1>3. SchreiberAllein'
    BY <1>1 DEF RuhigIInv, SchreiberAllein, Kopierend, Schreibend
<1>4. /\ \A e \in Endungen \ {d} : platte'[e] = platte[e]
      /\ \/ platte'[d].von = Keine
         \/ platte'[d].inhalt = objekt[r].inhalt
         \/ /\ platte'[d].von = platte[d].von
            /\ platte'[d].inhalt = platte[d].inhalt
            /\ platte'[d].erzeugt = platte[d].erzeugt
    <2>1. CASE Loesche(r)
        BY <1>1, <2>1 DEF Loesche, NichtDa
    <2>2. CASE LegeAn(r)
        BY <1>1, <2>2 DEF LegeAn
    <2>3. CASE Schreibe(r)
        BY <1>1, <2>3 DEF Schreibe, Plattendatei
    <2> QED
        BY <2>1, <2>2, <2>3
<1>5. ASSUME NEW o \in Datei, NEW zeit, RichtigOderAlt(o, zeit),
             o.endung = d => o.inhalt = objekt[r].inhalt
      PROVE  RichtigOderAlt(o, zeit)'
    <2>1. o.endung \in Endungen
        BY DEF Datei
    <2>2. CASE o.endung # d
        BY <1>4, <1>5, <2>1, <2>2 DEF RichtigOderAlt
    <2>3. CASE o.endung = d
        BY <1>4, <1>5, <2>3 DEF RichtigOderAlt
    <2> QED
        BY <2>2, <2>3
<1>6. KopienStimmen'
    <2>1. zeile \in Datei /\ \A s \in Anfragen : objekt[s] \in Datei
        BY DEF IInv, TypeOK
    <2>2. ASSUME NEW s \in Anfragen, Schreibend(s)
          PROVE  RichtigOderAlt(objekt[s], Datum(s))'
        <3>1. s = r
            BY <1>1, <2>2 DEF RuhigIInv, SchreiberAllein
        <3>2. RichtigOderAlt(objekt[s], Datum(s))
            BY <2>2 DEF RuhigIInv, KopienStimmen
        <3>3. objekt[s]' = objekt[s] /\ Datum(s)' = Datum(s)
            BY <1>1 DEF Datum
        <3> QED
            BY <1>4, <2>1, <3>1, <3>2, <3>3 DEF RichtigOderAlt
    <2>3. ASSUME version > 0, \A s \in Anfragen : ~ Schreibend(s)
          PROVE  RichtigOderAlt(zeile, zeile.aktualisiert)'
        <3>1. RichtigOderAlt(zeile, zeile.aktualisiert) /\ zeile = objekt[r]
            BY <1>1, <2>3 DEF RuhigIInv, KopienStimmen, KopiererHabenZeile
        <3> QED
            BY <1>1, <1>4, <3>1 DEF RichtigOderAlt
    <2> QED
        BY <1>1, <2>2, <2>3 DEF KopienStimmen, Schreibend
<1> QED
    BY <1>1, <1>2, <1>3, <1>6 DEF RuhigIInv

\* The clock: what was old stays old, what is not yet dated becomes younger.
LEMMA TickRuhig ==
    ASSUME IInv, RuhigIInv, Tick
    PROVE  RuhigIInv'
<1>1. /\ UNCHANGED <<zeile, version, platte, pc, objekt, gelesen, ablage>>
      /\ jetzt \in Nat /\ jetzt' = jetzt + 1
    BY DEF Tick, IInv, TypeOK, reqVars
<1>2. KopiererHabenZeile' /\ SchreiberAllein'
    BY <1>1 DEF RuhigIInv, KopiererHabenZeile, SchreiberAllein, Kopierend, Schreibend
<1>3. KopienStimmen'
    <2>1. ASSUME NEW s \in Anfragen, Schreibend(s)
          PROVE  RichtigOderAlt(objekt[s], Datum(s))'
        <3>1. RichtigOderAlt(objekt[s], Datum(s))
            BY <2>1 DEF RuhigIInv, KopienStimmen
        <3>2. /\ objekt[s].endung \in Endungen /\ objekt[s].aktualisiert \in Nat
              /\ platte[objekt[s].endung].erzeugt \in Nat
            BY DEF IInv, TypeOK, Datei, Plattendatei
        <3>3. Datum(s)' = Datum(s) \/ (Datum(s) = jetzt /\ Datum(s)' = jetzt + 1)
            BY <1>1 DEF Datum
        <3> QED
            BY <1>1, <3>1, <3>2, <3>3, KonstantenAnnahme DEF RichtigOderAlt
    <2> QED
        BY <1>1, <2>1 DEF RuhigIInv, KopienStimmen, Schreibend, RichtigOderAlt
<1> QED
    BY <1>1, <1>2, <1>3 DEF RuhigIInv

\* A page loads what is committed.
LEMMA SeiteRuhig ==
    ASSUME IInv, RuhigIInv, Nacheinander, NEW r \in Anfragen, LadeKunde(r) \/ GetFilename(r)
    PROVE  RuhigIInv'
<1>1. /\ UNCHANGED <<zeile, version, platte, jetzt>>
      /\ \A s \in Anfragen \ {r} :
            pc'[s] = pc[s] /\ objekt'[s] = objekt[s] /\ gelesen'[s] = gelesen[s]
            /\ ablage'[s] = ablage[s]
      /\ pc'[r] \in {"geladen", "fertig"} /\ objekt'[r] = zeile
      /\ ablage'[r] # "gescheitert"
      /\ ~ Schreibend(r)
    BY DEF LadeKunde, GetFilename, Weiter, Stufe, Schreibend, RuhigIInv, KopiererHabenZeile,
           IInv, TypeOK, AblageNachObjekt
<1>2. \A s \in Anfragen : ~ Schreibend(s)
    <2>1. CASE LadeKunde(r)
        <3>1. Beginnt(r, "geladen")
            BY <2>1 DEF LadeKunde, Beginnt, Weiter, IInv, TypeOK
        <3> QED
            BY <3>1 DEF Nacheinander, Schreibend
    <2>2. CASE GetFilename(r)
        BY <1>1, <2>2 DEF GetFilename, RuhigIInv, SchreiberAllein
    <2> QED
        BY <2>1, <2>2
<1>3. KopiererHabenZeile'
    BY <1>1 DEF RuhigIInv, KopiererHabenZeile, Kopierend, Schreibend
<1>4. SchreiberAllein'
    BY <1>1, <1>2 DEF SchreiberAllein, Schreibend
<1>5. KopienStimmen'
    BY <1>1, <1>2 DEF RuhigIInv, KopienStimmen, RichtigOderAlt, Schreibend
<1> QED
    BY <1>1, <1>3, <1>4, <1>5 DEF RuhigIInv

\* An upload begins when nobody copies, nor is going to, and everything in the
\* directory is old.
LEMMA SetFileRuhig ==
    ASSUME IInv, RuhigIInv, Nacheinander, Geduldig, NEW r \in Anfragen, NEW t \in Typen,
           SetFile(r, t)
    PROVE  RuhigIInv'
<1>1. /\ UNCHANGED <<zeile, version, platte, jetzt>>
      /\ \A s \in Anfragen \ {r} :
            pc'[s] = pc[s] /\ objekt'[s] = objekt[s] /\ gelesen'[s] = gelesen[s]
            /\ ablage'[s] = ablage[s]
      /\ pc'[r] = "gesetzt" /\ ablage'[r] = "wartet" /\ gelesen'[r] = version
      /\ objekt'[r].inhalt = r /\ objekt'[r].endung = Extension(t)
      /\ version = 0 => objekt'[r].aktualisiert = jetzt
    BY DEF SetFile, Weiter, Stufe, IInv, TypeOK
<1>2. Extension(t) \in Endungen
    BY ExtensionTyp DEF SetFile
<1>3. Beginnt(r, "gesetzt")
    BY <1>1 DEF SetFile, Beginnt
<1>4. \A s \in Anfragen : ~ Schreibend(s) /\ ~ Kopierend(s) /\ pc[s] # "geladen"
    BY <1>3 DEF Nacheinander, Ruhe, KeineAblage, Schreibend, Kopierend
<1>5. \A e \in Endungen : platte[e].von # Keine => platte[e].erzeugt + TOLERANZ <= jetzt
    BY <1>3 DEF Geduldig
<1>6. KopiererHabenZeile' /\ SchreiberAllein'
    BY <1>1, <1>4 DEF KopiererHabenZeile, SchreiberAllein, Schreibend, Kopierend
<1>7. KopienStimmen'
    <2>1. Datum(r)' = jetzt
        BY <1>1 DEF Datum
    <2>2. RichtigOderAlt(objekt[r], Datum(r))'
        BY <1>1, <1>2, <1>5, <2>1 DEF RichtigOderAlt
    <2>3. Schreibend(r)' /\ \A s \in Anfragen \ {r} : ~ Schreibend(s)'
        BY <1>1, <1>4 DEF Schreibend
    <2> QED
        BY <2>2, <2>3 DEF KopienStimmen
<1> QED
    BY <1>1, <1>6, <1>7 DEF RuhigIInv

\* The entity is dated when it is written, the row when it is committed.
LEMMA UploadRuhig ==
    ASSUME IInv, RuhigIInv, NEW r \in Anfragen, Flush(r) \/ CommitFile(r)
    PROVE  RuhigIInv'
<1>1. Schreibend(r) /\ UNCHANGED <<platte, jetzt, ablage, gelesen>>
      /\ \A s \in Anfragen \ {r} : pc'[s] = pc[s] /\ objekt'[s] = objekt[s]
    BY DEF Flush, CommitFile, Weiter, Schreibend, IInv, TypeOK
<1>2. /\ objekt[r].inhalt = r
      /\ \A s \in Anfragen \ {r} : ~ Schreibend(s) /\ ~ Kopierend(s) /\ pc[s] # "geladen"
      /\ RichtigOderAlt(objekt[r], Datum(r))
    BY <1>1 DEF RuhigIInv, SchreiberAllein, KopienStimmen
<1>3. CASE Flush(r)
    <2>1. /\ UNCHANGED <<zeile, version>> /\ pc[r] = "gesetzt" /\ pc'[r] = "geschrieben"
          /\ objekt'[r].inhalt = r /\ objekt'[r].endung = objekt[r].endung
          /\ objekt'[r].aktualisiert = Datum(r)
        BY <1>2, <1>3 DEF Flush, Weiter, Datum, IInv, TypeOK, Datei
    <2>2. Datum(r)' = Datum(r)
        BY <2>1 DEF Datum
    <2>3. RichtigOderAlt(objekt[r], Datum(r))'
        BY <1>1, <1>2, <2>1, <2>2 DEF RichtigOderAlt
    <2>4. Schreibend(r)' /\ \A s \in Anfragen \ {r} : ~ Schreibend(s)'
        BY <1>1, <1>2, <2>1 DEF Schreibend
    <2>5. KopiererHabenZeile' /\ SchreiberAllein'
        BY <1>1, <1>2, <2>1 DEF KopiererHabenZeile, SchreiberAllein, Schreibend, Kopierend
    <2>6. KopienStimmen'
        BY <2>3, <2>4 DEF KopienStimmen
    <2> QED
        BY <1>1, <2>5, <2>6 DEF RuhigIInv
<1>4. CASE CommitFile(r)
    <2>1. /\ objekt' = objekt /\ zeile' = objekt[r] /\ pc[r] = "geschrieben" /\ pc'[r] = "fertig"
        BY <1>4 DEF CommitFile, Weiter, IInv, TypeOK
    <2>2. \A s \in Anfragen : ~ Schreibend(s)'
        BY <1>1, <1>2, <2>1 DEF Schreibend
    <2>3. KopiererHabenZeile' /\ SchreiberAllein'
        BY <1>1, <1>2, <2>1, <2>2 DEF KopiererHabenZeile, SchreiberAllein, Schreibend, Kopierend
    <2>4. RichtigOderAlt(zeile, zeile.aktualisiert)'
        BY <1>1, <1>2, <2>1 DEF RichtigOderAlt, Datum
    <2>5. KopienStimmen'
        BY <2>2, <2>4 DEF KopienStimmen
    <2> QED
        BY <1>1, <2>3, <2>5 DEF RuhigIInv
<1> QED
    BY <1>3, <1>4

\* An upload that is turned away, and nothing at all.
LEMMA OhneRuhig ==
    ASSUME IInv, RuhigIInv,
           (\E r \in Anfragen, t \in Typen : VerwerfeTyp(r, t)) \/ UNCHANGED vars
    PROVE  RuhigIInv'
<1>1. /\ UNCHANGED <<zeile, version, platte, objekt, gelesen, ablage, jetzt>>
      /\ \A s \in Anfragen : pc'[s] = pc[s] \/ (pc[s] = "bereit" /\ pc'[s] = "abgelehnt")
    BY DEF VerwerfeTyp, Weiter, vars, reqVars, IInv, TypeOK
<1>2. KopiererHabenZeile' /\ SchreiberAllein'
    BY <1>1 DEF RuhigIInv, KopiererHabenZeile, SchreiberAllein, Schreibend, Kopierend
<1>3. KopienStimmen'
    BY <1>1 DEF RuhigIInv, KopienStimmen, RichtigOderAlt, Datum, Schreibend
<1> QED
    BY <1>1, <1>2, <1>3 DEF RuhigIInv

\* A calm step keeps RuhigIInv: as long as uploads keep apart from each other
\* and from the pages, a copy the row does not belong to can be seen to be old.
LEMMA RuhigeFolge ==
    ASSUME IInv, RuhigIInv, UNCHANGED vars \/ (Next /\ Ruhig)
    PROVE  RuhigIInv'
<1>1. CASE UNCHANGED vars
    BY <1>1, OhneRuhig
<1>2. CASE Next /\ Ruhig
    <2>1. ASSUME NEW r \in Anfragen, Anfrage(r) PROVE RuhigIInv'
        BY <1>2, <2>1, OhneRuhig, SetFileRuhig, UploadRuhig, SeiteRuhig DEF Anfrage, Ruhig
    <2>2. ASSUME NEW r \in Anfragen, Store(r) PROVE RuhigIInv'
        BY <2>2, StoreRuhig, PlatteRuhig DEF Store
    <2> QED
        BY <1>2, <2>1, <2>2, TickRuhig, OhneRuhig DEF Next, Ruhig, Feierabend
<1> QED
    BY <1>1, <1>2

LEMMA InitRuhig == Init => RuhigIInv
BY DEF Init, RuhigIInv, KopiererHabenZeile, SchreiberAllein, KopienStimmen, Schreibend, Kopierend

\* What the invariant is for.
LEMMA RuhigAktuell == IInv /\ RuhigIInv => AblageAktuell
<1> SUFFICES ASSUME IInv, RuhigIInv, Ruhe, version > 0, Akzeptiert
             PROVE  platte[zeile.endung].inhalt = zeile.inhalt /\ platte[zeile.endung].fertig
    BY DEF AblageAktuell
<1> DEFINE kopie == platte[zeile.endung]
<1>1. /\ zeile.endung \in Endungen /\ zeile.aktualisiert \in Nat
      /\ kopie.von \in Anfragen /\ kopie.erzeugt \in Nat
    BY DEF IInv, TypeOK, Datei, Plattendatei, Akzeptiert
<1>2. RichtigOderAlt(zeile, zeile.aktualisiert)
    BY DEF RuhigIInv, KopienStimmen, Ruhe, Schreibend
<1>3. kopie.inhalt = zeile.inhalt
    BY <1>1, <1>2, KonstantenAnnahme DEF RichtigOderAlt, Akzeptiert
<1>4. kopie.fertig
    <2>1. ablage[kopie.von] \notin {"angelegt", "gescheitert"}
        BY <1>1 DEF RuhigIInv, Ruhe, KeineAblage
    <2> HIDE DEF kopie
    <2>2. kopie.von # Keine
        BY <1>1, KonstantenAnnahme
    <2> QED
        BY <1>1, <2>1, <2>2 DEF IInv, UnfertigesHatSchreiber, kopie
<1> QED
    BY <1>3, <1>4

\* UngestoertIInv is inductive, and IInv with it.
THEOREM UngestoertInduktion ==
    IInv /\ UngestoertIInv /\ [BeobachteterSchritt]_<<vars, ungestoert>>
        => IInv' /\ UngestoertIInv'
<1> SUFFICES ASSUME IInv, UngestoertIInv, [BeobachteterSchritt]_<<vars, ungestoert>>
             PROVE  IInv' /\ UngestoertIInv'
    OBVIOUS
<1>1. IInv'
    BY Induktion DEF BeobachteterSchritt
<1>2. ASSUME ungestoert' PROVE RuhigIInv'
    BY <1>2, RuhigeFolge DEF UngestoertIInv, BeobachteterSchritt
<1> QED
    BY <1>1, <1>2 DEF UngestoertIInv

\* AktuellSolangeUngestoert: if nothing fails, uploads do not overlap, and none
\* begins within the tolerance, then whatever copy the next page delivers
\* without writing it anew holds the bytes of the row (FileHelper.store).
THEOREM UngestoertAktuell == BeobachteteSpec => []AktuellSolangeUngestoert
<1>1. BeobachteterBeginn => IInv /\ UngestoertIInv
    BY InitIInv, InitRuhig DEF BeobachteterBeginn, UngestoertIInv
<1>2. IInv /\ UngestoertIInv => AktuellSolangeUngestoert
    BY RuhigAktuell DEF UngestoertIInv, AktuellSolangeUngestoert
<1> QED
    BY <1>1, <1>2, UngestoertInduktion, PTL DEF BeobachteteSpec

\* AblageAktuell, which GeordnetSpec does not keep, holds if users are patient
\* as well: the tolerance of FileHelper.store is the only reason it fails there.
THEOREM GeduldigAktuell ==
    Init /\ [][Geordnet /\ Geduldig]_vars => []AblageAktuell
<1>1. Init => IInv /\ RuhigIInv
    BY InitIInv, InitRuhig
<1>2. IInv /\ RuhigIInv /\ [Geordnet /\ Geduldig]_vars => IInv' /\ RuhigIInv'
    BY Induktion, RuhigeFolge DEF Geordnet, Ruhig
<1> QED
    BY <1>1, <1>2, RuhigAktuell, PTL
=============================================================================
