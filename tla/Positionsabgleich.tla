-------------------------- MODULE Positionsabgleich --------------------------
(***************************************************************************)
(* BestellungResource.bestellen: how an order that arrives over REST gets  *)
(* its articles.                                                           *)
(*                                                                         *)
(* Each position names its article by a URI.  The method collects the      *)
(* numbers at the end of the URIs, fetches these articles with one query,  *)
(* and goes through the positions a second time to give each its article.  *)
(* The two passes are tied together by nothing but the places in two lists *)
(* of which the second may be shorter.                                     *)
(***************************************************************************)
EXTENDS Integers, Sequences

CONSTANTS
    Artikel,         \* ids of the articles there are
    Vergeben,        \* other numbers a URI can end in
    Ohne,            \* no URI, or one that does not end in a number; no article
    MaxPositionen    \* bound on the positions of an order

ASSUME KonstantenAnnahme ==
    /\ Ohne \notin Artikel \cup Vergeben
    /\ Artikel \cap Vergeben = {}
    /\ MaxPositionen \in Nat

Ids == Artikel \cup Vergeben

VARIABLES
    uris,            \* the positions of the request: the number of each URI
    pc,              \* how far the request has come
    gelesen,         \* number of URIs looked at
    artikelIds,      \* the numbers found
    gefundeneArtikel, \* the articles the query has returned
    i,               \* number of positions that have been matched
    artikel          \* the article of each position; Ohne: dropped

vars == <<uris, pc, gelesen, artikelIds, gefundeneArtikel, i, artikel>>

TypeOK ==
    /\ uris \in Seq(Ids \cup {Ohne})
    /\ pc \in {"lesen", "suchen", "zuordnen", "bestellt", "abgelehnt", "fehler"}
    /\ gelesen \in 0..Len(uris)
    /\ artikelIds \in Seq(Ids)
    /\ gefundeneArtikel \subseteq Artikel
    /\ i \in 0..Len(uris)
    /\ artikel \in [1..Len(uris) -> Artikel \cup {Ohne}]

\* Any order with at least one position, which is what @Valid lets in.
Init ==
    /\ \E n \in 1..MaxPositionen : uris \in [1..n -> Ids \cup {Ohne}]
    /\ pc = "lesen"
    /\ gelesen = 0
    /\ artikelIds = <<>>
    /\ gefundeneArtikel = {}
    /\ i = 0
    /\ artikel = [p \in 1..Len(uris) |-> Ohne]

-----------------------------------------------------------------------------
\* The first pass: the next URI that ends in a number ...
LiesUri ==
    /\ pc = "lesen"
    /\ gelesen < Len(uris)
    /\ uris[gelesen + 1] # Ohne
    /\ artikelIds' = Append(artikelIds, uris[gelesen + 1])
    /\ gelesen' = gelesen + 1
    /\ UNCHANGED <<uris, pc, gefundeneArtikel, i, artikel>>

\* ... or that does not: filtered, or a NumberFormatException that is ignored.
UebergeheUri ==
    /\ pc = "lesen"
    /\ gelesen < Len(uris)
    /\ uris[gelesen + 1] = Ohne
    /\ gelesen' = gelesen + 1
    /\ UNCHANGED <<uris, pc, artikelIds, gefundeneArtikel, i, artikel>>

\* InvalidArtikelIdException
KeineArtikelId ==
    /\ pc = "lesen"
    /\ gelesen = Len(uris)
    /\ artikelIds = <<>>
    /\ pc' = "abgelehnt"
    /\ UNCHANGED <<uris, gelesen, artikelIds, gefundeneArtikel, i, artikel>>

IdsGelesen ==
    /\ pc = "lesen"
    /\ gelesen = Len(uris)
    /\ artikelIds # <<>>
    /\ pc' = "suchen"
    /\ UNCHANGED <<uris, gelesen, artikelIds, gefundeneArtikel, i, artikel>>

\* the WHERE clause forgotten to hit a row
Treffer_Fehler(ids) == {ids[k] : k \in 1..Len(ids)}

\* SELECT a FROM Artikel a WHERE a.id = ? OR ...
Treffer(ids) == {a \in Artikel : \E k \in 1..Len(ids) : ids[k] = a}

FindArtikelByIds ==
    /\ pc = "suchen"
    /\ Treffer(artikelIds) # {}
    /\ gefundeneArtikel' = Treffer(artikelIds)
    /\ pc' = "zuordnen"
    /\ UNCHANGED <<uris, gelesen, artikelIds, i, artikel>>

\* the constraint on the result forgotten
KeineGefunden_Fehler ==
    /\ pc = "suchen"
    /\ Treffer(artikelIds) = {}
    /\ pc' = "zuordnen"
    /\ UNCHANGED <<uris, gelesen, artikelIds, gefundeneArtikel, i, artikel>>

\* @Size(min = 1) on the result of the query: a ConstraintViolationException.
KeineGefunden ==
    /\ pc = "suchen"
    /\ Treffer(artikelIds) = {}
    /\ pc' = "abgelehnt"
    /\ UNCHANGED <<uris, gelesen, artikelIds, gefundeneArtikel, i, artikel>>

\* The second pass: artikelIds.get(i++) for the next position.
Zuordnen ==
    /\ pc = "zuordnen"
    /\ i < Len(uris)
    /\ i < Len(artikelIds)
    /\ i' = i + 1
    /\ artikel' = IF artikelIds[i + 1] \in gefundeneArtikel
                  THEN [artikel EXCEPT ![i + 1] = artikelIds[i + 1]] ELSE artikel
    /\ UNCHANGED <<uris, pc, gelesen, artikelIds, gefundeneArtikel>>

\* the loop left instead, with what there is
IndexZuGross_Fehler ==
    /\ pc = "zuordnen"
    /\ i < Len(uris)
    /\ i >= Len(artikelIds)
    /\ i' = Len(uris)
    /\ UNCHANGED <<uris, pc, gelesen, artikelIds, gefundeneArtikel, artikel>>

\* ++i for i++
IndexZuGross_Voraus ==
    /\ pc = "zuordnen"
    /\ i < Len(uris)
    /\ i + 1 >= Len(artikelIds)
    /\ pc' = "fehler"
    /\ UNCHANGED <<uris, gelesen, artikelIds, gefundeneArtikel, i, artikel>>

\* IndexOutOfBoundsException: the container rolls back.
IndexZuGross ==
    /\ pc = "zuordnen"
    /\ i < Len(uris)
    /\ i >= Len(artikelIds)
    /\ pc' = "fehler"
    /\ UNCHANGED <<uris, gelesen, artikelIds, gefundeneArtikel, i, artikel>>

Bestellt == {p \in 1..Len(uris) : artikel[p] # Ohne}

\* createBestellung with the positions that have an article, of which the
\* entity Bestellung wants one (@Size).
CreateBestellung ==
    /\ pc = "zuordnen"
    /\ i = Len(uris)
    /\ pc' = IF Bestellt = {} THEN "abgelehnt" ELSE "bestellt"
    /\ UNCHANGED <<uris, gelesen, artikelIds, gefundeneArtikel, i, artikel>>

Beantwortet == pc \in {"bestellt", "abgelehnt", "fehler"}

Ende == Beantwortet /\ UNCHANGED vars

Next ==
    \/ LiesUri \/ UebergeheUri \/ KeineArtikelId \/ IdsGelesen
    \/ FindArtikelByIds \/ KeineGefunden
    \/ Zuordnen \/ IndexZuGross
    \/ CreateBestellung
    \/ Ende

Spec == Init /\ [][Next]_vars

-----------------------------------------------------------------------------
(***************************************************************************)
(* Safety.                                                                 *)
(***************************************************************************)

\* What the positions of a request should become, each by its own URI.
Soll(p) == IF uris[p] \in Artikel THEN uris[p] ELSE Ohne

\* An order that is created has, position by position, the articles its URIs
\* name; the matching by place in bestellen, which goes wrong behind a URI
\* without a number, never gets as far as createBestellung.
ArtikelPasst ==
    pc = "bestellt" => \A p \in 1..Len(uris) : artikel[p] = Soll(p)

\* Nothing is turned away that names an article in each position.
AlleNennenArtikel == \A p \in 1..Len(uris) : uris[p] \in Artikel

VollstaendigeBestellt == AlleNennenArtikel => pc \notin {"abgelehnt", "fehler"}

\* What becomes of a request depends on its URIs alone: it is turned away if
\* none of them names an article, it fails if one does and another has no
\* number, wherever that stands, and it is ordered otherwise.
AntwortGenau ==
    LET eineNenntArtikel == \E p \in 1..Len(uris) : uris[p] \in Artikel
        eineOhneNummer   == \E p \in 1..Len(uris) : uris[p] = Ohne
    IN  /\ pc = "abgelehnt" => ~ eineNenntArtikel
        /\ pc = "fehler"    => eineNenntArtikel /\ eineOhneNummer
        /\ pc = "bestellt"  => eineNenntArtikel /\ ~ eineOhneNummer

\* An order that gets through the second pass has a position left, although it
\* eliminates positions: the constraint on the entity never has to reject it.
NieLeer == pc = "zuordnen" /\ i = Len(uris) => Bestellt # {}

\* "Ungueltige Artikel-ID: wird nicht beruecksichtigt": the rest of the order
\* is created.
UngueltigeNichtBeruecksichtigt ==
    (\E p \in 1..Len(uris) : uris[p] \in Artikel) => pc # "fehler"

-----------------------------------------------------------------------------
(* The inductive invariant of the first four. *)

\* As long as every URI has had a number, both lists have the same places; as
\* soon as one has not, the second list is shorter for good.
GleicherPlatz ==
    /\ Len(artikelIds) <= gelesen
    /\ Len(artikelIds) = gelesen => \A p \in 1..gelesen : artikelIds[p] = uris[p]
    /\ pc # "lesen" => gelesen = Len(uris)

\* The second list has the numbers of the first, and no others.
Gesammelt ==
    /\ \A k \in 1..Len(artikelIds) : \E p \in 1..gelesen : artikelIds[k] = uris[p]
    /\ \A p \in 1..gelesen :
          uris[p] # Ohne => \E k \in 1..Len(artikelIds) : artikelIds[k] = uris[p]

\* What has been matched comes from the place with the same number.
Zugeordnet ==
    /\ i <= Len(artikelIds)
    /\ i > 0 => pc \notin {"lesen", "suchen"}
    /\ \A p \in 1..i :
          artikel[p] = IF artikelIds[p] \in Artikel THEN artikelIds[p] ELSE Ohne
    /\ \A p \in 1..Len(uris) : p > i => artikel[p] = Ohne

\* The query has returned what there is, and that is something.
Gefunden ==
    pc = "zuordnen" => /\ gefundeneArtikel = Treffer(artikelIds)
                       /\ gefundeneArtikel # {}

\* How a request has ended.
Ausgang ==
    /\ pc = "abgelehnt" => Treffer(artikelIds) = {}
    /\ pc = "bestellt" => i = Len(uris)
    /\ pc = "fehler" => Len(artikelIds) < Len(uris)
    /\ pc \in {"bestellt", "fehler"} => Treffer(artikelIds) # {}
    /\ (\A p \in 1..gelesen : uris[p] # Ohne) => Len(artikelIds) = gelesen

IInv == TypeOK /\ Len(uris) > 0 /\ GleicherPlatz /\ Gesammelt /\ Zugeordnet
           /\ Gefunden /\ Ausgang
=============================================================================
