------------------------------ MODULE MCDateien -----------------------------
(* A small instance of Dateibeobachtung for TLC. *)
EXTENDS MCDateiablage, Dateibeobachtung

\* bound: a second extension only in calm behaviours
EineEndung == \A r \in Anfragen : objekt[r].endung = OhneDatei.endung

BegrenzterSchritt ==
    /\ BeobachteterSchritt
    /\ EineEndung' \/ ungestoert'

BegrenzteSpec == BeobachteterBeginn /\ [][BegrenzterSchritt]_<<vars, ungestoert>>

=============================================================================
