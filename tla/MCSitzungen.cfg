\* The numbers of requests and conversations are bounds: when they are used
\* up, the users of a part stop.
CONSTANTS
    Kunden = {k1}
    Rollen = {admin, kunde}
    Sitzungen = {s1, s2}
    Anmeldungen = {a1}
    Niemand = niemand
    MaxVersion = 2
    Artikel = {1, 2}
    Bezeichnungen = {A}
    Preise = {1, 2}
    Ohne = ohne
    Puts = {1, 2}
    Gets = {1, 2}
    Masken = {m1}
    Benutzer = {1, 2}
    Gast = gast
    Gespraeche = {1, 2}
    MaxPositionen = 2
    MaxAnzahl = 2
SPECIFICATION SitzungenSpec
INVARIANTS
    RollenTypeOK RollenIInv CacheAktuell
    PflegeTypeOK PflegeIInv NieUnvollstaendig AnzeigeGehoertZurSuche
    DialogTypeOK DialogIInv GesamtbetragWieErwartet WarenkorbNurEinmalBestellt NurEigeneBestellung
PROPERTIES AenderungAddiertSich AusgesondertBleibt
CHECK_DEADLOCK FALSE
