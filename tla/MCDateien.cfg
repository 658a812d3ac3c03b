CONSTANTS
    Anfragen = {r1, r2, r3}
    Keine = Keine
    Typen = {"JPEG", "PNG", "WAV"}
    TOLERANZ = 1
    MaxZeit = 2
SPECIFICATION BegrenzteSpec
SYMMETRY Symmetrie
INVARIANTS
    TypeOK
    IInv
    UngestoertIInv
    AktuellSolangeUngestoert
    KopieVollstaendig
