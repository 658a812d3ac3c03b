CONSTANTS
    Anfragen = {r1, r2, r3}
    Keine = Keine
    Typen = {"JPEG"}
    TOLERANZ = 1
    MaxZeit = 2
SPECIFICATION GeordnetSpec
INVARIANT AblageAktuell
