CONSTANTS
    Kunden = {k1, k2}
    Admins = {k2}
    Niemand = Niemand
    Anfragen = {r1, r2, r3, r4}
    VergangeneTage = 0
    MaxTag = 1
SPECIFICATION Spec
SYMMETRY Symmetrie
INVARIANTS
    TypeOK
    IInv
    NurEinmalBestellt
    BestellteSindGeleert
    LueckenloseListe
    KeineWaisen
    KeinStillstand
PROPERTY NurBerechtigtGeleert
