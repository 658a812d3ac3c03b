CONSTANTS
    Kunden = {k1, k2}
    Admins = {}
    Niemand = Niemand
    Anfragen = {1, 2, 3}
    VergangeneTage = 0
    MaxTag = 1
SPECIFICATION NumerierteFairSpec
PROPERTIES
    JedeAnfrageEndet
    ErfuelltZusage
