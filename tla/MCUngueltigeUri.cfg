CONSTANTS
    a1 = a1
    a2 = a2
    a3 = a3
    Artikel = {a1, a2}
    Vergeben = {a3}
    Ohne = Ohne
    MaxPositionen = 2
SPECIFICATION Spec
INVARIANT UngueltigeNichtBeruecksichtigt
