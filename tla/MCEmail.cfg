CONSTANTS
    p1 = p1
    p2 = p2
    klein = klein
    gross = gross
    k1 = k1
    k2 = k2
    Kunden = {k1}
    Anfragen = {r1, r2}
    Postfaecher = {p1, p2}
    Schreibweisen = {klein, gross}
    ErsteEmail <- EineEmail
    Namen = {n1}
    Orte = {o1}
    ErsterName = n1
    ErsterOrt = o1
SPECIFICATION Spec
INVARIANT EmailEindeutig
