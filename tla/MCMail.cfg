CONSTANTS
    Kunden = {k1}
    Admins = {}
    Niemand = Niemand
    Anfragen = {r1, r2, r3}
    VergangeneTage = 1
    MaxTag = 0
SPECIFICATION Spec
INVARIANT MailNurFuerBestellung
