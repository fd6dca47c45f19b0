SPECIFICATION Spec
CONSTANTS
    l1 = l1
    l2 = l2
    l3 = l3
    m1 = m1
    m2 = m2
    p1 = p1
    p2 = p2
    None = None
    Links = {l1, l2}
    Pays = {m1, m2}
    Panels = {p1}
    Suspect = {}
    Bookings = {"mercadopago", "confirmed"}
    Statuses = {"in_process", "approved", "in_mediation", "refunded"}
SYMMETRY FullSymmetry
INVARIANTS
    OnlySettlerReverses
    MoneyIsToldWhileOpen
CHECK_DEADLOCK FALSE
