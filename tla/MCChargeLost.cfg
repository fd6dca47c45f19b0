SPECIFICATION Spec
CONSTANTS
    l1 = l1
    l2 = l2
    l3 = l3
    m1 = m1
    m2 = m2
    p1 = p1
    p2 = p2
    None = None
    Links = {l1}
    Pays = {}
    Panels = {}
    Suspect = {}
    Bookings = {"mercadopago"}
    Statuses = {}
PROPERTY SettledNeverLost
CHECK_DEADLOCK FALSE
