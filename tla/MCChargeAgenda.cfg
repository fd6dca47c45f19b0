SPECIFICATION FairSpec
CONSTANTS
    l1 = l1
    l2 = l2
    l3 = l3
    m1 = m1
    m2 = m2
    p1 = p1
    p2 = p2
    None = None
    Links = {l1, l2}
    Pays = {m1, m2}
    Panels = {p1}
    Suspect = {m2}
    Bookings = {"mercadopago", "whatsapp", "confirmed", "pending"}
    Statuses = {"in_process", "rejected", "approved", "charged_back"}
INVARIANTS
    NoLiveChargeOnReleased
    ReplacedLinksExpire
    ClosedChargeLinkExpires
PROPERTIES
    ImplementsLifecycle
    OverdueHoldEnds
CHECK_DEADLOCK FALSE
