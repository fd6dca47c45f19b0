SPECIFICATION AllSpec
CONSTANTS
    \* the outbox
    w1 = w1
    w2 = w2
    x1 = x1
    x2 = x2
    x3 = x3
    e1 = e1
    Runs = {w1, w2}
    Events = {e1}
    Expiries = {x1, x2, x3}
    Blank = {x2, x3}
    MaxClaims = 2
    MaxAttempts = 3
    \* the expiry of holds
    Charges = {}
    Holds = {1, 2, 3}
    QueueLimit = 1
    QueryUnits = 3
    RetiredMax = 2
    RetiredLinks = 2
    ExpireMaxPages = 2
    ParkTime = 2
    MaxReconcileDeaths = 1
    MaxPolls = 1
INVARIANTS
    DoneIsDead
    MailAtMostOnce
PROPERTIES
    ClaimIsExclusive
    ExpirySettles
    UnpaidHoldReleased
CHECK_DEADLOCK FALSE
