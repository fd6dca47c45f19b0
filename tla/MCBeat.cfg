SPECIFICATION Spec
CONSTANTS
    \* the breaker
    Calls = {c1, c2, c3}
    Threshold = 2
    Cuts = {"raised", "drained"}
    \* the waitlist
    WlEntries = {1, 2, 3}
    WlPhone <- Phone
    WlMailbox <- HasMailbox
    WlSlots = {s1}
    WlTabs = {t1}
    NoSlot = NoSlot
    NoEntry = 0
    WlFree = WlFree
    WlOther = WlOther
    MaxLapsedOffers = 2
    MaxOpenEntries = 3
    \* the billing
    BillStores = {z1}
    BillRequests = {r1, r2}
    NoStore = NoStore
    WarnDays = 1
    GraceDays = 1
    PlanPrices = {2}
    CouponValue = 1
    CouponMaxUses = 1
    MaxDay = 4
    OneTimePerStore = FALSE
    MaxRenewals = 1
    MaxJobDeaths = 1
INVARIANTS
    
    CouponWithinLimit
PROPERTIES
    OnlyDrainOrphans
    Recovers
    LapsedOffersReturn
    
CHECK_DEADLOCK FALSE
