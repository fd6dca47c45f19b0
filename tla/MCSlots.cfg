SPECIFICATION AllSpec
CONSTANTS
    \* the locks
    a1 = a1
    a2 = a2
    b1 = b1
    b2 = b2
    q1 = q1
    q2 = q2
    Nobody = Nobody
    Staff <- Ids
    Turn <- Order
    Appts = {a1, a2}
    Blocks = {b1, b2}
    Requests = {q1, q2}
    MaxEdits = 1
    Slots <- Grid
    Closures <- Shut
    Buffer = 1
    MaxSpan = 2
    \* the availability
    Cut = Cut
    Tint = Tint
    Ana = Ana
    AvStaff = {Ana}
    AvServices = {Cut, Tint}
    ServiceMinutes <- Minutes
    Skills <- Does
    StoreHours <- Opening
    Franjas <- Ranges
    FranjaIds = {1, 2}
    WeekRequests = {q1, q2}
    SlotStep = 2
    DayBuffer = 1
    Notice = 1
    MaxSelection = 5
    DayEnd = 8
    MaxBusy = 1
    NoStaff = NoStaff
    NoFranja = NoFranja
    \* its cache
    CacheReaders = {q1, q2}
    CacheWriters = {w1}
    SlotsTTL = 2
    VersionTTL = 3
    MaxCacheTime = 6
    MaxCommits = 2
    MaxOutages = 1
SYMMETRY Symmetry
INVARIANTS
    GapKept
    BlockedIsClear
    DeadlockIsKnown
    OfferIsHonest
    CacheIsFresh
CHECK_DEADLOCK FALSE
