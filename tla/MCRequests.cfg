SPECIFICATION Spec
CONSTANTS
    Pairs = {r1, r2}
    Triples = {x1, x2, x3}
    \* sessions
    Users = {u1}
    GlobalAdmins = {}
    SessionIds = {x1, x2, x3}
    AuthRequests = {r1, r2}
    NoSession = NoSession
    MaxLoginFailures = 1
    MaxCuts = 1
    \* one-time codes
    Mailboxes = {m1, m2}
    OtpCodes = {x1, x2, x3}
    OtpRequests = {r1, r2}
    NoMailbox = NoMailbox
    NoCode = NoCode
    OtpMaxAttempts = 1
    OtpMaxRequests = 2
    OtpMaxVerifications = 2
    \* the portal
    PortalRequests = {r1, r2}
    BookingKeys = {k1, k2}
    MaxFutureBookings = 1
    MaxPromoUses = 1
    DailyQuota = 1
    MaxPanelBookings = 1
SYMMETRY RequestSymmetry
INVARIANTS
    SessionsHold
    CodesHold
    KeyIsHonoured
    LimitsHold
CHECK_DEADLOCK FALSE
