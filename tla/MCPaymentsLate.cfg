SPECIFICATION Spec
CONSTANTS
    \* the rest of a turn
    BalanceRequests = {r1, r2, r3}
    FrozenPrice = 3
    Charged = {1, 3}
    MaxRemainders = 2
    \* the credentials
    GatewayWorkers = {w1, w2}
    MpAccounts = {account}
    NoAccountId = NoAccountId
    MaxGrants = 2
    MaxRows = 2
    \* the notifications
    p1 = p1
    p2 = p2
    h1 = h1
    MpPayments = {p1, p2}
    NoPayment = NoPayment
    NoteForms <- Notifications
    PaymentForms <- InMercadoPago
    Handlers <- HandlersOf
    MaxRowAttempts = 2
    MaxNotes = 2
    \* the announcements
    MaxMoves = 2
    MaxPlanTries = 2
    MaxFaults = 1
    OwnerEvents <- OwnerEventsOf
SYMMETRY RequestSymmetry
PROPERTY LaterStatusIsRead
CHECK_DEADLOCK FALSE
