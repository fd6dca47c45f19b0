SPECIFICATION Spec
CONSTANTS
    Pair = {r1, r2}
    \* the accounts
    Accounts = {a1, a2}
    FirstAdmins = {a1}
    AdminRequests = {r1, r2}
    NoAccount = NoAccount
    \* the debts
    LedgerClients = {c1}
    LedgerRequests = {r1, r2}
    NoClient = NoClient
    LedgerAmounts = {1, 2}
    MaxMovements = 3
    \* the reminders
    Bookings = {1, 2}
    ReminderRuns = {r1, r2}
    Lead24 = 3
    Floor24 = 2
    Lead2 = 1
    Floor2 = 0
    BatchLimit = 2
    BookingInputs <- Inputs
    ReminderStarts = {3}
    ReminderHorizon = 3
    MaxLostAnswers = 1
    MaxReminderRuns = 2
    MaxQueuedMails = 1
    \* the deposits
    Selections <- Chosen
    StoreRules <- Surcharges
    Promotions <- Offers
    ClientAsks <- Asks
    Editors = {r1, r2}
    FarBookingDays = 30
    AddonPrices = {2, 3}
    MaxAddonIds = 2
    MaxEdits = 2
SYMMETRY PairSymmetry
INVARIANTS
    GuardKeepsAGlobalAdmin
    BalanceIsStanding
    RemindersHold
    
PROPERTY
    LossIsTold
CHECK_DEADLOCK FALSE
