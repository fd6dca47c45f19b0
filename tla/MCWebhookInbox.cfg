SPECIFICATION FairSpec
CONSTANTS
    n1 = n1
    n2 = n2
    r1 = r1
    r2 = r2
    None = None
    Notes = {n1, n2}
    Requests = {r1, r2}
    MaxAttempts = 3
    MaxDeliveries = 2
INVARIANTS
    ProcessedIsApplied
    DroppedIsEarned
PROPERTY
    WaitingSettles
CHECK_DEADLOCK FALSE
