SPECIFICATION Spec
CONSTANTS
    Charges = {1, 2}
    Holds = {}
    QueueLimit = 1
    QueryUnits = 2
    RetiredMax = 1
    RetiredLinks = 1
    ExpireMaxPages = 2
    ParkTime = 2
    MaxReconcileDeaths = 1
    MaxPolls = 1
PROPERTY
    ApprovedIsReconciled
CHECK_DEADLOCK FALSE
