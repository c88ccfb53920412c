CONSTANTS
    Callers = {c1, c2}
    Nobody = Nobody
    LEASE_TTL = 2
    MaxLag = 1
    MAX_ATTEMPTS = 2
    MAX_REQUESTS = 2
    WINDOW = 2
    LockLag = 1
SPECIFICATION FairSubmissions
INVARIANTS
    HandlerTypeOK
    FreshHoldersExclude
    LimitHolds
PROPERTIES
    AbandonedLeaseRecovered
    ImplementsLease
    BucketReopens
CHECK_DEADLOCK FALSE
