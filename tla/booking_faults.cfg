CONSTANTS
    c1 = c1
    c2 = c2
    None = None
    NoLimit = NoLimit
    Requests = {r1, r2, r3}
    Creds <- MCCreds
    Rank <- MCRank
    Limit <- MCLimit
    MaxRetries = 2
    LockOutlivesSection = FALSE
    LeaseOutlivesRequest = FALSE
    ResetsWhenIdle = FALSE
    NothingRaises = FALSE
    CrashesBetweenSteps = FALSE
SPECIFICATION Spec
SYMMETRY RequestSymmetry
INVARIANTS
    TypeOK
    EveryLeaseAccounted
PROPERTY
    LockFreedByOwner
CHECK_DEADLOCK FALSE
