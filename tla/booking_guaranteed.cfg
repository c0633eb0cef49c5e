CONSTANTS
    c1 = c1
    c2 = c2
    None = None
    NoLimit = NoLimit
    Requests = {r1, r2, r3}
    Creds <- MCCreds
    Rank <- MCRank
    Limit <- MCLimit
    MaxRetries = 1
    LockOutlivesSection = TRUE
    LeaseOutlivesRequest = TRUE
    ResetsWhenIdle = TRUE
    NothingRaises = TRUE
    CrashesBetweenSteps = TRUE
SPECIFICATION FairSpec
INVARIANTS
    SectionsExclusive
    WithinLimit
    NeverBricked
PROPERTIES
    RefinesConcurrencyLimit
    LocksExpire
    GhostsExpire
CHECK_DEADLOCK FALSE
