CONSTANTS
    c1 = c1
    c2 = c2
    None = None
    NoLimit = NoLimit
    Requests = {r1, r2}
    Creds <- MCCreds
    Rank <- MCRank
    Limit <- MCLimit
    MaxRetries = 2
    LockOutlivesSection = TRUE
    LeaseOutlivesRequest = TRUE
    ResetsWhenIdle = FALSE
    NothingRaises = TRUE
    CrashesBetweenSteps = TRUE
SPECIFICATION Spec
SYMMETRY RequestSymmetry
INVARIANT
    WithinLimit
CHECK_DEADLOCK FALSE
