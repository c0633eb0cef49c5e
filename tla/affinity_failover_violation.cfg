CONSTANTS
    c1 = c1
    c2 = c2
    c3 = c3
    None = None
    NoLimit = NoLimit
    Requests = {r1, r2}
    Creds <- MCCreds
    Rank <- MCRank
    Namespace <- MCNamespace
    Limit <- MCLimit
    Models <- MCModels
    Asks <- MCAsks
    MapName <- MCMapName
    Serves <- MCServes
    MaxRetries = 2
SPECIFICATION Spec
SYMMETRY RequestSymmetry
PROPERTY
    NoSilentFailover
CHECK_DEADLOCK FALSE
