CONSTANTS
    None = None
    c1 = c1
    c2 = c2
    Callers <- MCCallers
    GeoLimit = 1
    Hosts = 2
    MaxToken = 2
    Replies <- MCReplies
SYMMETRY Symmetry
SPECIFICATION Spec
INVARIANTS
    TypeOK
    RowGood
    SilentOnlyForced
    VerdictFair
