CONSTANTS
    None = None
    c1 = c1
    c2 = c2
    f1 = f1
    f2 = f2
    admin = admin
    other = other
    Callers <- MCCallers
    AttemptLimit = 2
    Emails <- MCEmails
    AdminEmail = admin
    Allowed <- MCAllowed
    Flows <- MCFlows
SPECIFICATION Spec
INVARIANTS
    TypeOK
    AttemptsBounded
    TokenMeansAdmin
    OneRow
PROPERTIES
    LockoutEnds
CHECK_DEADLOCK FALSE
