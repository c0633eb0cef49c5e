CONSTANTS
    None = None
    r1 = r1
    r2 = r2
    Requests <- MCRequests
    Configured <- MCConfigured
    RpmLimit = 1
    MonthLimit = 2
    QuotaTotal = 1
    MaxUse = 1
    MaxFaults = 1
SPECIFICATION Spec
INVARIANTS
    TypeOK
    MonthBounded
    QuotaCounted
PROPERTIES
    RpmRecovers
