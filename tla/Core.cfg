SPECIFICATION Spec
CONSTANTS
    Publications = {p1}
    NoPub = NoPub
    Workers = {w1, w2}
    Attempts = {a1, a2}
    NoToken = NoToken
    ScheduledAt <- EarlySlot
    ExpiresAt <- BriefClose
    Capable = {p1}
    Limit = 1
    Lease = 1
    Delays = {0}
    GrantTTL = 1
    MaxTime = 1
    SwitchValues = {TRUE}
    MaxGrants = 0
    MaxCrashes = 1
SYMMETRY SymmetricNames
INVARIANTS TypeOK NoReplay LedgerNeverForgets ReceiptIsReal AuditIsTrue Inductive
PROPERTIES KeepsPromise SendIsAuthorized
