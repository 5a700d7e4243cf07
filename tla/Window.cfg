SPECIFICATION Spec
CONSTANTS
    Publications = {p1}
    NoPub = NoPub
    Workers = {w1, w2}
    Attempts = {a1, a2}
    NoToken = NoToken
    ScheduledAt <- OneSlot
    ExpiresAt <- BriefClose
    Capable = {p1}
    Limit = 1
    Lease = 1
    Delays = {0, 1}
    GrantTTL = 1
    MaxTime = 2
    SwitchValues = {}
    MaxGrants = 2
    MaxCrashes = 1
SYMMETRY SymmetricNames
INVARIANTS AuditIsTrue Bookkeeping
PROPERTIES TransitionsAllowed NeverEarly GrantIsOneShot SendIsAuthorized
