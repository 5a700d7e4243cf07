SPECIFICATION FairSpec
CONSTANTS
    Publications = {p1, p2}
    NoPub = NoPub
    Workers = {w1}
    Attempts = {a1}
    NoToken = NoToken
    ScheduledAt <- TwoSlots
    ExpiresAt <- OneClose
    Capable = {p1}
    Limit = 1
    Lease = 1
    Delays = {1}
    GrantTTL = 1
    MaxTime = 3
    SwitchValues = {TRUE}
    MaxGrants = 0
    MaxCrashes = 1
INVARIANTS ClaimIsExclusive
PROPERTIES EverythingSettles
