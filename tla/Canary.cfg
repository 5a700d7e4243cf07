SPECIFICATION Spec
CONSTANTS
    Publications = {p1}
    NoPub = NoPub
    Workers = {w1}
    Attempts = {a1, a2}
    NoToken = NoToken
    ScheduledAt <- OneSlot
    ExpiresAt <- OneClose
    Capable = {}
    Limit = 1
    Lease = 1
    Delays = {1}
    GrantTTL = 1
    MaxTime = 3
    SwitchValues = {}
    MaxGrants = 1
    MaxCrashes = 0
SYMMETRY SymmetricNames
PROPERTIES CanaryIsTaken
