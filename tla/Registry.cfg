SPECIFICATION Spec
CHECK_DEADLOCK FALSE
CONSTANTS
    Registrations = {r1, r2}
    Inspections = {i1}
    Apps = {"a1", "a2"}
    Members = {"m1", "m2"}
    Organizations = {"o1"}
    Scopes = {"w", "r"}
    Versions = {"v1", "v2"}
    Proposals <- SomeProposals
    Environments <- SomeEnvironments
    ProbeScopes = {"w"}
INVARIANTS TypeOK RegistrationIsKept VerdictIsTrue
PROPERTIES StaleProbeNeverOverwrites
