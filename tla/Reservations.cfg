SPECIFICATION FairSpec
CONSTANTS
    Replicas = {r1, r2}
    Apps = {a1}
    Members = {m1}
    Posts = {u1}
    Author <- OneAuthor
    Days = {1}
    Profile <- TwoProfiles
INVARIANTS TypeOK LimitHolds RequestsAreCounted OutstandingIsPaid LockedHasRoom NoDeadlock
PROPERTIES ReservesAtOnce ReservationEnds
