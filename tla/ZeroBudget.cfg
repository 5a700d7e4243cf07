SPECIFICATION Spec
CONSTANTS
    Replicas = {r1}
    Apps = {a1}
    Members = {m1}
    Posts = {}
    Author <- OneAuthor
    Days = {1}
    Profile <- ZeroApp
INVARIANTS LimitHolds
