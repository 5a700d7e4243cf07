SPECIFICATION Spec
CONSTANTS
    Replicas = {r1}
    Apps = {a1}
    Members = {m1}
    Posts = {u1}
    Author <- OneAuthor
    Days = {1}
    Profile <- OneEach
INVARIANTS MemberCeilingHolds
