SPECIFICATION Spec
CHECK_DEADLOCK FALSE
SYMMETRY Interchangeable
CONSTANTS
    Imports = {i1, i2}
    Approvers = {a1}
    Commissioners = {c1, c2}
    Deletions = {d1, d2}
    DeleteEnabled = TRUE
    Digests = {x, y}
    Bindings = {b1, b2}
INVARIANTS TypeOK ImportIsOnce WhatWasReviewed DeletionIsTrue
