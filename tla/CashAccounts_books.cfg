SPECIFICATION Spec
CONSTANTS
    NA = 2
    Docs = {d1, d2}
    NoDoc = none
    Requests = {r1, r2}
    Amounts = {2}
    Fees = {1}
    Corrections = {1}
    MaxAdjusted = 1
    Openings = {0, 1}
SYMMETRY Symmetry
INVARIANTS
    TypeOK
    BooksBalance
    NoDeadlock
CHECK_DEADLOCK FALSE
