SPECIFICATION Spec
CONSTANTS
    Kinds = {"salary", "damage"}
    NE = 2
    NP = 2
    Requests = {r1, r2}
    Prices = {1, 2}
    Amounts = {1, 2}
SYMMETRY Symmetry
INVARIANTS
    TypeOK
    NotOverpaid
    MoneyIsAllocated
    StatusFollows
CHECK_DEADLOCK FALSE
