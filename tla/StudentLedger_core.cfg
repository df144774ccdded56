SPECIFICATION Spec
CONSTANTS
    Students = {"s1"}
    NP = 2
    NM = 2
    Amounts = {1, 2}
    Prices = {2}
    Adjustments <- UpAndDown
    MaxAdjusted = 1
    MaxJobs = 0
    AutoApply = TRUE
    VisitsFail = TRUE
INVARIANTS
    TypeOK
    LedgersAgree
PROPERTIES
    OnlyCorrectionsUnsettle
    OldestFirst
    HeldStaysUnfilled
CHECK_DEADLOCK FALSE
