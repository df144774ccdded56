SPECIFICATION Spec
CONSTANTS
    Students = {"s1"}
    NP = 1
    NM = 2
    Amounts = {1, 2, 3}
    Prices = {0, 1, 2}
    Adjustments = {}
    MaxAdjusted = 0
    MaxJobs = 1
    AutoApply = TRUE
    VisitsFail = FALSE
INVARIANTS
    LedgersAgree
    NoDebtBesideDeposit
CHECK_DEADLOCK FALSE
