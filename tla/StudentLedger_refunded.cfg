SPECIFICATION Spec
CONSTANTS
    Students = {"s1"}
    NP = 2
    NM = 1
    Amounts = {1}
    Prices = {1}
    Adjustments = {}
    MaxAdjusted = 0
    MaxJobs = 0
    AutoApply = TRUE
    VisitsFail = FALSE
INVARIANT
    BalanceIsDeposits
CHECK_DEADLOCK FALSE
