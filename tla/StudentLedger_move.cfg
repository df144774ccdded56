SPECIFICATION FairSpec
CONSTANTS
    Students = {"s1", "s2"}
    NP = 1
    NM = 1
    Amounts = {1}
    Prices = {1}
    Adjustments <- UpAndDown
    MaxAdjusted = 1
    MaxJobs = 0
    AutoApply = TRUE
    VisitsFail = TRUE
PROPERTIES
    DepositReachesDebt
    ImplementsWallet
CHECK_DEADLOCK FALSE
