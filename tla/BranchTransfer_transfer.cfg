SPECIFICATION TransferSpec
CONSTANTS
    Students = {"north", "south"}
    NP = 2
    NM = 1
    Amounts = {1}
    Prices = {1}
    Adjustments = {1}
    MaxAdjusted = 1
    MaxJobs = 0
    AutoApply = TRUE
    VisitsFail = TRUE
    NoPlan = NoPlan
    MaxWorth = 2
    MaxReceipts = 1
    MaxTransfers = 2
    TransfersWait = TRUE
    Enrolled = "north"
PROPERTIES
    PupilKeepsHisMoney
    TransferIsWhole
CHECK_DEADLOCK FALSE
