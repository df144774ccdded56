SPECIFICATION FairSpec
CONSTANTS
    Kinds = {"message", "penalty"}
    NMessages = 2
    Chats = {c1}
    MaxAttempts = 2
    NLoops = 2
    MaxErrors = 1
    MaxCrashes = 1
INVARIANTS
    TypeOK
    OneLoop
    RepeatsAreExplained
    RowsTellTheTruth
PROPERTIES
    FinishedStays
    PendingAtBootFinishes
    StuckIsRecovered
CHECK_DEADLOCK FALSE
