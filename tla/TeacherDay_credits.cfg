SPECIFICATION Spec
CONSTANTS
    NL = 2
    NC = 3
    NTogether = 2
    Requests = {r1, r2}
    LessonPoints = 1
    AbsentPoints = 2
    MaxRows = 2
    MaxEdits = 1
SYMMETRY Symmetry
INVARIANTS
    TypeOK
    PointsExplained
    RestoredExactly
    CreditedIsPresent
CHECK_DEADLOCK FALSE
