SPECIFICATION Spec
CONSTANTS
    Rooms = {room1, room2}
    CheckedRoom = room1
    Damages = {d1, d2}
    Charges = {c1, c2}
    Requests = {r1, r2}
    Mixes = {{"check", "cancelDamage"}, {"check", "move"}, {"cancelDamage", "move", "correct"}, {"cancelDamage", "charge", "cancelCharge", "waive", "unwaive"}}
    Units = {1}
    MaxUnits = 2
    MaxChecks = 2
SYMMETRY Symmetry
INVARIANTS
    TypeOK
    StockExplained
    SheetPostedOnce
CHECK_DEADLOCK FALSE
