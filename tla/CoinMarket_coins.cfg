SPECIFICATION Spec
CONSTANTS
    Students = {s1}
    Products = {p1}
    Orders = {o1}
    NoOrder = none
    Requests = {r1, r2}
    Mixes = {{"order", "cancel", "reject", "deliver", "approve", "edit", "give"}, {"order", "cancel", "premium", "daily"}, {"package", "lower", "give", "order"}, {"take", "order", "cancel"}}
    Quantities = {1, 2}
    Price = 1
    PremiumCost = 2
    PackageCost = 1
    PackagePoints = 2
    ShopLimit = 1
    Gifts = {1}
    MaxCoins = 2
    MaxPoints = 2
    MaxPremium = 1
    MaxDeaths = 1
SYMMETRY Symmetry
INVARIANTS
    TypeOK
    CoinsExplained
    ClosedWasRefunded
CHECK_DEADLOCK FALSE
