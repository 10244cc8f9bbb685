SPECIFICATION FairSpec
CONSTANTS
    Anon = anon
    User = user
    Sessions = {anon, user}
    Products = {p1}
    Prices = {c1, c2}
    MaxInt = 1
    MaxQty = 1
    Checkouts = {k1, k2}
    Calls = {k1, k2, b1}
    NoOrder = NoOrder
    StaleReads = TRUE
    SerialSessions = FALSE
    CartFails = TRUE
    OneAtATime = FALSE
    Down = {"checkout", "orders", "client", "pod"}
INVARIANTS TypeOK OrdersExplained RepliesTruthful
PROPERTY EveryCheckoutEnds
