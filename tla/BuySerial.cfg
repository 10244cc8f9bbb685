SPECIFICATION Spec
CONSTANTS
    Anon = anon
    User = user
    Sessions = {anon, user}
    Products = {p1, p2}
    Prices = {c1}
    MaxInt = 3
    MaxQty = 1
    Checkouts = {k1, k2}
    Calls = {k1, k2, b1, b2, b3}
    NoOrder = NoOrder
    StaleReads = FALSE
    SerialSessions = FALSE
    CartFails = FALSE
    OneAtATime = TRUE
    Down = {"checkout", "orders", "client", "pod"}
INVARIANTS NothingLost NothingMultiplied
PROPERTY ClearedWasBought
