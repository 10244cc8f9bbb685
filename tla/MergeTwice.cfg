SPECIFICATION Spec
CONSTANTS
    Anon = anon
    User = user
    Sessions = {anon, user}
    Products = {p1}
    Prices = {c1}
    MaxInt = 3
    MaxQty = 1
    Checkouts = {k1, k2}
    Calls = {k1, k2, b1}
    NoOrder = NoOrder
    StaleReads = FALSE
    SerialSessions = FALSE
    CartFails = TRUE
    OneAtATime = TRUE
    Down = {}
INVARIANT MergedOnce
