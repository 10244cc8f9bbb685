SPECIFICATION CartSpec
CONSTANTS
    Sessions = {s1}
    Products = {p1, p2}
    Prices = {c1, c2}
    MaxInt = 2
    MaxQty = 1
    Calls = {h1, h2, h3}
    StaleReads = FALSE
    SerialSessions = TRUE
    CartFails = TRUE
PROPERTIES ImplementsAtomicCart ReplyIsStored
