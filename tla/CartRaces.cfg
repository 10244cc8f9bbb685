SPECIFICATION CartSpec
CONSTANTS
    Sessions = {s1}
    Products = {p1}
    Prices = {c1, c2}
    MaxInt = 3
    MaxQty = 2
    Calls = {h1, h2, h3}
    StaleReads = TRUE
    SerialSessions = FALSE
    CartFails = TRUE
SYMMETRY Symmetry
INVARIANTS CartTypeOK CartsWellFormed LinesExplained
PROPERTY ReplyIsStored
