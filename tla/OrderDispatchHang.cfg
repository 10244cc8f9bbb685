SPECIFICATION Spec
CONSTANTS
    Requests = {r1}
    Users = {u1}
    NoOrder = NoOrder
    DispatchEnabled = TRUE
    StaleReads = FALSE
    SerialUsers = FALSE
    Outages = {"dispatch"}
INVARIANT DispatchIsBestEffort
