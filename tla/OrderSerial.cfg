SPECIFICATION FairSpec
CONSTANTS
    Requests = {r1, r2, r3}
    Users = {u1}
    NoOrder = NoOrder
    DispatchEnabled = TRUE
    StaleReads = FALSE
    SerialUsers = TRUE
    Outages = {"dispatch", "queue"}
INVARIANT SerialHistoryComplete
PROPERTIES ImplementsExactBook PaidIsRecorded
