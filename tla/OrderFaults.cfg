SPECIFICATION Spec
CONSTANTS
    Requests = {r1, r2}
    Users = {u1, u2}
    NoOrder = NoOrder
    DispatchEnabled = TRUE
    StaleReads = TRUE
    SerialUsers = FALSE
    Outages = {"payment", "dispatch", "store", "queue", "client", "pod"}
INVARIANTS TypeOK HistorySound NothingUnpaid AnswerTruthful
PROPERTY ImplementsLossyBook
