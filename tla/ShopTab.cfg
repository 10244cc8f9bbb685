SPECIFICATION Spec
CONSTANTS
    NoData = NoData
    Guest = Guest
    Users = {u1, u2}
    Items = {i1}
    MaxActs = 2
    StartQty = 1
    CartRetries = 0
    MaxCheckouts = 2
    MaxSigns = 2
    MaxRefreshes = 1
    MaxSteps = 3
SYMMETRY Symmetry
INVARIANTS TypeOK ShownIsStored OrderIsOffer UserShownTrue
PROPERTY BoughtOnce
CHECK_DEADLOCK FALSE
