SPECIFICATION Spec
CONSTANTS
    Browsers = {b1}
    Emails = {e1}
    Passwords = {p1, p2}
    Calls = {h1, h2, h3, h4}
    NoUser = NoUser
    NoSession = NoSession
    StaleReads = FALSE
    StoreFails = TRUE
SYMMETRY Symmetry
INVARIANTS TypeOK SessionsEarned LateIsRefused SignedInLasts
