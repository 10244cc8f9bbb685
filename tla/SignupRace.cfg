SPECIFICATION Spec
CONSTANTS
    Browsers = {b1}
    Emails = {e1}
    Passwords = {p1, p2}
    Calls = {h1, h2}
    NoUser = NoUser
    NoSession = NoSession
    StaleReads = FALSE
    StoreFails = FALSE
SYMMETRY Symmetry
INVARIANT OneSignupPerAddress
