SPECIFICATION Spec
CONSTANTS
    Tabs = {b1}
    Calls = {c1, c2}
    Users = {u1}
    TokenIds = {t1, t2}
    None = None
    Faults = FALSE
    CookieHasDomain = TRUE
INVARIANTS LogoutGuardsDashboard
