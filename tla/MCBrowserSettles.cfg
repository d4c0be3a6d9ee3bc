SPECIFICATION FairSpec
CONSTANTS
    Tabs = {b1}
    Calls = {c1, c2}
    Users = {u1}
    TokenIds = {t1, t2}
    None = None
    Faults = TRUE
    CookieHasDomain = FALSE
PROPERTIES NavigationDecided
INVARIANTS TypeOK
