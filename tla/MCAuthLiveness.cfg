SPECIFICATION FairSpec
CONSTANTS
    Requests = {r1, r2}
    UserIds = {u1}
    Emails = {e1}
    TokenIds = {t1, t2}
    None = None
    AccessTTL = 1
    RefreshTTL = 1
    MaxClock = 0
PROPERTIES
    EveryRequestAnswered
