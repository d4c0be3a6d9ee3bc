SPECIFICATION Spec
CONSTANTS
    Requests = {r1, r2}
    UserIds = {u1, u2}
    Emails = {e1, e2}
    TokenIds = {t1, t2, t3}
    None = None
    AccessTTL = 1
    RefreshTTL = 2
    MaxClock = 1
SYMMETRY Symmetry
INVARIANTS
    TypeOK
    SessionKeepsUser
    OneUserPerEmail
PROPERTIES
    DeletedUserGetsNoAccess
