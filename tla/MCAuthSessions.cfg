SPECIFICATION Spec
CONSTANTS
    Requests = {r1, r2}
    UserIds = {u1}
    Emails = {e1}
    TokenIds = {t1, t2, t3}
    None = None
    AccessTTL = 1
    RefreshTTL = 1
    MaxClock = 2
SYMMETRY Symmetry
INVARIANTS
    RotationMintsOnce
    SessionHasOneToken
    DeadRefreshRejected
    LogoutSpendsToken
PROPERTIES
    EndedSessionStaysEnded
    KeepsPromise
