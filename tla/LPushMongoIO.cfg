\* Two sessions of one user, one of a user with a full page and one of a user
\* with more than that; a request may get an address that was freed before.
SPECIFICATION FairSpec
CONSTANTS
    c1 = c1
    c2 = c2
    c3 = c3
    c4 = c4
    u1 = u1
    u2 = u2
    u3 = u3
    Conns = {c1, c2, c3, c4}
    User <- MCUser
    Addr = {a1, a2}
    Collection <- MCCollection
    PageSize = 2
    MaxHistory = 4
    QueriesFail = TRUE
    None = None
CHECK_DEADLOCK FALSE
INVARIANTS
    RequestsHaveSessions HistoryOnce
PROPERTIES
    OnlyStalePointersSteal Served
