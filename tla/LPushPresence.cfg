\* Three sessions of one user, two of them on one server; the client of the third
\* is not punctual; one query fails.
SPECIFICATION FairSpec
CONSTANTS
    c1 = c1
    c2 = c2
    c3 = c3
    s1 = s1
    s2 = s2
    Servers = {s1, s2}
    Conns = {c1, c2, c3}
    ServerOf <- MCServerOf
    TTL = 2
    Beat = 1
    Late = {c3}
    MaxFails = 1
    None = None
CHECK_DEADLOCK FALSE
INVARIANTS
    Findable LeftoversExcused FewMembers
PROPERTIES
    KeyGoesAway
