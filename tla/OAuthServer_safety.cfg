SPECIFICATION Spec
CONSTANTS
    u1 = u1
    u2 = u2
    c1 = c1
    c2 = c2
    Users = {u1, u2}
    Clients = {c1, c2}
    Scopes = {x, y}
    Authorizations = {o1, o2}
    Sessions = {s1, s2}
    Requests = {r1, r2}
    None = None
    Configs <- MCConfigs
SYMMETRY Symmetry
INVARIANT CodeRedeemedOnce
INVARIANT ScopesWereAgreed
INVARIANT RevocationHolds
CHECK_DEADLOCK FALSE
