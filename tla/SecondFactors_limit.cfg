SPECIFICATION Spec
CONSTANTS
    Sessions = {s1, s2}
    Factors = {f1, f2}
    Challenges = {c1, c2}
    Passkeys = {p1, p2}
    Handshakes = {h1, h2}
    Requests = {r1, r2}
    None = None
    AttemptLimit = 1
    MaxFactors = 2
    MaxPasskeys = 1
    Capacity = 2
    OpaqueLimit = 2
    Configs <- MCConfigs
SYMMETRY Symmetry
INVARIANT PasskeyLimit
CHECK_DEADLOCK FALSE
