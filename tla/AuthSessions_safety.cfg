SPECIFICATION Spec
CONSTANTS
    Logins = {l1, l2}
    Refreshes = {r1, r2}
    Upgrades = {u1}
    Callers = {c1}
    NoSession = nosession
    NoToken = notoken
    ReuseWindow = 1
    Timebox = 2
    Inactivity = 1
    SinglePerUser = TRUE
    Retention = 1
    BanLengths = {1}
    MaxTime = 3
    MaxAdmin = 1
SYMMETRY RequestSymmetry
INVARIANTS
    OneActiveToken
    SwitchedOffIsSignedOut
PROPERTIES
    RefreshedNeverGoesBack
    ImplementsSessions
CHECK_DEADLOCK FALSE
