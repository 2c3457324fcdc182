SPECIFICATION Spec
CONSTANTS
    Requests = {1, 3}
    Users = {"ann", "bob"}
    ReqUser <- MCReqUser
    Holds = {h1}
    HoldUser <- MCHoldUser
    Runners = {w1, w2}
    NoRunner = nobody
    NSteps = 3
    ExtStep = 2
    AccountStep = 3
    Regrows = {1}
    Policies <- AllPolicies
    MaxPerTick = 2
    MaxFailures = 1
    MaxDisturbances = 1
    LockLossPossible = FALSE
INVARIANTS
    
    HoldStopsLaterRuns
    OneActiveDeletion
PROPERTIES
    ImplementsLifecycle
SYMMETRY RunnerSymmetry
CHECK_DEADLOCK FALSE
