SPECIFICATION FairSpec
CONSTANTS
    Requests = {1, 2}
    Users = {"ann", "bob"}
    ReqUser <- MCReqUser
    Holds = {}
    HoldUser <- MCHoldUser
    Runners = {w1, w2}
    NoRunner = nobody
    NSteps = 2
    ExtStep = 1
    AccountStep = 2
    Regrows = {}
    Policies <- OnePolicy
    MaxPerTick = 1
    MaxFailures = 0
    MaxDisturbances = 0
    LockLossPossible = TRUE
INVARIANTS
    DoneIsComplete
PROPERTIES
    DueIsHandled
CHECK_DEADLOCK FALSE
