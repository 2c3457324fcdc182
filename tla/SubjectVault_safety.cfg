SPECIFICATION VaultSpec
CONSTANTS
    Fields = {"mail", "name"}
    Patchers = {p1, p2}
    Recorders = {c1}
    Patches <- MCPatches
    Policies <- MCPolicies
    Stored <- MCStored
    MaxFields = 1
    MaxTries = 2
    NoKey = none
    Shredded = shredded
    NoValue = absent
    Earlier = earlier
    MaxRequests = 1
    MaxHalts = 1
    MaxHolds = 1
SYMMETRY CallSymmetry
INVARIANTS
    PatchesMerge
    IndexMirrorsProfile
    SealedUnderStoredKey
    ErasedStaysErased
    HoldStopsSweep
PROPERTIES
    ShredIsForever
CHECK_DEADLOCK FALSE
