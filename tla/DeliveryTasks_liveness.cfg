SPECIFICATION FairSpec
CONSTANTS
    Reqs = {r1, r2}
    Dests = {d1}
    Senders = {s1, s2}
    MaxAttempts = 2
    MaxPerTick = 1
    MaxLost = 1
    MaxOvertakes = 1
    MaxEdits = 1
INVARIANTS
    AttemptsAccounted
    AttemptsExclusive
PROPERTIES
    SettledIsFinal
    DeliveriesSettle
CHECK_DEADLOCK FALSE
