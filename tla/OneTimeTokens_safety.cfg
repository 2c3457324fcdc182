SPECIFICATION Spec
CONSTANTS
    Users = {u1, u2}
    Mails = {a, b}
    Phones = {p, q}
    None = None
    Senders = {s1, s2}
    PkceSenders = {s1, s2}
    Verifiers = {v1, v2}
    Configs <- MCConfigs
    MailFrequency = 1
    SMSFrequency = 1
    OTPExp = 0
    SMSOTPExp = 0
    FlowStateExpiry = 0
    MaxTime = 1
    MaxFailures = 1
SYMMETRY Symmetry
 
INVARIANT CodeBuysOneSession
 
PROPERTY BothLinksFollowedUnlessRaced
CHECK_DEADLOCK FALSE
