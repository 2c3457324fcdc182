SPECIFICATION Spec
CONSTANTS
    s1 = s1
    s2 = s2
    Subjects = {s1, s2}
    Consents = {1, 2}
    SubjectOf <- MCSubjectOf
    Revisions = {1, 2}
    Policies = {"default", "gone", "strict"}
    Default = "default"
    Rules <- MCRules
    Engines = {e1, e2}
    Updates = {w1, w2}
    Destinations = {"crm", "mail"}
    None = None
    Configs <- MCConfigs
    MaxOutbox = 2
SYMMETRY Symmetry
INVARIANT ProjectionMirrorsLedger
INVARIANT NoticesAreDue
INVARIANT EventsAreHandledOnce
CHECK_DEADLOCK FALSE
