SPECIFICATION Spec
CONSTANTS
    None = None
    alice = alice
    bob = bob
    am = am
    bm = bm
    g = g
    Users = {u1, u2}
    Persons = {alice, bob}
    Mails = {am, bm}
    External = {g}
    SSO = {s}
    OwnerOf <- MCOwnerOf
    AnyMail = {bob}
    Flows = {f1}
    Requests = {r1, r2}
    Configs <- MCConfigs
SYMMETRY Symmetry
INVARIANT OneStateOneSignIn
INVARIANT NoStrangerInside
INVARIANT SSOStaysApart
PROPERTY LastIdentityStays
CHECK_DEADLOCK FALSE
