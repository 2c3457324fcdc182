---------------------------- MODULE SecondFactors ----------------------------
(***************************************************************************)
(* The ways an account proves itself beside a password: second factors    *)
(* (factors.go, factors_phone.go, factors_webauthn.go, admin_factors.go,   *)
(* mfa_models.go) with the limit on failed attempts (attempts.go),         *)
(* passkeys (passkeys*.go, passkey_models.go) and OPAQUE (opaque.go,       *)
(* opaque_signup.go).                                                      *)
(*                                                                         *)
(* One account, its sessions and everything it enrols.  A request reads    *)
(* what it decides on in one step and writes in a later one; a step is one *)
(* statement or a transaction whose rows are locked.  Names are not used   *)
(* again: a row is "none" before it is inserted and "gone" when deleted.   *)
(* A request that is refused changes nothing unless an action says so.     *)
(***************************************************************************)
EXTENDS Naturals, FiniteSets

CONSTANTS
    Sessions, Factors, Challenges, Passkeys, Handshakes, Requests, None,
    AttemptLimit,     \* attemptLimits
    MaxFactors,       \* MFA.MaxEnrolledFactors, 0 for no limit
    MaxPasskeys,      \* maxPasskeysPerUser
    Capacity,         \* handshakes OPAQUE keeps open
    OpaqueLimit,      \* handshakes of an account in a minute
    Configs           \* [features : SUBSET Features, types : SUBSET FactorTypes,
                      \*  autoconfirm : BOOLEAN, maxEvents : Nat]: what is switched
                      \* on, and the bound on requests and other events

FactorTypes == {"totp", "phone", "webauthn"}
Features == {"mfa", "passkeys", "opaque"}

ASSUME FactorAssumption ==
    /\ None \notin Sessions \cup Factors \cup Challenges \cup Passkeys \cup Handshakes
    /\ AttemptLimit \in Nat \ {0} /\ MaxFactors \in Nat /\ MaxPasskeys \in Nat
    /\ Capacity \in Nat /\ OpaqueLimit \in Nat /\ IsFiniteSet(Requests)
    /\ Configs \subseteq [features : SUBSET Features, types : SUBSET FactorTypes,
                          autoconfirm : BOOLEAN, maxEvents : Nat]

VARIABLES
    conf,     \* the configuration, fixed for a behaviour
    acct,     \* the row of auth.users and its OPAQUE credential
    sess,     \* auth.sessions and the AAL2 methods in auth.mfa_amr_claims
    fac,      \* auth.mfa_factors
    chal,     \* auth.mfa_challenges and auth.webauthn_challenges
    tries,    \* dilion_auth.auth_attempts of each factor
    pass,     \* auth.webauthn_credentials
    hand,     \* dilion_auth.opaque_handshakes
    spray,    \* dilion_auth.opaque_attempts
    keys,     \* dilion_auth.opaque_session_keys
    req,      \* where each request stands
    events

vars == <<conf, acct, sess, fac, chal, tries, pass, hand, spray, keys, req, events>>

Event(feature) ==
    /\ feature \in conf.features
    /\ events < conf.maxEvents /\ events' = events + 1

-----------------------------------------------------------------------------
(***************************************************************************)
(* The account and its sessions.  `updated' is users.updated_at, `era' how *)
(* often the password was changed or the account deleted, `version' the    *)
(* newest OPAQUE version and `cred' the stored one, 0 for none.            *)
(***************************************************************************)

NoSession == [st |-> "none", aal |-> 1, factor |-> None, claims |-> {}, fresh |-> FALSE]
Live(s) == sess[s].st = "live"

\* grantSession: a session starts at aal1.
GrantSession(ss, s) == [ss EXCEPT ![s] = [NoSession EXCEPT !.st = "live", !.fresh = TRUE]]
Touched(a) == [a EXCEPT !.updated = @ + 1]
End(S) == [s \in Sessions |-> IF s \in S THEN [NoSession EXCEPT !.st = "gone"] ELSE sess[s]]

\* computeAAL.
ComputeAAL(s) == IF sess[s].claims = {} THEN 1 ELSE 2

HasVerifiedFactor == \E f \in Factors : fac[f].st = "verified"
StepUpRequired(s) == HasVerifiedFactor /\ ComputeAAL(s) # 2
RequirePasskeyManagementAAL(s) == ~StepUpRequired(s)

\* passwordGrant or another first factor, read and granted at once.
SignIn(s) ==
    /\ events < conf.maxEvents /\ events' = events + 1
    /\ acct.st = "live" /\ acct.ok /\ sess[s].st = "none"
    /\ sess' = GrantSession(sess, s)
    /\ acct' = Touched(acct)
    /\ UNCHANGED <<conf, fac, chal, tries, pass, hand, spray, keys, req>>

\* invalidate_opaque_credential: the trigger of a new password; the keys of
\* the credential go with it.
UpdatePassword ==
    /\ Event("opaque") /\ acct.st = "live"
    /\ acct' = [Touched(acct) EXCEPT !.era = @ + 1, !.cred = 0]
    /\ keys' = {}
    /\ UNCHANGED <<conf, sess, fac, chal, tries, pass, hand, spray, req>>

\* softDeleteUser, softDeleteUserCredentials and the sessions' deletion.
SoftDeleteUser ==
    /\ events < conf.maxEvents /\ events' = events + 1
    /\ acct.st = "live"
    /\ acct' = [Touched(acct) EXCEPT !.st = "deleted", !.era = @ + 1, !.cred = 0]
    /\ sess' = End({s \in Sessions : Live(s)})
    /\ fac' = [f \in Factors |-> IF fac[f].st = "none" THEN fac[f] ELSE [fac[f] EXCEPT !.st = "gone"]]
    /\ pass' = {} /\ keys' = {}
    /\ UNCHANGED <<conf, chal, tries, hand, spray, req>>

\* signupVerify of an account that OPAQUE signed up.
Confirm ==
    /\ Event("opaque") /\ acct.st = "live" /\ ~acct.ok
    /\ acct' = [Touched(acct) EXCEPT !.ok = TRUE]
    /\ UNCHANGED <<conf, sess, fac, chal, tries, pass, hand, spray, keys, req>>

\* Five minutes pass, or fifteen: challenges, enrolments, handshakes and
\* the freshness of a session end with the five, locks and keys with the
\* fifteen.
TimePasses(long) ==
    /\ events < conf.maxEvents /\ events' = events + 1
    /\ chal' = [c \in Challenges |-> [chal[c] EXCEPT !.old = chal[c].st # "none"]]
    /\ fac' = [f \in Factors |-> [fac[f] EXCEPT !.old = fac[f].st # "none", !.recent = FALSE]]
    /\ hand' = [h \in Handshakes |-> [hand[h] EXCEPT !.old = hand[h].st # "none"]]
    /\ sess' = [s \in Sessions |-> [sess[s] EXCEPT !.fresh = FALSE]]
    /\ spray' = 0
    /\ tries' = IF long THEN [f \in Factors |-> [tries[f] EXCEPT !.open = FALSE, !.wrong = 0]] ELSE tries
    /\ keys' = IF long THEN {} ELSE keys
    /\ UNCHANGED <<conf, acct, pass, req>>

-----------------------------------------------------------------------------
(***************************************************************************)
(* Requests.                                                               *)
(***************************************************************************)

Idle == [pc |-> "idle", s |-> None, f |-> None, c |-> None, h |-> None, type |-> None,
         marks |-> {}, recorded |-> FALSE]
Begin(r, q) == req[r].pc = "idle" /\ req' = [req EXCEPT ![r] = q]
Go(r, pc) == req' = [req EXCEPT ![r].pc = pc]
Finish(r) == req' = [req EXCEPT ![r] = Idle]

NoFactor == [st |-> "none", type |-> None, num |-> 0, old |-> FALSE, recent |-> FALSE]
NoChallenge == [st |-> "none", kind |-> None, f |-> None, num |-> 0, old |-> FALSE, grants |-> 0]
Enrolled(f) == fac[f].st \in {"unverified", "verified"}

\* deleteExpiredFactors, with the deletion of an unverified factor that has
\* the number which is enrolled.
Expired(f) == /\ fac[f].st = "unverified" /\ fac[f].old
              /\ \A c \in Challenges : chal[c].f = f => chal[c].st = "gone"
Replaced(f, type) == type = "phone" /\ fac[f].type = "phone" /\ fac[f].st = "unverified"

\* validateFactors, for enrollTOTPFactor, enrollPhoneFactor and
\* enrollWebAuthnFactor: what it finds is not locked.
EnrollFactor(r, s, type) ==
    LET left == {f \in Factors : Enrolled(f) /\ ~Replaced(f, type) /\ ~Expired(f)}
    IN  /\ Event("mfa") /\ Live(s) /\ type \in conf.types
        /\ ~\E f \in left : fac[f].type = "phone" /\ type = "phone"
        /\ MaxFactors > 0 => Cardinality(left) < MaxFactors
        /\ RequirePasskeyManagementAAL(s)
        /\ fac' = [f \in Factors |-> IF Enrolled(f) /\ f \notin left THEN [fac[f] EXCEPT !.st = "gone"] ELSE fac[f]]
        /\ Begin(r, [Idle EXCEPT !.pc = "enrolling", !.s = s, !.type = type])
        /\ UNCHANGED <<conf, acct, sess, chal, tries, pass, hand, spray, keys>>

\* insertFactor: a second factor with the number is refused by its index.
InsertFactor(r, f) ==
    /\ req[r].pc = "enrolling" /\ fac[f].st = "none"
    /\ IF req[r].type = "phone" /\ \E g \in Factors : Enrolled(g) /\ fac[g].type = "phone"
       THEN UNCHANGED fac
       ELSE fac' = [fac EXCEPT ![f] = [NoFactor EXCEPT !.st = "unverified", !.type = req[r].type]]
    /\ Finish(r)
    /\ UNCHANGED <<conf, acct, sess, chal, tries, pass, hand, spray, keys, events>>

\* challengePhoneFactor: a text message is held back by the frequency.
TooSoon(f) == fac[f].type = "phone" /\ fac[f].recent

\* challengeWebAuthnFactor: what is asked for depends on the factor's status.
Ceremony(f) == IF fac[f].st = "unverified" THEN "create" ELSE "request"

ChallengeFactor(s, f, c) ==
    /\ Event("mfa") /\ Live(s) /\ Enrolled(f) /\ chal[c].st = "none"
    /\ ~TooSoon(f)
    /\ chal' = [chal EXCEPT ![c] = [NoChallenge EXCEPT !.st = "open", !.f = f, !.num = fac[f].num,
                                        !.kind = Ceremony(f)]]
    /\ fac' = [fac EXCEPT ![f].recent = TRUE]
    /\ UNCHANGED <<conf, acct, sess, tries, pass, hand, spray, keys, req>>

-----------------------------------------------------------------------------
(***************************************************************************)
(* Verification, under the limit on failed attempts.  The count is read    *)
(* before the secret is compared and written after.                        *)
(***************************************************************************)

\* Variants named Mut... are plausible slips of the code; each breaks a property.
MutLockedNever(f) == FALSE

Locked(f) == tries[f].open /\ tries[f].n >= AttemptLimit

\* validateChallenge: one that has expired is deleted.
Answerable(f, c) == chal[c].st = "open" /\ chal[c].f = f

\* verifyPhoneFactor: a code for another number is not right.
RightNumber(f, c) == chal[c].num = fac[f].num

\* verifyWebAuthnFactor: the response answers what the status now asks for.
RightCeremony(f, c) == chal[c].kind = Ceremony(f)

\* Whether what the user presents can be right.
RightCode(f, c) ==
    /\ fac[f].type = "phone" => RightNumber(f, c)
    /\ fac[f].type = "webauthn" => RightCeremony(f, c)

\* verifyFactor, up to its answer to the code.
VerifyFactor(r, s, f, c, right) ==
    /\ Event("mfa") /\ Live(s) /\ Enrolled(f) /\ ~Locked(f) /\ Answerable(f, c)
    /\ IF chal[c].old
       THEN /\ chal' = [chal EXCEPT ![c].st = "gone"]
            /\ UNCHANGED <<req, tries>>
       ELSE /\ right => RightCode(f, c)
            /\ Begin(r, [Idle EXCEPT !.pc = IF right THEN "verified" ELSE "failed", !.s = s, !.f = f,
                                     !.c = c, !.recorded = tries[f].n > 0])
            /\ tries' = IF right THEN tries ELSE [tries EXCEPT ![f].wrong = @ + 1]
            /\ UNCHANGED chal
    /\ UNCHANGED <<conf, acct, sess, fac, pass, hand, spray, keys>>

\* throttled, after a wrong code.
RecordFailure(r) ==
    LET f == req[r].f
    IN  /\ req[r].pc = "failed"
        /\ tries' = [tries EXCEPT ![f].n = IF tries[f].open THEN @ + 1 ELSE 1, ![f].open = TRUE]
        /\ Finish(r)
        /\ UNCHANGED <<conf, acct, sess, fac, chal, pass, hand, spray, keys, events>>

\* The claims of a session another request is taking away are locked.
ClaimLocked(s, type) ==
    \E q \in Requests : req[q].pc = "marked" /\ s \in req[q].marks /\ fac[req[q].f].type = type

\* deleteUnverifiedFactors of the type.
Leftover(g, f, st) == g # f /\ st[g].st = "unverified" /\ st[g].type = st[f].type

\* finalizeFactorVerification: a factor that has gone meanwhile is not
\* missed.  A session that has gone takes the claim's reference with it, and the request fails.
FinalizeFactorVerification(r) ==
    LET s == req[r].s
        f == req[r].f
        now == [fac EXCEPT ![f].st = IF @ = "unverified" THEN "verified" ELSE @]
    IN  /\ req[r].pc = "verified"
        /\ ~ClaimLocked(s, fac[f].type)
        /\ IF Live(s)
           THEN /\ sess' = [t \in Sessions |->
                      CASE t = s -> [sess[t] EXCEPT !.aal = 2, !.factor = f, !.claims = @ \cup {fac[f].type}]
                        [] t # s -> IF Live(t) /\ sess[t].aal < 2 THEN [NoSession EXCEPT !.st = "gone"]
                                    ELSE sess[t]]
                /\ fac' = [g \in Factors |->
                              IF Leftover(g, f, now) THEN [now[g] EXCEPT !.st = "gone"] ELSE now[g]]
                /\ chal' = [chal EXCEPT ![req[r].c].st = IF @ = "gone" THEN @ ELSE "used"]
                /\ keys' = {k \in keys : k.s = s \/ sess[k.s].aal = 2}
                /\ Go(r, "clearing")
           ELSE Finish(r) /\ UNCHANGED <<sess, fac, chal, keys>>
        /\ UNCHANGED <<conf, acct, tries, pass, hand, spray, events>>

\* throttled, after a right one.
ClearAttempts(r) ==
    /\ req[r].pc = "clearing"
    /\ tries' = IF req[r].recorded THEN [tries EXCEPT ![req[r].f] = [open |-> FALSE, n |-> 0, wrong |-> 0]]
                ELSE [tries EXCEPT ![req[r].f].wrong = 0]
    /\ Finish(r)
    /\ UNCHANGED <<conf, acct, sess, fac, chal, pass, hand, spray, keys, events>>

-----------------------------------------------------------------------------
(***************************************************************************)
(* Removal of a factor.                                                    *)
(***************************************************************************)

\* unenrollFactor; adminDeleteFactor has no session.
UnenrollFactor(r, s, f) ==
    /\ Event("mfa") /\ Enrolled(f)
    /\ s # None => Live(s) /\ (fac[f].st = "verified" => ComputeAAL(s) = 2)
    /\ Begin(r, [Idle EXCEPT !.pc = "unenrolling", !.s = s, !.f = f])
    /\ UNCHANGED <<conf, acct, sess, fac, chal, tries, pass, hand, spray, keys>>

AdminDeleteFactor(r, f) == UnenrollFactor(r, None, f)

\* deleteAMRClaimForFactorSessions: the first of the three statements of
\* downgradeAndDeleteFactor sees the sessions the factor has then.
DeleteAMRClaims(r) ==
    /\ req[r].pc = "unenrolling"
    /\ req' = [req EXCEPT ![r].pc = "marked",
                          ![r].marks = {s \in Sessions : Live(s) /\ sess[s].factor = req[r].f}]
    /\ UNCHANGED <<conf, acct, sess, fac, chal, tries, pass, hand, spray, keys, events>>

MutDowngradeClaimsOnly(r) ==
    LET f == req[r].f
    IN  [s \in Sessions |->
            [sess[s] EXCEPT !.claims = IF s \in req[r].marks /\ Live(s) THEN @ \ {fac[f].type} ELSE @]]

\* ... and clearFactorAssociatedSessions, the sessions it has later.
Downgraded(r) ==
    LET f == req[r].f
    IN  [s \in Sessions |->
            [sess[s] EXCEPT !.claims = IF s \in req[r].marks /\ Live(s) THEN @ \ {fac[f].type} ELSE @,
                            !.aal = IF sess[s].factor = f THEN 1 ELSE @,
                            !.factor = IF @ = f THEN None ELSE @]]

DowngradeAndDeleteFactor(r) ==
    /\ req[r].pc = "marked"
    /\ sess' = Downgraded(r)
    /\ fac' = [fac EXCEPT ![req[r].f].st = "gone"]
    /\ chal' = [c \in Challenges |-> IF chal[c].f = req[r].f THEN [chal[c] EXCEPT !.st = "gone"] ELSE chal[c]]
    /\ Finish(r)
    /\ UNCHANGED <<conf, acct, tries, pass, hand, spray, keys, events>>

\* adminUpdateFactor with another number.
AdminUpdateFactor(f) ==
    /\ Event("mfa") /\ Enrolled(f) /\ fac[f].type = "phone"
    /\ fac' = [fac EXCEPT ![f].num = 1 - @]
    /\ UNCHANGED <<conf, acct, sess, chal, tries, pass, hand, spray, keys, req>>

-----------------------------------------------------------------------------
(***************************************************************************)
(* Passkeys.                                                               *)
(***************************************************************************)

\* insertPasskeyChallenge, after which expired challenges are purged.
InsertPasskeyChallenge(c, kind) ==
    /\ chal[c].st = "none"
    /\ chal' = [d \in Challenges |->
                   IF d = c THEN [NoChallenge EXCEPT !.st = "open", !.kind = kind]
                   ELSE IF chal[d].f = None /\ chal[d].old THEN [chal[d] EXCEPT !.st = "gone"] ELSE chal[d]]

PasskeyRegistrationOptions(s, c) ==
    /\ Event("passkeys") /\ Live(s) /\ RequirePasskeyManagementAAL(s)
    /\ Cardinality(pass) < MaxPasskeys
    /\ InsertPasskeyChallenge(c, "registration")
    /\ UNCHANGED <<conf, acct, sess, fac, tries, pass, hand, spray, keys, req>>

PasskeyAuthenticationOptions(c) ==
    /\ Event("passkeys")
    /\ InsertPasskeyChallenge(c, "authentication")
    /\ UNCHANGED <<conf, acct, sess, fac, tries, pass, hand, spray, keys, req>>

MutConsumeReadsOnly(c, kind) == chal[c].st = "open" /\ chal[c].kind = kind /\ UNCHANGED chal

\* consumePasskeyChallenge: DELETE ... RETURNING, by its kind.
ConsumePasskeyChallenge(c, kind) ==
    /\ chal[c].st = "open" /\ chal[c].kind = kind
    /\ chal' = [chal EXCEPT ![c].st = "gone"]

\* Both ceremonies use the challenge up before anything else is checked.
PasskeyRegistrationVerify(r, s, c) ==
    /\ Event("passkeys") /\ Live(s) /\ RequirePasskeyManagementAAL(s)
    /\ ConsumePasskeyChallenge(c, "registration")
    /\ IF chal[c].old THEN UNCHANGED req ELSE Begin(r, [Idle EXCEPT !.pc = "attested", !.s = s, !.c = c])
    /\ UNCHANGED <<conf, acct, sess, fac, tries, pass, hand, spray, keys>>

\* countPasskeys: counted in the transaction, but nothing is locked.
CountPasskeys(r) ==
    /\ req[r].pc = "attested"
    /\ IF Cardinality(pass) < MaxPasskeys THEN Go(r, "counted") ELSE Finish(r)
    /\ UNCHANGED <<conf, acct, sess, fac, chal, tries, pass, hand, spray, keys, events>>

InsertPasskey(r, p) ==
    /\ req[r].pc = "counted" /\ p \notin pass
    /\ pass' = pass \cup {p}
    /\ Finish(r)
    /\ UNCHANGED <<conf, acct, sess, fac, chal, tries, hand, spray, keys, events>>

PasskeyAuthenticationVerify(r, c, p) ==
    /\ Event("passkeys")
    /\ ConsumePasskeyChallenge(c, "authentication")
    /\ IF chal[c].old \/ p \notin pass \/ acct.st # "live" THEN UNCHANGED req
       ELSE Begin(r, [Idle EXCEPT !.pc = "asserted", !.c = c])
    /\ UNCHANGED <<conf, acct, sess, fac, tries, pass, hand, spray, keys>>

\* The session is granted to the account as it was read.
GrantPasskeySession(r, s) ==
    /\ req[r].pc = "asserted" /\ sess[s].st = "none"
    /\ sess' = GrantSession(sess, s)
    /\ acct' = Touched(acct)
    /\ chal' = [chal EXCEPT ![req[r].c].grants = @ + 1]
    /\ Finish(r)
    /\ UNCHANGED <<conf, fac, tries, pass, hand, spray, keys, events>>

PasskeyDelete(s, p) ==
    /\ Event("passkeys") /\ p \in pass
    /\ s # None => Live(s) /\ RequirePasskeyManagementAAL(s)
    /\ pass' = pass \ {p}
    /\ UNCHANGED <<conf, acct, sess, fac, chal, tries, hand, spray, keys, req>>

AdminPasskeyDelete(p) == PasskeyDelete(None, p)

-----------------------------------------------------------------------------
(***************************************************************************)
(* OPAQUE.  A ceremony is a start, which stores its state, and a finish,   *)
(* which takes the state and then runs its transaction; opaqueUser locks   *)
(* the account there, so the transaction is one step.                      *)
(***************************************************************************)

NoHandshake == [st |-> "none", kind |-> None, s |-> None, updated |-> 0, version |-> 0, era |-> 0, old |-> FALSE]

\* putOpaqueState: the number of handshakes is counted under a lock.
PutOpaqueState(h, state) ==
    /\ hand[h].st = "none"
    /\ Cardinality({g \in Handshakes : hand[g].st = "open" /\ ~hand[g].old}) < Capacity
    /\ hand' = [hand EXCEPT ![h] = [state EXCEPT !.st = "open", !.era = acct.era]]

\* takeOpaqueState: whatever happens next, the state is gone.
TakeOpaqueState(r, h, kind) ==
    /\ hand[h].st = "open" /\ hand[h].kind = kind
    /\ hand' = [hand EXCEPT ![h].st = "gone"]
    /\ IF hand[h].old THEN UNCHANGED req ELSE Begin(r, [Idle EXCEPT !.pc = kind, !.h = h])

OpaqueUser == acct.st = "live" /\ acct.ok
OpaqueEnrollmentUser(s) == OpaqueUser /\ Live(s) /\ sess[s].fresh /\ RequirePasskeyManagementAAL(s)

OpaqueRegistrationStart(s, h) ==
    /\ Event("opaque") /\ OpaqueEnrollmentUser(s)
    /\ PutOpaqueState(h, [NoHandshake EXCEPT !.kind = "registration", !.s = s, !.updated = acct.updated,
                                             !.version = acct.cred])
    /\ UNCHANGED <<conf, acct, sess, fac, chal, tries, pass, spray, keys, req>>

OpaqueRegistrationFinish(r, h) ==
    /\ Event("opaque") /\ hand[h].s # None /\ Live(hand[h].s)
    /\ TakeOpaqueState(r, h, "registration")
    /\ UNCHANGED <<conf, acct, sess, fac, chal, tries, pass, spray, keys>>

MutReplacesAnyway(h) == OpaqueEnrollmentUser(hand[h].s) /\ acct.cred = hand[h].version

\* What the enrolment was started from is what is there.
Unchanged(h) ==
    OpaqueEnrollmentUser(hand[h].s) /\ acct.updated = hand[h].updated /\ acct.cred = hand[h].version

\* Delete and insert: the keys of the old version go.
CommitRegistration(r) ==
    /\ req[r].pc = "registration"
    /\ IF Unchanged(req[r].h)
       THEN /\ acct' = [acct EXCEPT !.version = @ + 1, !.cred = acct.version + 1, !.by = req[r].h]
            /\ keys' = {}
       ELSE UNCHANGED <<acct, keys>>
    /\ Finish(r)
    /\ UNCHANGED <<conf, sess, fac, chal, tries, pass, hand, spray, events>>

\* The account's own limit is counted by one statement.
OpaqueAttempt == spray < OpaqueLimit /\ spray' = spray + 1

OpaqueSignupStart(h) ==
    /\ Event("opaque") /\ OpaqueAttempt
    /\ PutOpaqueState(h, [NoHandshake EXCEPT !.kind = "signup"])
    /\ UNCHANGED <<conf, acct, sess, fac, chal, tries, pass, keys, req>>

OpaqueSignupFinish(r, h) ==
    /\ Event("opaque") /\ TakeOpaqueState(r, h, "signup")
    /\ UNCHANGED <<conf, acct, sess, fac, chal, tries, pass, spray, keys>>

\* An account that is there is left as it is, by the lookup or by the
\* unique index on the address.
CommitSignup(r) ==
    /\ req[r].pc = "signup"
    /\ acct' = IF acct.st # "none" THEN acct
               ELSE [acct EXCEPT !.st = "live", !.ok = conf.autoconfirm, !.version = 1, !.cred = 1, !.by = req[r].h]
    /\ Finish(r)
    /\ UNCHANGED <<conf, sess, fac, chal, tries, pass, hand, spray, keys, events>>

\* An address without a credential gets a made-up handshake.
OpaqueLoginStart(h) ==
    /\ Event("opaque") /\ OpaqueAttempt
    /\ PutOpaqueState(h, [NoHandshake EXCEPT !.kind = "login", !.version = acct.cred])
    /\ UNCHANGED <<conf, acct, sess, fac, chal, tries, pass, keys, req>>

OpaqueLoginFinish(r, h) ==
    /\ Event("opaque") /\ hand[h].version # 0
    /\ TakeOpaqueState(r, h, "login")
    /\ UNCHANGED <<conf, acct, sess, fac, chal, tries, pass, spray, keys>>

CommitLogin(r, s) ==
    LET h == req[r].h
    IN  /\ req[r].pc = "login" /\ sess[s].st = "none"
        /\ IF OpaqueUser /\ acct.cred = hand[h].version
           THEN /\ sess' = GrantSession(sess, s)
                /\ acct' = Touched(acct)
                /\ keys' = keys \cup {[s |-> s, version |-> hand[h].version, h |-> h]}
           ELSE UNCHANGED <<sess, acct, keys>>
        /\ Finish(r)
        /\ UNCHANGED <<conf, fac, chal, tries, pass, hand, spray, events>>

\* withOpaqueSessionKey: the keys somebody may use.
UsableKeys == {k \in keys : OpaqueUser /\ Live(k.s) /\ RequirePasskeyManagementAAL(k.s)}

-----------------------------------------------------------------------------
Init ==
    /\ conf \in Configs
    /\ acct \in {[st |-> st, ok |-> st = "live", updated |-> 0, era |-> 0, version |-> 0, cred |-> 0, by |-> None] :
                    st \in IF "opaque" \in conf.features THEN {"none", "live"} ELSE {"live"}}
    /\ sess = [s \in Sessions |-> NoSession]
    /\ fac = [f \in Factors |-> NoFactor]
    /\ chal = [c \in Challenges |-> NoChallenge]
    /\ tries = [f \in Factors |-> [open |-> FALSE, n |-> 0, wrong |-> 0]]
    /\ pass \in {P \in SUBSET Passkeys : Cardinality(P) <= IF "passkeys" \in conf.features THEN 1 ELSE 0}
    /\ keys = {} /\ spray = 0
    /\ hand = [h \in Handshakes |-> NoHandshake]
    /\ req = [r \in Requests |-> Idle]
    /\ events = 0

FactorStep(r) ==
    \/ \E s \in Sessions, type \in FactorTypes : EnrollFactor(r, s, type)
    \/ \E f \in Factors : InsertFactor(r, f)
    \/ \E s \in Sessions, f \in Factors, c \in Challenges, right \in BOOLEAN : VerifyFactor(r, s, f, c, right)
    \/ RecordFailure(r) \/ FinalizeFactorVerification(r) \/ ClearAttempts(r)
    \/ \E s \in Sessions, f \in Factors : UnenrollFactor(r, s, f)
    \/ \E f \in Factors : AdminDeleteFactor(r, f)
    \/ DeleteAMRClaims(r) \/ DowngradeAndDeleteFactor(r)

PasskeyStep(r) ==
    \/ \E s \in Sessions, c \in Challenges : PasskeyRegistrationVerify(r, s, c)
    \/ CountPasskeys(r)
    \/ \E p \in Passkeys : InsertPasskey(r, p) \/ \E c \in Challenges : PasskeyAuthenticationVerify(r, c, p)
    \/ \E s \in Sessions : GrantPasskeySession(r, s)

OpaqueStep(r) ==
    \/ \E h \in Handshakes :
          OpaqueRegistrationFinish(r, h) \/ OpaqueSignupFinish(r, h) \/ OpaqueLoginFinish(r, h)
    \/ CommitRegistration(r) \/ CommitSignup(r)
    \/ \E s \in Sessions : CommitLogin(r, s)

Next ==
    \/ \E s \in Sessions : SignIn(s)
    \/ UpdatePassword \/ SoftDeleteUser \/ Confirm
    \/ \E long \in BOOLEAN : TimePasses(long)
    \/ \E r \in Requests : FactorStep(r) \/ PasskeyStep(r) \/ OpaqueStep(r)
    \/ \E s \in Sessions, f \in Factors, c \in Challenges : ChallengeFactor(s, f, c)
    \/ \E f \in Factors : AdminUpdateFactor(f)
    \/ \E c \in Challenges :
          PasskeyAuthenticationOptions(c) \/ \E s \in Sessions : PasskeyRegistrationOptions(s, c)
    \/ \E p \in Passkeys : AdminPasskeyDelete(p) \/ \E s \in Sessions : PasskeyDelete(s, p)
    \/ \E h \in Handshakes :
          \/ OpaqueSignupStart(h) \/ OpaqueLoginStart(h)
          \/ \E s \in Sessions : OpaqueRegistrationStart(s, h)

Spec == Init /\ [][Next]_vars

-----------------------------------------------------------------------------
(***************************************************************************)
(* Properties.                                                             *)
(***************************************************************************)

\* Guessing is bounded: between two right codes of a factor, and before its
\* window ends, no more wrong ones are compared than the limit and one for
\* every other request that was under way when the count was read.
GuessesBounded ==
    \A f \in Factors : tries[f].wrong <= AttemptLimit + Cardinality(Requests) - 1

\* The two places that say how a session was verified never disagree the
\* dangerous way: a session whose row says aal2, which spares it when a
\* factor is verified, has an AMR claim that says so as well, whatever is
\* verified and removed at the same time.
ClaimsBackAAL2 ==
    \A s \in Sessions : Live(s) /\ sess[s].aal = 2 => sess[s].factor # None /\ ComputeAAL(s) = 2

\* A passkey challenge signs in once, however many requests answer it.
OneAnswerPerChallenge == \A c \in Challenges : chal[c].grants <= 1

\* A new password and the deletion of the account cannot race OPAQUE:
\* what a ceremony started before them gets is neither a credential nor a
\* session key that can be used.
OpaqueCannotRace ==
    /\ acct.cred # 0 /\ acct.st = "live" => hand[acct.by].era = acct.era
    /\ \A k \in UsableKeys : k.version = acct.cred /\ hand[k.h].era = acct.era

\* Two parallel registrations do not squeeze past the limit on passkeys.
PasskeyLimit == Cardinality(pass) <= MaxPasskeys
=============================================================================
