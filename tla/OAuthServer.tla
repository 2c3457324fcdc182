----------------------------- MODULE OAuthServer -----------------------------
(***************************************************************************)
(* The OAuth 2.1 server: applications ("clients"), what they ask for       *)
(* (auth.oauth_authorizations), what users agreed to (auth.oauth_consents) *)
(* and the sessions bought with a code (oauthserver*.go).                  *)
(*                                                                         *)
(* A request reads in one step and writes in a later one.  A transaction   *)
(* holds the row of its authorization, and another that wants the row goes *)
(* on without it (FOR UPDATE SKIP LOCKED).  A request that is refused      *)
(* changes nothing unless an action says so; one whose redirect address,   *)
(* resource, PKCE verifier or secret does not match is refused.            *)
(***************************************************************************)
EXTENDS Naturals, FiniteSets

CONSTANTS
    Users, Clients, Scopes, Authorizations, Sessions, Requests, None,
    Configs     \* [users : SUBSET Users, stored, code, first : SUBSET Clients, reuse, timebox : BOOLEAN,
                \*  features : SUBSET Features, maxEvents : Nat]: users, who is there, stored,
                \* clients with a row, code, those the resolver answers for, first, the ones of
                \* them that need no consent, reuse, a reuse interval is set, timebox, sessions
                \* end, features, what happens beside the flow, maxEvents, bound on requests
                \* and other events

Features == {"refresh", "admin", "accounts"}

ASSUME OAuthAssumption ==
    /\ None \notin Users \cup Clients \cup Authorizations \cup Requests
    /\ Configs \subseteq [users : SUBSET Users, stored : SUBSET Clients, code : SUBSET Clients, first : SUBSET Clients,
                          reuse : BOOLEAN, timebox : BOOLEAN, features : SUBSET Features, maxEvents : Nat]
    /\ \A k \in Configs : k.first \subseteq k.code /\ k.code \cap k.stored = {}

VARIABLES
    conf,       \* the configuration, fixed for a behaviour
    acct,       \* the state of each account
    client,     \* auth.oauth_clients
    authz,      \* auth.oauth_authorizations
    consent,    \* auth.oauth_consents, with how often each was revoked
    sess,       \* auth.sessions of clients, with their refresh tokens
    req,        \* where each request stands
    events,
    agreed      \* what each user approved for each client, ever

vars == <<conf, acct, client, authz, consent, sess, req, events, agreed>>

Grants == {"authorization_code", "refresh_token"}
Uris == {"old", "new"}

Event == events < conf.maxEvents /\ events' = events + 1
EventOf(feature) == feature \in conf.features /\ Event

Idle == [pc |-> "idle", c |-> None, o |-> None, s |-> None, tok |-> 0, scopes |-> {}, read |-> 0, row |-> None]
Begin(r, q) == req[r].pc = "idle" /\ req' = [req EXCEPT ![r] = q]
Finish(r) == req' = [req EXCEPT ![r] = Idle]

-----------------------------------------------------------------------------
(***************************************************************************)
(* Clients.  A row is written as a whole; `issued' is the newest secret    *)
(* the client was given.                                                   *)
(***************************************************************************)

NoClient == [st |-> "none", secret |-> 0, issued |-> 0, grants |-> Grants, uri |-> "old"]

\* oauthClientByID: the resolver first, then the row, if it is not deleted.
FindClient(c) == c \in conf.code \/ client[c].st = "live"

IsRegisteredRedirectURI(c, uri) == c \in conf.code \/ client[c].uri = uri

\* requireOAuthClientAuth: a client presents its newest secret.
AuthenticateClient(c, grant) ==
    /\ FindClient(c)
    /\ c \notin conf.code => client[c].secret = client[c].issued /\ grant \in client[c].grants

\* registerOAuthClient: a public client has no secret.
RegisterClient(c, public) ==
    /\ Event /\ c \in conf.stored /\ client[c].st = "none"
    /\ client' = [client EXCEPT ![c] = [NoClient EXCEPT !.st = "live", !.secret = IF public THEN 0 ELSE 1,
                                                        !.issued = IF public THEN 0 ELSE 1]]
    /\ UNCHANGED <<conf, acct, authz, consent, sess, req, agreed>>

\* adminUpdateOAuthClient and adminRegenerateOAuthClientSecret read the row.
UpdateClient(r, c, uri, grants) ==
    /\ EventOf("admin") /\ client[c].st = "live" /\ <<uri, grants>> # <<client[c].uri, client[c].grants>>
    /\ Begin(r, [Idle EXCEPT !.pc = "updating", !.c = c,
                             !.row = [client[c] EXCEPT !.uri = uri, !.grants = grants]])
    /\ UNCHANGED <<conf, acct, client, authz, consent, sess, agreed>>

RegenerateSecret(r, c) ==
    /\ EventOf("admin") /\ client[c].st = "live" /\ client[c].secret > 0
    /\ Begin(r, [Idle EXCEPT !.pc = "updating", !.c = c,
                             !.row = [client[c] EXCEPT !.secret = client[c].issued + 1,
                                                 !.issued = client[c].issued + 1]])
    /\ UNCHANGED <<conf, acct, client, authz, consent, sess, agreed>>

\* updateOAuthClient: every column, of the row as it was read.
WriteClient(r) ==
    LET c == req[r].c
        row == req[r].row
    IN  /\ req[r].pc = "updating"
        /\ client' = IF client[c].st = "live"
                     THEN [client EXCEPT ![c] = [row EXCEPT !.issued = IF row.issued > client[c].issued
                                                                       THEN row.issued ELSE client[c].issued]]
                     ELSE client
        /\ Finish(r)
        /\ UNCHANGED <<conf, acct, authz, consent, sess, events, agreed>>

-----------------------------------------------------------------------------
(***************************************************************************)
(* Consent and sessions.                                                   *)
(***************************************************************************)

NoSession == [st |-> "none", u |-> None, c |-> None, scopes |-> {}, auth |-> None, tok |-> 0,
              recent |-> {}, old |-> FALSE, read |-> 0, born |-> 0]
Live(s) == sess[s].st = "live"
End(S) == [s \in Sessions |-> IF s \in S THEN [sess[s] EXCEPT !.st = "gone"] ELSE sess[s]]

\* Variants named Mut... are plausible slips of the code; each breaks a property.
MutFindActiveConsentAnyScope(u, c, scopes) == consent[u, c].st = "active"

\* findActiveOAuthConsent and HasAllScopes.
FindActiveConsent(u, c, scopes) == consent[u, c].st = "active" /\ scopes \subseteq consent[u, c].scopes

\* upsertOAuthConsent: the scopes replace the ones there were.
UpsertConsent(u, c, scopes) == [consent EXCEPT ![<<u, c>>] = [@ EXCEPT !.st = "active", !.scopes = scopes]]

Revoked(P) == [p \in Users \X Clients |->
                  IF p \in P /\ consent[p].st = "active"
                  THEN [consent[p] EXCEPT !.st = "revoked", !.times = @ + 1] ELSE consent[p]]

MutRevokeGrantOnly(u, c) ==
    /\ Event /\ acct[u] = "live" /\ consent[u, c].st = "active"
    /\ consent' = Revoked({<<u, c>>})
    /\ UNCHANGED <<conf, acct, client, authz, sess, req, agreed>>

\* userRevokeOAuthGrant, with revokeOAuthConsent and revokeOAuthSessions:
\* without an active consent there is nothing to revoke.
RevokeGrant(u, c) ==
    /\ Event /\ acct[u] = "live" /\ consent[u, c].st = "active"
    /\ consent' = Revoked({<<u, c>>})
    /\ sess' = End({s \in Sessions : Live(s) /\ sess[s].u = u /\ sess[s].c = c})
    /\ UNCHANGED <<conf, acct, client, authz, req, agreed>>

\* adminDeleteOAuthClient.
DeleteClient(c) ==
    /\ EventOf("admin") /\ client[c].st = "live"
    /\ client' = [client EXCEPT ![c].st = "deleted"]
    /\ consent' = Revoked(Users \X {c})
    /\ sess' = End({s \in Sessions : Live(s) /\ sess[s].c = c})
    /\ UNCHANGED <<conf, acct, authz, req, agreed>>

\* adminUpdateUser with a ban, softDeleteUser: the sessions end.
SwitchOff(u, st) ==
    /\ EventOf("accounts") /\ acct[u] = "live"
    /\ acct' = [acct EXCEPT ![u] = st]
    /\ sess' = End({s \in Sessions : Live(s) /\ sess[s].u = u})
    /\ UNCHANGED <<conf, client, authz, consent, req, agreed>>

\* Three minutes pass: authorizations and the reuse interval end.
TimePasses ==
    /\ Event
    /\ authz' = [o \in Authorizations |-> [authz[o] EXCEPT !.old = authz[o].st # "none"]]
    /\ sess' = [s \in Sessions |-> [sess[s] EXCEPT !.recent = {}, !.old = Live(s) /\ conf.timebox]]
    /\ UNCHANGED <<conf, acct, client, consent, req, agreed>>

-----------------------------------------------------------------------------
(***************************************************************************)
(* From the request to the code.                                           *)
(***************************************************************************)

NoAuthorization == [st |-> "none", c |-> None, u |-> None, scopes |-> {}, old |-> FALSE,
                    lock |-> None, read |-> 0]

\* oauthAuthorize, with validateRemainingAuthorizeParams.
Authorize(r, c, uri, scopes) ==
    /\ Event /\ FindClient(c) /\ IsRegisteredRedirectURI(c, uri) /\ scopes # {}
    /\ Begin(r, [Idle EXCEPT !.pc = "authorizing", !.c = c, !.scopes = scopes])
    /\ UNCHANGED <<conf, acct, client, authz, consent, sess, agreed>>

\* The row of a client the resolver answers for is deleted from the start.
EnsureOAuthClientRow(c) ==
    IF c \in conf.code /\ client[c].st = "none" THEN [client EXCEPT ![c].st = "deleted"] ELSE client

InsertAuthorization(r, o) ==
    LET c == req[r].c
    IN  /\ req[r].pc = "authorizing" /\ authz[o].st = "none"
        /\ authz' = [authz EXCEPT ![o] = [NoAuthorization EXCEPT !.st = "pending", !.c = c, !.scopes = req[r].scopes]]
        /\ client' = EnsureOAuthClientRow(c)
        /\ Finish(r)
        /\ UNCHANGED <<conf, acct, consent, sess, events, agreed>>

\* lockPendingAuthorization finds the row past its time: the mark is
\* committed although the request fails.
MarkExpired(o) ==
    /\ Event /\ authz[o].lock = None /\ authz[o].st = "pending" /\ authz[o].old
    /\ authz' = [authz EXCEPT ![o].st = "expired"]
    /\ UNCHANGED <<conf, acct, client, consent, sess, req, agreed>>

LockPendingAuthorization(o) == authz[o].st = "pending" /\ authz[o].lock = None /\ ~authz[o].old

\* approveOAuthAuthorization: `read' is how often the consent it rests on
\* had been revoked when it was read.
Approved(o, read) == [authz EXCEPT ![o].st = "approved", ![o].lock = None, ![o].read = read]

\* oauthGetAuthorization: claims the authorization and asks, or is about to
\* approve it, holding the row.
GetAuthorization(r, u, o) ==
    LET c == authz[o].c
        told == authz[o].u = None /\ FindActiveConsent(u, c, authz[o].scopes)
    IN  /\ Event /\ acct[u] = "live" /\ LockPendingAuthorization(o) /\ authz[o].u \in {None, u}
        /\ told \/ FindClient(c)
        /\ IF told \/ c \in conf.first
           THEN /\ authz' = [authz EXCEPT ![o].u = u, ![o].lock = r]
                /\ Begin(r, [Idle EXCEPT !.pc = "approving", !.o = o, !.read = consent[u, c].times])
           ELSE authz' = [authz EXCEPT ![o].u = u] /\ UNCHANGED req
        /\ UNCHANGED <<conf, acct, client, consent, sess, agreed>>

AutoApprove(r) ==
    /\ req[r].pc = "approving"
    /\ authz' = Approved(req[r].o, req[r].read)
    /\ Finish(r)
    /\ UNCHANGED <<conf, acct, client, consent, sess, events, agreed>>

\* oauthConsent.
Approve(u, o) ==
    LET c == authz[o].c
    IN  /\ Event /\ acct[u] = "live" /\ LockPendingAuthorization(o) /\ authz[o].u = u
        /\ authz' = Approved(o, consent[u, c].times)
        /\ consent' = UpsertConsent(u, c, authz[o].scopes)
        /\ agreed' = agreed \cup {<<u, c, x>> : x \in authz[o].scopes}
        /\ UNCHANGED <<conf, acct, client, sess, req>>

Deny(u, o) ==
    /\ Event /\ acct[u] = "live" /\ LockPendingAuthorization(o) /\ authz[o].u = u
    /\ authz' = [authz EXCEPT ![o].st = "denied"]
    /\ UNCHANGED <<conf, acct, client, consent, sess, req, agreed>>

-----------------------------------------------------------------------------
(***************************************************************************)
(* From the code to the session.                                           *)
(***************************************************************************)

\* oauthAuthorizationCodeGrant, until its transaction: the code is looked
\* up without a lock.
CodeGrant(r, c, o) ==
    /\ Event /\ AuthenticateClient(c, "authorization_code")
    /\ authz[o].st = "approved" /\ ~authz[o].old /\ authz[o].c = c
    /\ Begin(r, [Idle EXCEPT !.pc = "redeeming", !.c = c, !.o = o])
    /\ UNCHANGED <<conf, acct, client, authz, consent, sess, agreed>>

MutLockCodeUnlocked(r) ==
    LET o == req[r].o
    IN  /\ req[r].pc = "redeeming"
        /\ IF acct[authz[o].u] = "live" THEN req' = [req EXCEPT ![r].pc = "issuing"] ELSE Finish(r)
        /\ UNCHANGED <<conf, acct, client, authz, consent, sess, events, agreed>>

\* ... and in it: the code that another request holds or has used is not
\* found, and the user is loaded.
LockCode(r) ==
    LET o == req[r].o
    IN  /\ req[r].pc = "redeeming"
        /\ IF authz[o].st = "approved" /\ authz[o].lock = None /\ acct[authz[o].u] = "live"
           THEN /\ authz' = [authz EXCEPT ![o].lock = r]
                /\ req' = [req EXCEPT ![r].pc = "issuing"]
           ELSE Finish(r) /\ UNCHANGED authz
        /\ UNCHANGED <<conf, acct, client, consent, sess, events, agreed>>

\* grantOAuthSession, markSessionOAuth and deleteOAuthAuthorization.
GrantSession(r, s) ==
    LET o == req[r].o
        a == authz[o]
    IN  /\ req[r].pc = "issuing" /\ sess[s].st = "none"
        /\ sess' = [sess EXCEPT ![s] = [NoSession EXCEPT !.st = "live", !.u = a.u, !.c = req[r].c, !.scopes = a.scopes,
                                             !.auth = o, !.tok = 1, !.read = a.read, !.born = consent[a.u, a.c].times]]
        /\ authz' = [authz EXCEPT ![o].st = "gone", ![o].lock = None]
        /\ Finish(r)
        /\ UNCHANGED <<conf, acct, client, consent, events, agreed>>

\* oauthRefreshTokenGrant, until its transaction.
RefreshGrant(r, c, s, tok) ==
    /\ EventOf("refresh") /\ AuthenticateClient(c, "refresh_token")
    /\ Live(s) /\ tok \in 1..sess[s].tok
    /\ Begin(r, [Idle EXCEPT !.pc = "refreshing", !.c = c, !.s = s, !.tok = tok])
    /\ UNCHANGED <<conf, acct, client, authz, consent, sess, agreed>>

\* Rotation, or oauthReuseRefreshToken when the token was rotated before:
\* in the interval the answer is the current token, after it the session
\* ends, and a session past its time ends as well.
RotateToken(r) ==
    LET s == req[r].s
        tok == req[r].tok
        replay == tok < sess[s].tok /\ ~(conf.reuse /\ tok \in sess[s].recent)
    IN  /\ req[r].pc = "refreshing"
        /\ sess' =
              CASE ~Live(s) \/ sess[s].c # req[r].c -> sess
                [] Live(s) /\ sess[s].c = req[r].c /\ (replay \/ sess[s].old) -> End({s})
                [] OTHER -> IF acct[sess[s].u] = "live" /\ tok = sess[s].tok
                            THEN [sess EXCEPT ![s].tok = @ + 1, ![s].recent = @ \cup {tok}]
                            ELSE sess
        /\ Finish(r)
        /\ UNCHANGED <<conf, acct, client, authz, consent, events, agreed>>

-----------------------------------------------------------------------------
Init ==
    /\ conf \in Configs
    /\ acct = [u \in Users |-> IF u \in conf.users THEN "live" ELSE "none"]
    /\ client \in {[c \in Clients |-> IF c \in S THEN [NoClient EXCEPT !.st = "live", !.secret = 1, !.issued = 1]
                                     ELSE NoClient] : S \in SUBSET conf.stored}
    /\ authz = [o \in Authorizations |-> NoAuthorization]
    /\ consent = [p \in Users \X Clients |-> [st |-> "none", scopes |-> {}, times |-> 0]]
    /\ sess = [s \in Sessions |-> NoSession]
    /\ req = [r \in Requests |-> Idle]
    /\ events = 0
    /\ agreed = {}

ClientStep(r) ==
    \/ \E c \in Clients : RegenerateSecret(r, c)
    \/ \E c \in Clients, uri \in Uris, grants \in {Grants, {"authorization_code"}} : UpdateClient(r, c, uri, grants)
    \/ WriteClient(r)

AuthorizeStep(r) ==
    \/ \E c \in Clients, uri \in Uris, scopes \in SUBSET Scopes : Authorize(r, c, uri, scopes)
    \/ \E o \in Authorizations : InsertAuthorization(r, o) \/ \E u \in Users : GetAuthorization(r, u, o)
    \/ AutoApprove(r)

TokenStep(r) ==
    \/ \E c \in Clients, o \in Authorizations : CodeGrant(r, c, o)
    \/ LockCode(r) \/ RotateToken(r)
    \/ \E s \in Sessions : GrantSession(r, s)
    \/ \E c \in Clients, s \in Sessions : \E tok \in 1..sess[s].tok : RefreshGrant(r, c, s, tok)

Next ==
    \/ \E r \in Requests : ClientStep(r) \/ AuthorizeStep(r) \/ TokenStep(r)
    \/ \E c \in Clients : DeleteClient(c) \/ \E public \in BOOLEAN : RegisterClient(c, public)
    \/ \E o \in Authorizations : MarkExpired(o) \/ \E u \in Users : Approve(u, o) \/ Deny(u, o)
    \/ \E u \in Users : \E c \in Clients : RevokeGrant(u, c)
    \/ \E u \in Users, st \in {"banned", "deleted"} : SwitchOff(u, st)
    \/ TimePasses

Spec == Init /\ [][Next]_vars

-----------------------------------------------------------------------------
(***************************************************************************)
(* Properties.                                                             *)
(***************************************************************************)

\* A code buys one session, however many requests present it at a time.
CodeRedeemedOnce ==
    \A s, t \in Sessions : s # t /\ sess[s].auth = sess[t].auth => sess[s].auth = None

\* Whatever was claimed, approved without asking or redeemed in between, a
\* client that needs consent holds no session with a scope that the user
\* of the session did not at some time approve for this client.
ScopesWereAgreed ==
    \A s \in Sessions : Live(s) /\ sess[s].c \notin conf.first =>
        \A x \in sess[s].scopes : <<sess[s].u, sess[s].c, x>> \in agreed

\* A revoked grant and a deleted client leave no session behind; what they
\* cannot stop is a code whose approval rests on the consent as it was
\* before.
RevocationHolds ==
    \A s \in Sessions : Live(s) /\ sess[s].c \notin conf.first =>
        LET now == consent[sess[s].u, sess[s].c]
        IN  sess[s].born = now.times /\ (now.st = "active" \/ sess[s].read < now.times)

\* A client that is deleted keeps no live grant.
DeletedKeepsNothing ==
    \A s \in Sessions : Live(s) => FindClient(sess[s].c)
=============================================================================
