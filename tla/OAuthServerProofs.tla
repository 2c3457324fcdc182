------------------------- MODULE OAuthServerProofs -------------------------
(***************************************************************************)
(* A code buys one session, a session's scopes were agreed to and revoking *)
(* a grant holds, for any number of users, clients, scopes, authorizations *)
(* and requests, and whatever the configuration.                           *)
(***************************************************************************)
EXTENDS OAuthServer, TLAPS

ClientRows == [st : {"none", "live", "deleted"}, secret : Nat, issued : Nat, grants : SUBSET Grants, uri : Uris]

ConsentRows == [st : {"none", "active", "revoked"}, scopes : SUBSET Scopes, times : Nat]

AuthzRows == [st : {"none", "pending", "expired", "denied", "approved", "gone"}, c : Clients \cup {None},
              u : Users \cup {None}, scopes : SUBSET Scopes, old : BOOLEAN,
              lock : Requests \cup {None}, read : Nat]

SessRows == [st : {"none", "live", "gone"}, u : Users \cup {None}, c : Clients \cup {None},
             scopes : SUBSET Scopes, auth : Authorizations \cup {None}, tok : Nat, recent : SUBSET Nat,
             old : BOOLEAN, read : Nat, born : Nat]

Standings == [pc : {"idle", "updating", "authorizing", "approving", "redeeming", "issuing", "refreshing"},
              c : Clients \cup {None}, o : Authorizations \cup {None}, s : Sessions \cup {None},
              tok : Nat, scopes : SUBSET Scopes, read : Nat, row : ClientRows \cup {None}]

\* What a request under way names.
Named(q) ==
    /\ q.pc = "updating" => q.c \in Clients /\ q.row \in ClientRows
    /\ q.pc = "authorizing" => q.c \in Clients
    /\ q.pc = "approving" => q.o \in Authorizations
    /\ q.pc \in {"redeeming", "issuing"} => q.o \in Authorizations /\ q.c \in Clients
    /\ q.pc = "refreshing" => q.s \in Sessions

TypeOK ==
    /\ conf \in Configs
    /\ acct \in [Users -> {"none", "live", "banned", "deleted"}]
    /\ client \in [Clients -> ClientRows]
    /\ authz \in [Authorizations -> AuthzRows]
    /\ \A o \in Authorizations : authz[o].st # "none" => authz[o].c \in Clients
    /\ consent \in [Users \X Clients -> ConsentRows]
    /\ sess \in [Sessions -> SessRows]
    /\ \A s \in Sessions : sess[s].st # "none" => sess[s].u \in Users /\ sess[s].c \in Clients
    /\ req \in [Requests -> Standings]
    /\ \A r \in Requests : Named(req[r])
    /\ events \in Nat
    /\ agreed \in SUBSET (Users \X Clients \X Scopes)

\* Who may write a row: the request that approves an authorization, or issues
\* a session for it, holds its lock, and the code it issues for is still there.
HolderInv ==
    /\ \A r \in Requests : req[r].pc = "approving" =>
          authz[req[r].o].st = "pending" /\ authz[req[r].o].lock = r /\ authz[req[r].o].u \in Users
    /\ \A r \in Requests : req[r].pc \in {"redeeming", "issuing"} =>
          authz[req[r].o].c = req[r].c /\ authz[req[r].o].st \in {"approved", "gone"}
    /\ \A r \in Requests : req[r].pc = "issuing" =>
          authz[req[r].o].st = "approved" /\ authz[req[r].o].lock = r
    /\ \A o \in Authorizations : authz[o].st = "approved" => authz[o].u \in Users
    /\ \A s \in Sessions : sess[s].auth # None => authz[sess[s].auth].st = "gone"

\* All of scopes is among what user u ever approved for client c.
AgreedTo(all, u, c, scopes) == \A x \in scopes : <<u, c, x>> \in all

\* The approval an authorization has, or is about to get, covers its scopes.
ScopeInv ==
    /\ \A u \in Users, c \in Clients : AgreedTo(agreed, u, c, consent[<<u, c>>].scopes)
    /\ \A o \in Authorizations : authz[o].st = "approved" /\ authz[o].c \notin conf.first =>
          AgreedTo(agreed, authz[o].u, authz[o].c, authz[o].scopes)
    /\ \A r \in Requests : req[r].pc = "approving" /\ authz[req[r].o].c \notin conf.first =>
          AgreedTo(agreed, authz[req[r].o].u, authz[req[r].o].c, authz[req[r].o].scopes)

\* The consent k was revoked since it was read, or is still there.
RestsOn(k, read) ==
    /\ read <= k.times
    /\ k.st = "active" \/ read < k.times

ConsentInv ==
    /\ \A o \in Authorizations : authz[o].st = "approved" /\ authz[o].c \notin conf.first =>
          RestsOn(consent[<<authz[o].u, authz[o].c>>], authz[o].read)
    /\ \A r \in Requests : req[r].pc = "approving" /\ authz[req[r].o].c \notin conf.first =>
          RestsOn(consent[<<authz[req[r].o].u, authz[req[r].o].c>>], req[r].read)
    /\ \A s \in Sessions : Live(s) => sess[s].born = consent[<<sess[s].u, sess[s].c>>].times
    /\ \A s \in Sessions : Live(s) /\ sess[s].c \notin conf.first =>
          RestsOn(consent[<<sess[s].u, sess[s].c>>], sess[s].read)

-----------------------------------------------------------------------------
(***************************************************************************)
(* What a change does to the row it is about, and to no other.             *)
(***************************************************************************)

\* Of the rows of f only the one of x may differ in g.
Only(f, g, D, x) == \A y \in D : y # x => g[y] = f[y]

LEMMA IdleTyped == Idle \in Standings /\ Idle.pc = "idle" /\ Named(Idle)
BY DEF Idle, Standings, Named

LEMMA Begun ==
    ASSUME TypeOK, NEW r \in Requests, NEW q \in Standings, Named(q), req' = [req EXCEPT ![r] = q]
    PROVE  /\ req' \in [Requests -> Standings] /\ \A x \in Requests : Named(req'[x])
           /\ req'[r] = q /\ Only(req, req', Requests, r)
BY DEF TypeOK, Only

LEMMA Finished ==
    ASSUME TypeOK, NEW r \in Requests, Finish(r)
    PROVE  /\ req' \in [Requests -> Standings] /\ \A x \in Requests : Named(req'[x])
           /\ req'[r].pc = "idle" /\ Only(req, req', Requests, r)
BY IdleTyped, Begun DEF Finish

LEMMA RowsTyped ==
    /\ NoClient \in ClientRows /\ NoAuthorization \in AuthzRows /\ NoSession \in SessRows
    /\ NoAuthorization.st = "none" /\ NoSession.st = "none" /\ NoSession.auth = None
BY DEF NoClient, NoAuthorization, NoSession, ClientRows, AuthzRows, SessRows, Uris

LEMMA EventTyped == TypeOK /\ Event => events' \in Nat
BY DEF TypeOK, Event

\* Sessions that end change in nothing else.
LEMMA Ended ==
    ASSUME TypeOK, NEW S, sess' = End(S)
    PROVE  /\ sess' \in [Sessions -> SessRows]
           /\ \A s \in Sessions : s \notin S => sess'[s] = sess[s]
           /\ \A s \in Sessions : s \in S => sess'[s].st = "gone"
           /\ \A s \in Sessions : sess'[s].u = sess[s].u /\ sess'[s].c = sess[s].c /\ sess'[s].auth = sess[s].auth
<1>1. ASSUME NEW s \in Sessions
      PROVE  LET n == [sess[s] EXCEPT !.st = "gone"]
             IN  n \in SessRows /\ n.st = "gone" /\ n.u = sess[s].u /\ n.c = sess[s].c /\ n.auth = sess[s].auth
  BY DEF TypeOK, SessRows
<1>2. sess \in [Sessions -> SessRows]
  BY DEF TypeOK
<1> QED
  BY <1>1, <1>2 DEF End

\* A revocation is counted, and leaves the scopes and the other consents.
LEMMA RevokedOnly ==
    ASSUME TypeOK, NEW P \in SUBSET (Users \X Clients), consent' = Revoked(P)
    PROVE  /\ consent' \in [Users \X Clients -> ConsentRows]
           /\ \A p \in Users \X Clients : consent'[p].scopes = consent[p].scopes
           /\ \A p \in Users \X Clients : consent'[p] # consent[p] =>
                 p \in P /\ consent'[p].times = consent[p].times + 1 /\ consent'[p].st = "revoked"
<1>1. ASSUME NEW p \in Users \X Clients
      PROVE  LET n == [consent[p] EXCEPT !.st = "revoked", !.times = @ + 1]
             IN  n \in ConsentRows /\ n.st = "revoked" /\ n.times = consent[p].times + 1 /\ n.scopes = consent[p].scopes
  <2>1. PICK k \in ConsentRows : k = consent[p]
    BY DEF TypeOK
  <2>2. k.times + 1 \in Nat
    BY DEF ConsentRows
  <2>3. LET n == [k EXCEPT !.st = "revoked", !.times = k.times + 1]
        IN  n \in ConsentRows /\ n.st = "revoked" /\ n.times = k.times + 1 /\ n.scopes = k.scopes
    BY <2>2 DEF ConsentRows
  <2> QED
    BY <2>1, <2>3
<1>2. consent \in [Users \X Clients -> ConsentRows]
  BY DEF TypeOK
<1>3. ASSUME NEW p \in Users \X Clients
      PROVE  /\ consent'[p] \in ConsentRows /\ consent'[p].scopes = consent[p].scopes
             /\ consent'[p] # consent[p] =>
                   p \in P /\ consent'[p].times = consent[p].times + 1 /\ consent'[p].st = "revoked"
  BY <1>1, <1>2 DEF Revoked
<1> QED
  BY <1>3 DEF Revoked

\* The time that passes marks rows and nothing else.
LEMMA Aged ==
    ASSUME TypeOK, TimePasses
    PROVE  /\ authz' \in [Authorizations -> AuthzRows] /\ sess' \in [Sessions -> SessRows]
           /\ \A o \in Authorizations :
                 /\ authz'[o].st = authz[o].st /\ authz'[o].c = authz[o].c /\ authz'[o].u = authz[o].u
                 /\ authz'[o].scopes = authz[o].scopes /\ authz'[o].lock = authz[o].lock
                 /\ authz'[o].read = authz[o].read
           /\ \A s \in Sessions :
                 /\ sess'[s].st = sess[s].st /\ sess'[s].u = sess[s].u /\ sess'[s].c = sess[s].c
                 /\ sess'[s].scopes = sess[s].scopes /\ sess'[s].auth = sess[s].auth
                 /\ sess'[s].read = sess[s].read /\ sess'[s].born = sess[s].born
<1>1. ASSUME NEW s \in Sessions
      PROVE  LET n == [sess[s] EXCEPT !.recent = {}, !.old = (Live(s) /\ conf.timebox)]
             IN  /\ n \in SessRows
                 /\ n.st = sess[s].st /\ n.u = sess[s].u /\ n.c = sess[s].c /\ n.scopes = sess[s].scopes
                 /\ n.auth = sess[s].auth /\ n.read = sess[s].read /\ n.born = sess[s].born
  <2>1. (Live(s) /\ conf.timebox) \in BOOLEAN /\ sess[s] \in SessRows
    BY DEF TypeOK
  <2> DEFINE old == Live(s) /\ conf.timebox
  <2> HIDE DEF old
  <2> QED
    BY <2>1 DEF SessRows, old
<1>2. sess' = [s \in Sessions |-> [sess[s] EXCEPT !.recent = {}, !.old = (Live(s) /\ conf.timebox)]]
  BY DEF TimePasses
<1>3. authz' = [o \in Authorizations |-> [authz[o] EXCEPT !.old = (authz[o].st # "none")]]
  BY DEF TimePasses
<1>4. ASSUME NEW o \in Authorizations
      PROVE  LET n == [authz[o] EXCEPT !.old = (authz[o].st # "none")]
             IN  /\ n \in AuthzRows
                 /\ n.st = authz[o].st /\ n.c = authz[o].c /\ n.u = authz[o].u /\ n.scopes = authz[o].scopes
                 /\ n.lock = authz[o].lock /\ n.read = authz[o].read
  <2>1. authz[o] \in AuthzRows
    BY DEF TypeOK
  <2> QED
    BY <2>1 DEF AuthzRows
<1> QED
  BY <1>1, <1>2, <1>3, <1>4

\* A user who is asked approves the authorization.
LEMMA ApprovedByUser ==
    ASSUME TypeOK, NEW u \in Users, NEW o \in Authorizations, Approve(u, o)
    PROVE  /\ authz' \in [Authorizations -> AuthzRows] /\ Only(authz, authz', Authorizations, o)
           /\ authz[o].st = "pending" /\ authz[o].lock = None /\ authz[o].u = u /\ authz[o].c \in Clients
           /\ authz'[o].st = "approved" /\ authz'[o].c = authz[o].c /\ authz'[o].u = u
           /\ authz'[o].scopes = authz[o].scopes /\ authz'[o].read = consent[<<u, authz[o].c>>].times
<1> DEFINE c == authz[o].c
<1>1. LockPendingAuthorization(o) /\ authz[o].u = u
  BY DEF Approve
<1>2. c \in Clients /\ authz[o] \in AuthzRows /\ consent[<<u, c>>] \in ConsentRows
  BY <1>1 DEF TypeOK, LockPendingAuthorization
<1>3. authz' = Approved(o, consent[<<u, c>>].times)
  BY DEF Approve
<1>4. consent[<<u, c>>].times \in Nat
  BY <1>2 DEF ConsentRows
<1>5. /\ authz' \in [Authorizations -> AuthzRows] /\ Only(authz, authz', Authorizations, o)
      /\ authz'[o].st = "approved" /\ authz'[o].c = authz[o].c /\ authz'[o].u = u
      /\ authz'[o].scopes = authz[o].scopes /\ authz'[o].read = consent[<<u, c>>].times
  <2> HIDE DEF c
  <2> QED
    BY <1>1, <1>2, <1>3, <1>4 DEF Approved, TypeOK, AuthzRows, Only
<1> QED
  BY <1>1, <1>2, <1>5 DEF LockPendingAuthorization

\* ... and the consent covers what was asked for.
LEMMA Consented ==
    ASSUME TypeOK, NEW u \in Users, NEW o \in Authorizations, Approve(u, o), NEW c \in Clients, c = authz[o].c
    PROVE  /\ consent' \in [Users \X Clients -> ConsentRows]
           /\ Only(consent, consent', Users \X Clients, <<u, c>>)
           /\ consent'[<<u, c>>].st = "active" /\ consent'[<<u, c>>].scopes = authz[o].scopes
           /\ consent'[<<u, c>>].times = consent[<<u, c>>].times
<1>1. consent' = UpsertConsent(u, c, authz[o].scopes)
  BY DEF Approve
<1>2. PICK S \in SUBSET Scopes : S = authz[o].scopes
  BY DEF TypeOK, AuthzRows
<1>3. /\ consent' \in [Users \X Clients -> ConsentRows] /\ Only(consent, consent', Users \X Clients, <<u, c>>)
      /\ consent'[<<u, c>>].st = "active" /\ consent'[<<u, c>>].scopes = S
      /\ consent'[<<u, c>>].times = consent[<<u, c>>].times
  BY <1>1, <1>2, ZenonT(40) DEF UpsertConsent, TypeOK, ConsentRows, Only
<1> QED
  BY <1>2, <1>3

\* The request that is about to approve without asking.
AboutToApprove(u, o) ==
    [Idle EXCEPT !.pc = "approving", !.o = o, !.read = consent[<<u, authz[o].c>>].times]

\* The authorization that GET returns is its user's from then on; the request
\* that is about to approve it holds the row.
LEMMA Claimed ==
    ASSUME TypeOK, NEW r \in Requests, NEW u \in Users, NEW o \in Authorizations, GetAuthorization(r, u, o)
    PROVE  /\ authz' \in [Authorizations -> AuthzRows] /\ Only(authz, authz', Authorizations, o)
           /\ authz[o].st = "pending" /\ authz[o].lock = None /\ authz[o].u \in {None, u}
           /\ authz'[o].st = "pending" /\ authz'[o].c = authz[o].c /\ authz'[o].u = u
           /\ authz'[o].scopes = authz[o].scopes
           /\ \/ req' = req
              \/ /\ authz'[o].lock = r
                 /\ FindActiveConsent(u, authz[o].c, authz[o].scopes) \/ authz[o].c \in conf.first
                 /\ Begin(r, AboutToApprove(u, o))
<1>1. authz[o] \in AuthzRows /\ authz \in [Authorizations -> AuthzRows]
  BY DEF TypeOK
<1>2. LockPendingAuthorization(o) /\ authz[o].u \in {None, u}
  BY DEF GetAuthorization
<1>3. CASE /\ authz' = [authz EXCEPT ![o].u = u, ![o].lock = r]
           /\ Begin(r, AboutToApprove(u, o))
           /\ FindActiveConsent(u, authz[o].c, authz[o].scopes) \/ authz[o].c \in conf.first
  <2>1. /\ authz' \in [Authorizations -> AuthzRows] /\ Only(authz, authz', Authorizations, o)
        /\ authz'[o].st = authz[o].st /\ authz'[o].c = authz[o].c /\ authz'[o].u = u
        /\ authz'[o].scopes = authz[o].scopes /\ authz'[o].lock = r
    BY <1>1, <1>3 DEF AuthzRows, Only
  <2> QED
    BY <1>2, <1>3, <2>1 DEF LockPendingAuthorization
<1>4. CASE authz' = [authz EXCEPT ![o].u = u] /\ UNCHANGED req
  <2>1. /\ authz' \in [Authorizations -> AuthzRows] /\ Only(authz, authz', Authorizations, o)
        /\ authz'[o].st = authz[o].st /\ authz'[o].c = authz[o].c /\ authz'[o].u = u
        /\ authz'[o].scopes = authz[o].scopes
    BY <1>1, <1>4 DEF AuthzRows, Only
  <2> QED
    BY <1>2, <1>4, <2>1 DEF LockPendingAuthorization
<1> QED
  BY <1>3, <1>4 DEF GetAuthorization, AboutToApprove

\* An approval, whatever it rests on.
LEMMA ApprovedRow ==
    ASSUME authz \in [Authorizations -> AuthzRows], NEW o \in Authorizations, NEW read \in Nat,
           authz' = Approved(o, read)
    PROVE  /\ authz' \in [Authorizations -> AuthzRows] /\ Only(authz, authz', Authorizations, o)
           /\ authz'[o].st = "approved" /\ authz'[o].c = authz[o].c /\ authz'[o].u = authz[o].u
           /\ authz'[o].scopes = authz[o].scopes /\ authz'[o].read = read
<1>1. authz[o] \in AuthzRows
  OBVIOUS
<1> QED
  BY <1>1 DEF Approved, AuthzRows, Only

\* A code that was used.
LEMMA GoneRow ==
    ASSUME authz \in [Authorizations -> AuthzRows], NEW o \in Authorizations,
           authz' = [authz EXCEPT ![o].st = "gone", ![o].lock = None]
    PROVE  /\ authz' \in [Authorizations -> AuthzRows] /\ Only(authz, authz', Authorizations, o)
           /\ authz'[o].st = "gone" /\ authz'[o].c = authz[o].c
<1>1. authz[o] \in AuthzRows
  OBVIOUS
<1> QED
  BY <1>1 DEF AuthzRows, Only

\* A token that was exchanged for the next one.
LEMMA RotatedRow ==
    ASSUME sess \in [Sessions -> SessRows], NEW s \in Sessions, NEW tok \in Nat,
           sess' = [sess EXCEPT ![s].tok = @ + 1, ![s].recent = @ \cup {tok}]
    PROVE  /\ sess' \in [Sessions -> SessRows] /\ Only(sess, sess', Sessions, s)
           /\ sess'[s].st = sess[s].st
           /\ sess'[s].u = sess[s].u /\ sess'[s].c = sess[s].c /\ sess'[s].scopes = sess[s].scopes
           /\ sess'[s].auth = sess[s].auth /\ sess'[s].read = sess[s].read /\ sess'[s].born = sess[s].born
<1>1. sess[s] \in SessRows /\ sess[s].tok + 1 \in Nat
  BY DEF SessRows
<1> QED
  BY <1>1 DEF SessRows, Only

\* Approving without asking.
LEMMA AutoApproved ==
    ASSUME TypeOK, NEW r \in Requests, AutoApprove(r)
    PROVE  LET o == req[r].o
           IN  /\ o \in Authorizations /\ req[r].read \in Nat /\ req[r].pc = "approving"
               /\ authz' \in [Authorizations -> AuthzRows] /\ Only(authz, authz', Authorizations, o)
               /\ authz'[o].st = "approved" /\ authz'[o].c = authz[o].c /\ authz'[o].u = authz[o].u
               /\ authz'[o].scopes = authz[o].scopes /\ authz'[o].read = req[r].read
<1> DEFINE o == req[r].o
           read == req[r].read
<1>1. req[r].pc = "approving" /\ authz' = Approved(o, read) /\ o \in Authorizations /\ read \in Nat
  BY DEF AutoApprove, TypeOK, Named, Standings
<1>2. authz \in [Authorizations -> AuthzRows]
  BY DEF TypeOK
<1> HIDE DEF o, read
<1>3. /\ authz' \in [Authorizations -> AuthzRows] /\ Only(authz, authz', Authorizations, o)
      /\ authz'[o].st = "approved" /\ authz'[o].c = authz[o].c /\ authz'[o].u = authz[o].u
      /\ authz'[o].scopes = authz[o].scopes /\ authz'[o].read = read
  BY <1>1, <1>2, ApprovedRow
<1> QED
  BY <1>1, <1>3 DEF o, read

\* What is past its time, or denied, was pending and held by nobody.
LEMMA Closed ==
    ASSUME TypeOK, NEW o \in Authorizations, MarkExpired(o) \/ \E u \in Users : Deny(u, o)
    PROVE  /\ authz' \in [Authorizations -> AuthzRows] /\ Only(authz, authz', Authorizations, o)
           /\ authz[o].st = "pending" /\ authz[o].lock = None
           /\ authz'[o].st \in {"expired", "denied"} /\ authz'[o].c = authz[o].c
<1>1. authz \in [Authorizations -> AuthzRows]
  BY DEF TypeOK
<1>2. authz[o].st = "pending" /\ authz[o].lock = None
  BY DEF MarkExpired, Deny, LockPendingAuthorization
<1>3. PICK st \in {"expired", "denied"} : authz' = [authz EXCEPT ![o].st = st]
  BY DEF MarkExpired, Deny
<1> QED
  BY <1>1, <1>2, <1>3 DEF AuthzRows, Only

\* A request gets the code of an approved authorization that nobody holds.
LEMMA CodeLocked ==
    ASSUME TypeOK, NEW r \in Requests, LockCode(r)
    PROVE  LET o == req[r].o
           IN  /\ req[r].pc = "redeeming" /\ o \in Authorizations
               /\ \/ Finish(r) /\ UNCHANGED authz
                  \/ /\ req' = [req EXCEPT ![r].pc = "issuing"]
                     /\ authz[o].st = "approved" /\ authz[o].lock = None
                     /\ authz' \in [Authorizations -> AuthzRows] /\ Only(authz, authz', Authorizations, o)
                     /\ authz'[o].lock = r
                     /\ authz'[o].st = authz[o].st /\ authz'[o].c = authz[o].c /\ authz'[o].u = authz[o].u
                     /\ authz'[o].scopes = authz[o].scopes /\ authz'[o].read = authz[o].read
<1> DEFINE o == req[r].o
<1>1. req[r].pc = "redeeming" /\ o \in Authorizations
  BY DEF LockCode, TypeOK, Named
<1>2. authz \in [Authorizations -> AuthzRows]
  BY DEF TypeOK
<1>3. \/ Finish(r) /\ UNCHANGED authz
      \/ /\ req' = [req EXCEPT ![r].pc = "issuing"]
         /\ authz[o].st = "approved" /\ authz[o].lock = None
         /\ authz' = [authz EXCEPT ![o].lock = r]
  BY DEF LockCode
<1> HIDE DEF o
<1>4. ASSUME authz' = [authz EXCEPT ![o].lock = r]
      PROVE  /\ authz' \in [Authorizations -> AuthzRows] /\ Only(authz, authz', Authorizations, o)
             /\ authz'[o].lock = r
             /\ authz'[o].st = authz[o].st /\ authz'[o].c = authz[o].c /\ authz'[o].u = authz[o].u
             /\ authz'[o].scopes = authz[o].scopes /\ authz'[o].read = authz[o].read
  BY <1>1, <1>2, <1>4 DEF AuthzRows, Only
<1> QED
  BY <1>1, <1>3, <1>4 DEF o

\* The session and the end of its authorization are written together.
LEMMA Granted ==
    ASSUME TypeOK, HolderInv, NEW r \in Requests, NEW s \in Sessions, GrantSession(r, s)
    PROVE  LET o == req[r].o
               a == authz[o]
           IN  /\ req[r].pc = "issuing" /\ o \in Authorizations /\ sess[s].st = "none"
               /\ a \in AuthzRows /\ a.u \in Users /\ a.c \in Clients /\ a.st = "approved"
               /\ authz' \in [Authorizations -> AuthzRows] /\ Only(authz, authz', Authorizations, o)
               /\ authz'[o].st = "gone" /\ authz'[o].c = a.c
               /\ sess' \in [Sessions -> SessRows] /\ Only(sess, sess', Sessions, s)
               /\ sess'[s].st = "live" /\ sess'[s].u = a.u /\ sess'[s].c = a.c /\ sess'[s].scopes = a.scopes
               /\ sess'[s].auth = o /\ sess'[s].read = a.read /\ sess'[s].born = consent[<<a.u, a.c>>].times
<1> DEFINE o == req[r].o
           a == authz[o]
           n == [NoSession EXCEPT !.st = "live", !.u = a.u, !.c = req[r].c, !.scopes = a.scopes,
                                  !.auth = o, !.tok = 1, !.read = a.read, !.born = consent[<<a.u, a.c>>].times]
<1>1. /\ req[r].pc = "issuing" /\ o \in Authorizations /\ sess[s].st = "none"
      /\ authz' = [authz EXCEPT ![o].st = "gone", ![o].lock = None]
      /\ sess' = [sess EXCEPT ![s] = n]
  BY DEF GrantSession, TypeOK, Named
<1>2. a \in AuthzRows /\ a.st = "approved" /\ a.u \in Users /\ a.c \in Clients /\ req[r].c = a.c
  BY <1>1 DEF TypeOK, HolderInv
<1>3. authz \in [Authorizations -> AuthzRows] /\ sess \in [Sessions -> SessRows]
  BY DEF TypeOK
<1>4. consent[<<a.u, a.c>>] \in ConsentRows
  BY <1>2 DEF TypeOK
<1>5. /\ n \in SessRows /\ n.st = "live" /\ n.u = a.u /\ n.c = a.c /\ n.scopes = a.scopes
      /\ n.auth = o /\ n.read = a.read /\ n.born = consent[<<a.u, a.c>>].times
  <2>1. consent[<<a.u, a.c>>].times \in Nat /\ a.scopes \in SUBSET Scopes /\ a.read \in Nat
    BY <1>2, <1>4 DEF ConsentRows, AuthzRows
  <2> HIDE DEF a, o
  <2> QED
    BY <1>1, <1>2, <2>1 DEF NoSession, SessRows
<1> HIDE DEF o, n
<1>6. /\ authz' \in [Authorizations -> AuthzRows] /\ Only(authz, authz', Authorizations, o)
      /\ authz'[o].st = "gone" /\ authz'[o].c = authz[o].c
  BY <1>1, <1>3, GoneRow
<1>7. sess' \in [Sessions -> SessRows] /\ Only(sess, sess', Sessions, s) /\ sess'[s] = n
  BY <1>1, <1>3, <1>5 DEF Only
<1> QED
  BY <1>1, <1>2, <1>5, <1>6, <1>7 DEF o

\* Refreshing ends a session or gives it another token.
LEMMA Rotated ==
    ASSUME TypeOK, NEW r \in Requests, RotateToken(r)
    PROVE  /\ sess' \in [Sessions -> SessRows]
           /\ \A s \in Sessions :
                 /\ sess'[s].st = sess[s].st \/ sess'[s].st = "gone"
                 /\ sess'[s].u = sess[s].u /\ sess'[s].c = sess[s].c /\ sess'[s].scopes = sess[s].scopes
                 /\ sess'[s].auth = sess[s].auth /\ sess'[s].read = sess[s].read /\ sess'[s].born = sess[s].born
<1> DEFINE s == req[r].s
           tok == req[r].tok
<1>1. req[r].pc = "refreshing" /\ s \in Sessions /\ tok \in Nat
  BY DEF RotateToken, TypeOK, Named, Standings
<1>2. \/ sess' = sess
      \/ sess' = End({s})
      \/ sess' = [sess EXCEPT ![s].tok = @ + 1, ![s].recent = @ \cup {tok}]
  BY DEF RotateToken
<1>3. sess \in [Sessions -> SessRows]
  BY DEF TypeOK
<1>4. CASE sess' = End({s})
  <2>1. \A x \in Sessions :
          /\ [sess[x] EXCEPT !.st = "gone"] \in SessRows
          /\ [sess[x] EXCEPT !.st = "gone"].scopes = sess[x].scopes
          /\ [sess[x] EXCEPT !.st = "gone"].read = sess[x].read
          /\ [sess[x] EXCEPT !.st = "gone"].born = sess[x].born
    BY <1>3 DEF SessRows
  <2>2. \A x \in Sessions : sess'[x].scopes = sess[x].scopes /\ sess'[x].read = sess[x].read
                            /\ sess'[x].born = sess[x].born
    BY <1>4, <2>1 DEF End
  <2> QED
    BY <1>4, <2>2, Ended
<1>5. CASE sess' = [sess EXCEPT ![s].tok = @ + 1, ![s].recent = @ \cup {tok}]
  <2> HIDE DEF s, tok
  <2> QED
    BY <1>1, <1>3, <1>5, RotatedRow DEF Only
<1> QED
  BY <1>2, <1>3, <1>4, <1>5

-----------------------------------------------------------------------------
(***************************************************************************)
(* Types.                                                                  *)
(***************************************************************************)

LEMMA ConfigTyped ==
    ASSUME conf \in Configs
    PROVE  conf.first \subseteq Clients /\ conf.stored \subseteq Clients /\ conf.maxEvents \in Nat
BY OAuthAssumption

LEMMA InitTyped == Init => TypeOK
<1> SUFFICES ASSUME Init PROVE TypeOK
  OBVIOUS
<1>1. client \in [Clients -> ClientRows]
  <2>1. [NoClient EXCEPT !.st = "live", !.secret = 1, !.issued = 1] \in ClientRows
    BY DEF NoClient, ClientRows, Uris
  <2> QED
    BY <2>1, RowsTyped DEF Init
<1>2. authz \in [Authorizations -> AuthzRows] /\ \A o \in Authorizations : authz[o].st = "none"
  BY RowsTyped DEF Init
<1>3. sess \in [Sessions -> SessRows] /\ \A s \in Sessions : sess[s].st = "none"
  BY RowsTyped DEF Init
<1>4. consent \in [Users \X Clients -> ConsentRows]
  BY DEF Init, ConsentRows
<1>5. req \in [Requests -> Standings] /\ \A r \in Requests : Named(req[r])
  BY IdleTyped DEF Init
<1> QED
  BY <1>1, <1>2, <1>3, <1>4, <1>5 DEF Init, TypeOK

LEMMA ClientStepTyped ==
    ASSUME TypeOK, NEW r \in Requests, ClientStep(r) PROVE TypeOK'
<1>1. ASSUME NEW c \in Clients, RegenerateSecret(r, c) PROVE TypeOK'
  <2> DEFINE row == [client[c] EXCEPT !.secret = client[c].issued + 1, !.issued = client[c].issued + 1]
             q == [Idle EXCEPT !.pc = "updating", !.c = c, !.row = row]
  <2>1. row \in ClientRows
    <3>1. client[c] \in ClientRows /\ client[c].issued + 1 \in Nat
      BY DEF TypeOK, ClientRows
    <3> QED
      BY <3>1 DEF ClientRows
  <2>2. req' = [req EXCEPT ![r] = q] /\ events' \in Nat
        /\ UNCHANGED <<conf, acct, client, authz, consent, sess, agreed>>
    BY <1>1, EventTyped DEF RegenerateSecret, EventOf, Begin
  <2>3. q \in Standings /\ Named(q)
    <3> HIDE DEF row
    <3> QED
      BY <2>1 DEF Idle, Standings, Named
  <2> HIDE DEF q
  <2>4. req' \in [Requests -> Standings] /\ \A x \in Requests : Named(req'[x])
    BY <2>2, <2>3, Begun
  <2> QED
    BY <2>2, <2>4 DEF TypeOK
<1>2. ASSUME NEW c \in Clients, NEW uri \in Uris, NEW grants \in {Grants, {"authorization_code"}},
             UpdateClient(r, c, uri, grants)
      PROVE  TypeOK'
  <2> DEFINE row == [client[c] EXCEPT !.uri = uri, !.grants = grants]
             q == [Idle EXCEPT !.pc = "updating", !.c = c, !.row = row]
  <2>1. row \in ClientRows
    <3>1. client[c] \in ClientRows /\ grants \in SUBSET Grants
      BY DEF TypeOK, Grants
    <3> QED
      BY <3>1 DEF ClientRows
  <2>2. req' = [req EXCEPT ![r] = q] /\ events' \in Nat
        /\ UNCHANGED <<conf, acct, client, authz, consent, sess, agreed>>
    BY <1>2, EventTyped DEF UpdateClient, EventOf, Begin
  <2>3. q \in Standings /\ Named(q)
    <3> HIDE DEF row
    <3> QED
      BY <2>1 DEF Idle, Standings, Named
  <2> HIDE DEF q
  <2>4. req' \in [Requests -> Standings] /\ \A x \in Requests : Named(req'[x])
    BY <2>2, <2>3, Begun
  <2> QED
    BY <2>2, <2>4 DEF TypeOK
<1>3. ASSUME WriteClient(r) PROVE TypeOK'
  <2> DEFINE c == req[r].c
             row == req[r].row
             issued == IF row.issued > client[c].issued THEN row.issued ELSE client[c].issued
  <2>1. c \in Clients /\ row \in ClientRows /\ Finish(r)
        /\ UNCHANGED <<conf, acct, authz, consent, sess, events, agreed>>
    BY <1>3 DEF WriteClient, TypeOK, Named
  <2>2. client' = client \/ client' = [client EXCEPT ![c] = [row EXCEPT !.issued = issued]]
    BY <1>3 DEF WriteClient
  <2>3. client[c] \in ClientRows /\ issued \in Nat
    BY <2>1 DEF TypeOK, ClientRows
  <2> HIDE DEF c, row, issued
  <2>4. [row EXCEPT !.issued = issued] \in ClientRows
    BY <2>1, <2>3 DEF ClientRows
  <2>5. client' \in [Clients -> ClientRows]
    BY <2>1, <2>2, <2>4 DEF TypeOK
  <2> QED
    BY <2>1, <2>5, Finished DEF TypeOK
<1> QED
  BY <1>1, <1>2, <1>3 DEF ClientStep

LEMMA AuthorizeStepTyped ==
    ASSUME TypeOK, HolderInv, NEW r \in Requests, AuthorizeStep(r) PROVE TypeOK'
<1>1. ASSUME NEW c \in Clients, NEW uri \in Uris, NEW scopes \in SUBSET Scopes, Authorize(r, c, uri, scopes)
      PROVE  TypeOK'
  <2> DEFINE q == [Idle EXCEPT !.pc = "authorizing", !.c = c, !.scopes = scopes]
  <2>1. req' = [req EXCEPT ![r] = q] /\ events' \in Nat
        /\ UNCHANGED <<conf, acct, client, authz, consent, sess, agreed>>
    BY <1>1 DEF Authorize, Event, Begin, TypeOK
  <2>2. q \in Standings /\ Named(q)
    BY DEF Idle, Standings, Named
  <2> HIDE DEF q
  <2>3. req' \in [Requests -> Standings] /\ \A x \in Requests : Named(req'[x])
    BY <2>1, <2>2, Begun
  <2> QED
    BY <2>1, <2>3 DEF TypeOK
<1>2. ASSUME NEW o \in Authorizations, InsertAuthorization(r, o) PROVE TypeOK'
  <2> DEFINE a == [NoAuthorization EXCEPT !.st = "pending", !.c = req[r].c, !.scopes = req[r].scopes]
  <2>1. /\ authz' = [authz EXCEPT ![o] = a] /\ client' = EnsureOAuthClientRow(req[r].c) /\ Finish(r)
        /\ req[r].c \in Clients /\ req[r].scopes \in SUBSET Scopes
        /\ UNCHANGED <<conf, acct, consent, sess, events, agreed>>
    BY <1>2 DEF InsertAuthorization, TypeOK, Named, Standings
  <2>2. a \in AuthzRows /\ a.c \in Clients
    BY <2>1 DEF NoAuthorization, AuthzRows
  <2>3. client' \in [Clients -> ClientRows]
    <3> DEFINE c == req[r].c
    <3>1. client' = client \/ client' = [client EXCEPT ![c].st = "deleted"]
      BY <2>1 DEF EnsureOAuthClientRow
    <3>2. c \in Clients /\ client[c] \in ClientRows /\ client \in [Clients -> ClientRows]
      BY <2>1 DEF TypeOK
    <3> HIDE DEF c
    <3> QED
      BY <3>1, <3>2 DEF ClientRows
  <2> HIDE DEF a
  <2> QED
    BY <2>1, <2>2, <2>3, Finished DEF TypeOK
<1>3. ASSUME NEW u \in Users, NEW o \in Authorizations, GetAuthorization(r, u, o) PROVE TypeOK'
  <2> DEFINE read == consent[<<u, authz[o].c>>].times
             q == AboutToApprove(u, o)
  <2>1. /\ authz' \in [Authorizations -> AuthzRows] /\ Only(authz, authz', Authorizations, o)
        /\ authz[o].st = "pending" /\ authz'[o].c = authz[o].c /\ authz'[o].st = "pending"
        /\ req' = req \/ Begin(r, q)
    BY <1>3, Claimed
  <2>2. authz[o].c \in Clients
    BY <2>1 DEF TypeOK
  <2>3. read \in Nat
    BY <2>2 DEF TypeOK, ConsentRows
  <2>4. q \in Standings /\ Named(q)
    <3>1. q = [Idle EXCEPT !.pc = "approving", !.o = o, !.read = read]
      BY DEF AboutToApprove
    <3> HIDE DEF q, read
    <3> QED
      BY <2>3, <3>1 DEF Idle, Standings, Named
  <2> HIDE DEF q
  <2>5. req' \in [Requests -> Standings] /\ \A x \in Requests : Named(req'[x])
    BY <2>1, <2>4, Begun DEF Begin, TypeOK
  <2>6. events' \in Nat /\ UNCHANGED <<conf, acct, client, consent, sess, agreed>>
    BY <1>3 DEF GetAuthorization, Event, TypeOK
  <2> QED
    BY <2>1, <2>2, <2>5, <2>6 DEF TypeOK, Only
<1>4. ASSUME AutoApprove(r) PROVE TypeOK'
  <2>1. Finish(r) /\ UNCHANGED <<conf, acct, client, consent, sess, events, agreed>>
    BY <1>4 DEF AutoApprove
  <2>2. authz[req[r].o].st = "pending"
    BY <1>4 DEF AutoApprove, HolderInv
  <2>3. \A o \in Authorizations : authz'[o].c = authz[o].c /\ (authz[o].st = "none" => authz'[o].st = "none")
    BY <1>4, <2>2, AutoApproved DEF Only
  <2>4. \A o \in Authorizations : authz'[o].st # "none" => authz'[o].c \in Clients
    BY <2>3 DEF TypeOK
  <2> QED
    BY <1>4, <2>1, <2>4, AutoApproved, Finished DEF TypeOK
<1> QED
  BY <1>1, <1>2, <1>3, <1>4 DEF AuthorizeStep

LEMMA TokenStepTyped ==
    ASSUME TypeOK, HolderInv, NEW r \in Requests, TokenStep(r) PROVE TypeOK'
<1>1. ASSUME NEW c \in Clients, NEW o \in Authorizations, CodeGrant(r, c, o) PROVE TypeOK'
  <2> DEFINE q == [Idle EXCEPT !.pc = "redeeming", !.c = c, !.o = o]
  <2>1. req' = [req EXCEPT ![r] = q] /\ events' \in Nat
        /\ UNCHANGED <<conf, acct, client, authz, consent, sess, agreed>>
    BY <1>1 DEF CodeGrant, Event, Begin, TypeOK
  <2>2. q \in Standings /\ Named(q)
    BY DEF Idle, Standings, Named
  <2> HIDE DEF q
  <2>3. req' \in [Requests -> Standings] /\ \A x \in Requests : Named(req'[x])
    BY <2>1, <2>2, Begun
  <2> QED
    BY <2>1, <2>3 DEF TypeOK
<1>2. ASSUME LockCode(r) PROVE TypeOK'
  <2>1. UNCHANGED <<conf, acct, client, consent, sess, events, agreed>>
    BY <1>2 DEF LockCode
  <2>2. CASE Finish(r) /\ UNCHANGED authz
    BY <2>1, <2>2, Finished DEF TypeOK
  <2>3. CASE ~UNCHANGED authz \/ req' = [req EXCEPT ![r].pc = "issuing"]
    <3>1. authz' \in [Authorizations -> AuthzRows]
          /\ \A o \in Authorizations : authz'[o].c = authz[o].c /\ authz'[o].st = authz[o].st
      BY <1>2, CodeLocked DEF Only, TypeOK
    <3>2. req' \in [Requests -> Standings] /\ \A x \in Requests : Named(req'[x])
      <4>1. CASE Finish(r)
        BY <4>1, Finished
      <4>2. CASE req' = [req EXCEPT ![r].pc = "issuing"]
        <5>1. req[r] \in Standings /\ Named(req[r]) /\ req[r].pc = "redeeming" /\ req \in [Requests -> Standings]
          BY <1>2 DEF LockCode, TypeOK
        <5>2. /\ req' \in [Requests -> Standings] /\ Only(req, req', Requests, r)
              /\ req'[r].pc = "issuing" /\ req'[r].o = req[r].o /\ req'[r].c = req[r].c
          BY <4>2, <5>1 DEF Standings, Only
        <5> QED
          BY <5>1, <5>2 DEF TypeOK, Only, Named
      <4> QED
        BY <1>2, <4>1, <4>2, CodeLocked
    <3> QED
      BY <2>1, <3>1, <3>2 DEF TypeOK
  <2> QED
    BY <1>2, <2>2, <2>3, CodeLocked
<1>3. ASSUME RotateToken(r) PROVE TypeOK'
  <2>1. Finish(r) /\ UNCHANGED <<conf, acct, client, authz, consent, events, agreed>>
    BY <1>3 DEF RotateToken
  <2>2. \A s \in Sessions : sess'[s].st # "none" => sess'[s].u \in Users /\ sess'[s].c \in Clients
    <3>1. \A s \in Sessions : sess[s].st = "none" => sess'[s].st = "none"
      BY <1>3 DEF RotateToken, End, Live, TypeOK, SessRows
    <3> QED
      BY <1>3, <3>1, Rotated DEF TypeOK
  <2> QED
    BY <1>3, <2>1, <2>2, Rotated, Finished DEF TypeOK
<1>4. ASSUME NEW s \in Sessions, GrantSession(r, s) PROVE TypeOK'
  <2>1. Finish(r) /\ UNCHANGED <<conf, acct, client, consent, events, agreed>>
    BY <1>4 DEF GrantSession
  <2> DEFINE o == req[r].o
  <2>2. /\ authz' \in [Authorizations -> AuthzRows] /\ Only(authz, authz', Authorizations, o)
        /\ authz'[o].c \in Clients
        /\ sess' \in [Sessions -> SessRows] /\ Only(sess, sess', Sessions, s)
        /\ sess'[s].u \in Users /\ sess'[s].c \in Clients
    BY <1>4, Granted
  <2> HIDE DEF o
  <2>3. \A p \in Authorizations : authz'[p].st # "none" => authz'[p].c \in Clients
    BY <2>2 DEF Only, TypeOK
  <2>4. \A x \in Sessions : sess'[x].st # "none" => sess'[x].u \in Users /\ sess'[x].c \in Clients
    BY <2>2 DEF Only, TypeOK
  <2> QED
    BY <2>1, <2>2, <2>3, <2>4, Finished DEF TypeOK
<1>5. ASSUME NEW c \in Clients, NEW s \in Sessions, NEW tok \in 1..sess[s].tok, RefreshGrant(r, c, s, tok)
      PROVE  TypeOK'
  <2> DEFINE q == [Idle EXCEPT !.pc = "refreshing", !.c = c, !.s = s, !.tok = tok]
  <2>1. req' = [req EXCEPT ![r] = q] /\ events' \in Nat
        /\ UNCHANGED <<conf, acct, client, authz, consent, sess, agreed>>
    BY <1>5, EventTyped DEF RefreshGrant, EventOf, Begin
  <2>2. tok \in Nat
    BY DEF TypeOK, SessRows
  <2>3. q \in Standings /\ Named(q)
    BY <2>2 DEF Idle, Standings, Named
  <2> HIDE DEF q
  <2>4. req' \in [Requests -> Standings] /\ \A x \in Requests : Named(req'[x])
    BY <2>1, <2>3, Begun
  <2> QED
    BY <2>1, <2>4 DEF TypeOK
<1> QED
  BY <1>1, <1>2, <1>3, <1>4, <1>5 DEF TokenStep

\* What users and administrators do.
OtherStep ==
    \/ \E c \in Clients : DeleteClient(c) \/ \E public \in BOOLEAN : RegisterClient(c, public)
    \/ \E o \in Authorizations : MarkExpired(o) \/ \E u \in Users : Approve(u, o) \/ Deny(u, o)
    \/ \E u \in Users : \E c \in Clients : RevokeGrant(u, c)
    \/ \E u \in Users, st \in {"banned", "deleted"} : SwitchOff(u, st)

LEMMA OtherStepTyped ==
    ASSUME TypeOK, OtherStep PROVE TypeOK'
<1>1. ASSUME NEW c \in Clients, NEW public \in BOOLEAN, RegisterClient(c, public) PROVE TypeOK'
  <2>1. client' \in [Clients -> ClientRows]
    <3> DEFINE n == IF public THEN 0 ELSE 1
    <3>1. n \in Nat /\ client' = [client EXCEPT ![c] = [NoClient EXCEPT !.st = "live", !.secret = n, !.issued = n]]
      BY <1>1 DEF RegisterClient
    <3> HIDE DEF n
    <3>2. [NoClient EXCEPT !.st = "live", !.secret = n, !.issued = n] \in ClientRows
      BY <3>1 DEF NoClient, ClientRows, Uris
    <3> QED
      BY <3>1, <3>2 DEF TypeOK
  <2>2. events' \in Nat /\ UNCHANGED <<conf, acct, authz, consent, sess, req, agreed>>
    BY <1>1, EventTyped DEF RegisterClient
  <2> QED
    BY <2>1, <2>2 DEF TypeOK
<1>2. ASSUME NEW c \in Clients, DeleteClient(c) PROVE TypeOK'
  <2>1. client' \in [Clients -> ClientRows]
    BY <1>2 DEF DeleteClient, TypeOK, ClientRows
  <2>2. consent' \in [Users \X Clients -> ConsentRows]
    BY <1>2, RevokedOnly DEF DeleteClient
  <2>3. PICK S : S = {s \in Sessions : Live(s) /\ sess[s].c = c}
    OBVIOUS
  <2>4. sess' = End(S) /\ \A s \in S : Live(s)
    BY <1>2, <2>3 DEF DeleteClient
  <2>5. sess' \in [Sessions -> SessRows]
        /\ \A s \in Sessions : sess'[s].st # "none" => sess'[s].u \in Users /\ sess'[s].c \in Clients
    BY <2>4, Ended DEF TypeOK, Live
  <2>6. events' \in Nat /\ UNCHANGED <<conf, acct, authz, req, agreed>>
    BY <1>2, EventTyped DEF DeleteClient, EventOf
  <2> QED
    BY <2>1, <2>2, <2>5, <2>6 DEF TypeOK
<1>3. ASSUME NEW u \in Users, NEW c \in Clients, RevokeGrant(u, c) PROVE TypeOK'
  <2>1. consent' \in [Users \X Clients -> ConsentRows]
    <3>1. {<<u, c>>} \in SUBSET (Users \X Clients) /\ consent' = Revoked({<<u, c>>})
      <4>1. {<<u, c>>} \in SUBSET (Users \X Clients)
        OBVIOUS
      <4> QED
        BY <1>3, <4>1 DEF RevokeGrant
    <3> QED
      BY <3>1, RevokedOnly
  <2>2. PICK S : S = {s \in Sessions : Live(s) /\ sess[s].u = u /\ sess[s].c = c}
    OBVIOUS
  <2>3. sess' = End(S) /\ \A s \in S : Live(s)
    BY <1>3, <2>2 DEF RevokeGrant
  <2>4. sess' \in [Sessions -> SessRows]
        /\ \A s \in Sessions : sess'[s].st # "none" => sess'[s].u \in Users /\ sess'[s].c \in Clients
    BY <2>3, Ended DEF TypeOK, Live
  <2>5. events' \in Nat /\ UNCHANGED <<conf, acct, client, authz, req, agreed>>
    BY <1>3, EventTyped DEF RevokeGrant
  <2> QED
    BY <2>1, <2>4, <2>5 DEF TypeOK
<1>4. ASSUME NEW u \in Users, NEW st \in {"banned", "deleted"}, SwitchOff(u, st) PROVE TypeOK'
  <2>1. PICK S : S = {s \in Sessions : Live(s) /\ sess[s].u = u}
    OBVIOUS
  <2>2. sess' = End(S) /\ \A s \in S : Live(s)
    BY <1>4, <2>1 DEF SwitchOff
  <2>3. sess' \in [Sessions -> SessRows]
        /\ \A s \in Sessions : sess'[s].st # "none" => sess'[s].u \in Users /\ sess'[s].c \in Clients
    BY <2>2, Ended DEF TypeOK, Live
  <2> QED
    BY <1>4, <2>3, EventTyped DEF SwitchOff, EventOf, TypeOK
<1>5. ASSUME NEW o \in Authorizations, MarkExpired(o) \/ \E u \in Users : Deny(u, o) PROVE TypeOK'
  <2>1. \A p \in Authorizations : authz'[p].st # "none" => authz'[p].c \in Clients
    BY <1>5, Closed DEF Only, TypeOK
  <2> QED
    BY <1>5, <2>1, Closed DEF MarkExpired, Deny, Event, TypeOK
<1>6. ASSUME NEW u \in Users, NEW o \in Authorizations, Approve(u, o) PROVE TypeOK'
  <2>1. \A p \in Authorizations : authz'[p].st # "none" => authz'[p].c \in Clients
    <3>1. Only(authz, authz', Authorizations, o) /\ authz'[o].c \in Clients
      BY <1>6, ApprovedByUser
    <3> QED
      BY <3>1 DEF Only, TypeOK
  <2>2. agreed' \in SUBSET (Users \X Clients \X Scopes)
    <3>1. authz[o].scopes \in SUBSET Scopes /\ authz[o].c \in Clients
      BY <1>6, ApprovedByUser DEF TypeOK, AuthzRows
    <3>2. agreed' = agreed \cup {<<u, authz[o].c, x>> : x \in authz[o].scopes}
      BY <1>6 DEF Approve
    <3> QED
      BY <3>1, <3>2 DEF TypeOK
  <2>3. events' \in Nat /\ UNCHANGED <<conf, acct, client, sess, req>>
    BY <1>6, EventTyped DEF Approve
  <2>4. authz' \in [Authorizations -> AuthzRows] /\ consent' \in [Users \X Clients -> ConsentRows]
    <3>1. authz' \in [Authorizations -> AuthzRows] /\ authz[o].c \in Clients
      BY <1>6, ApprovedByUser
    <3> QED
      BY <1>6, <3>1, Consented
  <2> QED
    BY <2>1, <2>2, <2>3, <2>4 DEF TypeOK
<1> QED
  BY <1>1, <1>2, <1>3, <1>4, <1>5, <1>6 DEF OtherStep

LEMMA TimePassesTyped == ASSUME TypeOK, TimePasses PROVE TypeOK'
<1>1. events' \in Nat /\ UNCHANGED <<conf, acct, client, consent, req, agreed>>
  BY EventTyped DEF TimePasses
<1>2. authz' \in [Authorizations -> AuthzRows] /\ \A o \in Authorizations : authz'[o].st # "none" => authz'[o].c \in Clients
  BY Aged DEF TypeOK
<1>3. /\ sess' \in [Sessions -> SessRows]
      /\ \A s \in Sessions : sess'[s].st # "none" => sess'[s].u \in Users /\ sess'[s].c \in Clients
  BY Aged DEF TypeOK
<1> QED
  BY <1>1, <1>2, <1>3 DEF TypeOK

-----------------------------------------------------------------------------
(***************************************************************************)
(* The invariant, kind of step by kind of step.                            *)
(***************************************************************************)

Inv == HolderInv /\ CodeRedeemedOnce /\ ScopeInv /\ ScopesWereAgreed /\ ConsentInv

\* A request that has only read what it is about.
Harmless(q) ==
    \/ q.pc \in {"idle", "updating", "authorizing", "refreshing"}
    \/ q.pc = "redeeming" /\ authz[q.o].c = q.c /\ authz[q.o].st \in {"approved", "gone"}

\* Clients, accounts and requests that begin or end do not matter to it.
LEMMA QuietKeeps ==
    ASSUME TypeOK, Inv, UNCHANGED <<conf, authz, consent, sess, agreed>>,
           \A r \in Requests : req'[r] = req[r] \/ Harmless(req'[r])
    PROVE  Inv'
<1>1. HolderInv'
  BY DEF Inv, HolderInv, Harmless
<1>2. CodeRedeemedOnce' /\ ScopesWereAgreed'
  BY DEF Inv, CodeRedeemedOnce, ScopesWereAgreed, Live
<1>3. ScopeInv'
  BY DEF Inv, ScopeInv, Harmless
<1>4. ConsentInv'
  BY DEF Inv, ConsentInv, Harmless, Live
<1> QED
  BY <1>1, <1>2, <1>3, <1>4 DEF Inv

\* An authorization whose row nobody holds moves on, but not to an approval.
LEMMA MovedKeeps ==
    ASSUME TypeOK, Inv, NEW o \in Authorizations, Only(authz, authz', Authorizations, o),
           UNCHANGED <<conf, consent, sess, agreed>>,
           \A r \in Requests : req'[r] = req[r] \/ req'[r].pc = "idle",
           authz[o].st = "none" \/ (authz[o].st = "pending" /\ authz[o].lock \notin Requests),
           authz'[o].st \notin {"approved", "none"}
    PROVE  Inv'
<1>1. \A r \in Requests : req'[r].pc \in {"approving", "redeeming", "issuing"} =>
          req'[r] = req[r] /\ req[r].o # o /\ req[r].o \in Authorizations
  BY DEF Inv, HolderInv, TypeOK, Named
<1>2. HolderInv'
  <2>1. \A s \in Sessions : sess[s].auth # None => sess[s].auth \in Authorizations /\ sess[s].auth # o
    BY DEF Inv, HolderInv, TypeOK, SessRows
  <2> QED
    BY <1>1, <2>1 DEF Inv, HolderInv, Only
<1>3. CodeRedeemedOnce' /\ ScopesWereAgreed'
  BY DEF Inv, CodeRedeemedOnce, ScopesWereAgreed, Live
<1>4. \A p \in Authorizations : authz'[p].st = "approved" => authz'[p] = authz[p]
  BY DEF Only
<1>5. \A r \in Requests : req'[r].pc = "approving" =>
          req'[r] = req[r] /\ authz'[req'[r].o] = authz[req[r].o]
  BY <1>1 DEF Only
<1>6. ScopeInv'
  BY <1>4, <1>5 DEF Inv, ScopeInv
<1>7. ConsentInv'
  BY <1>4, <1>5 DEF Inv, ConsentInv, Live
<1> QED
  BY <1>2, <1>3, <1>6, <1>7 DEF Inv

\* Sessions that end, with the consents they rest on.
LEMMA RevokedKeeps ==
    ASSUME TypeOK, Inv, NEW S, NEW P \in SUBSET (Users \X Clients),
           sess' = End(S), consent' = Revoked(P), UNCHANGED <<conf, authz, req, agreed>>,
           \A s \in Sessions : Live(s) /\ <<sess[s].u, sess[s].c>> \in P => s \in S
    PROVE  Inv'
<1>1. HolderInv' /\ CodeRedeemedOnce'
  BY Ended DEF Inv, HolderInv, CodeRedeemedOnce
<1>2. \A u \in Users, c \in Clients : consent'[<<u, c>>].scopes = consent[<<u, c>>].scopes
  BY RevokedOnly
<1>3. ScopeInv'
  BY <1>2 DEF Inv, ScopeInv
<1>4. \A s \in Sessions : Live(s)' => Live(s) /\ sess'[s] = sess[s] /\ s \notin S
  BY Ended DEF Live
<1>5. ScopesWereAgreed'
  BY <1>4 DEF Inv, ScopesWereAgreed
<1>6. \A u \in Users, c \in Clients :
        /\ consent[<<u, c>>].times \in Nat
        /\ \/ consent'[<<u, c>>] = consent[<<u, c>>]
           \/ consent'[<<u, c>>].times = consent[<<u, c>>].times + 1 /\ <<u, c>> \in P
  BY RevokedOnly DEF TypeOK, ConsentRows
<1>7. ASSUME NEW u \in Users, NEW c \in Clients, NEW read \in Nat, RestsOn(consent[<<u, c>>], read)
      PROVE  RestsOn(consent'[<<u, c>>], read)
  <2>1. CASE consent'[<<u, c>>] = consent[<<u, c>>]
    BY <1>7, <2>1 DEF RestsOn
  <2>2. CASE consent'[<<u, c>>].times = consent[<<u, c>>].times + 1
    <3>1. PICK n \in Nat : n = consent[<<u, c>>].times /\ read <= n
      BY <1>6, <1>7 DEF RestsOn
    <3>2. consent'[<<u, c>>].times = n + 1
      BY <2>2, <3>1
    <3>3. read <= n + 1 /\ read < n + 1
      <4>1. read <= n
        BY <3>1
      <4> QED
        BY <4>1
    <3>4. read <= consent'[<<u, c>>].times /\ read < consent'[<<u, c>>].times
      BY <3>2, <3>3
    <3> QED
      BY <3>4 DEF RestsOn
  <2> QED
    BY <1>6, <2>1, <2>2
<1>8. ConsentInv'
  <2>1. \A o \in Authorizations : authz[o].read \in Nat
        /\ (authz[o].st = "approved" => authz[o].u \in Users /\ authz[o].c \in Clients)
    BY DEF Inv, HolderInv, TypeOK, AuthzRows
  <2>2. \A r \in Requests : req[r].pc = "approving" =>
          /\ req[r].read \in Nat
          /\ authz[req[r].o].u \in Users /\ authz[req[r].o].c \in Clients
    BY DEF Inv, HolderInv, TypeOK, Standings, Named
  <2>3. \A s \in Sessions : Live(s) => sess[s].u \in Users /\ sess[s].c \in Clients /\ sess[s].read \in Nat
    BY DEF TypeOK, SessRows, Live
  <2>4. ASSUME NEW o \in Authorizations, authz'[o].st = "approved", authz'[o].c \notin conf'.first
        PROVE  RestsOn(consent'[<<authz'[o].u, authz'[o].c>>], authz'[o].read)
    BY <1>7, <2>1, <2>4 DEF Inv, ConsentInv
  <2>5. ASSUME NEW r \in Requests, req'[r].pc = "approving", authz'[req'[r].o].c \notin conf'.first
        PROVE  RestsOn(consent'[<<authz'[req'[r].o].u, authz'[req'[r].o].c>>], req'[r].read)
    BY <1>7, <2>2, <2>5 DEF Inv, ConsentInv
  <2>6. ASSUME NEW s \in Sessions, Live(s)'
        PROVE  /\ sess'[s].born = consent'[<<sess'[s].u, sess'[s].c>>].times
               /\ sess'[s].c \notin conf'.first => RestsOn(consent'[<<sess'[s].u, sess'[s].c>>], sess'[s].read)
    <3>1. Live(s) /\ sess'[s] = sess[s] /\ s \notin S /\ sess[s].u \in Users /\ sess[s].c \in Clients
      BY <1>4, <2>3, <2>6
    <3>2. <<sess[s].u, sess[s].c>> \notin P
      BY <3>1
    <3>3. consent'[<<sess[s].u, sess[s].c>>] = consent[<<sess[s].u, sess[s].c>>]
      BY <3>1, <3>2, RevokedOnly
    <3> QED
      BY <3>1, <3>3 DEF Inv, ConsentInv
  <2> QED
    BY <2>4, <2>5, <2>6 DEF ConsentInv
<1> QED
  BY <1>1, <1>3, <1>5, <1>8 DEF Inv

\* Ageing, refreshing and switching users off: no session starts, and none
\* changes in what it may do.
LEMMA SessionsKeep ==
    ASSUME TypeOK, Inv, UNCHANGED <<conf, consent, agreed>>,
           \A r \in Requests : req'[r] = req[r] \/ req'[r].pc = "idle",
           \A o \in Authorizations :
              /\ authz'[o].st = authz[o].st /\ authz'[o].c = authz[o].c /\ authz'[o].u = authz[o].u
              /\ authz'[o].scopes = authz[o].scopes /\ authz'[o].lock = authz[o].lock
              /\ authz'[o].read = authz[o].read,
           \A s \in Sessions :
              /\ sess'[s].st = "live" => sess[s].st = "live"
              /\ sess'[s].auth = sess[s].auth
              /\ sess'[s].st = "live" =>
                    /\ sess'[s].u = sess[s].u /\ sess'[s].c = sess[s].c /\ sess'[s].scopes = sess[s].scopes
                    /\ sess'[s].read = sess[s].read /\ sess'[s].born = sess[s].born
    PROVE  Inv'
<1>1. \A r \in Requests : req'[r].pc # "idle" => req'[r] = req[r]
  OBVIOUS
<1>2. \A r \in Requests : req[r].pc \in {"approving", "redeeming", "issuing"} => req[r].o \in Authorizations
  BY DEF TypeOK, Named
<1>3. \A s \in Sessions : sess[s].auth # None => sess[s].auth \in Authorizations
  BY DEF TypeOK, SessRows
<1>4. HolderInv'
  BY <1>1, <1>2, <1>3 DEF Inv, HolderInv
<1>5. CodeRedeemedOnce' /\ ScopesWereAgreed'
  BY DEF Inv, CodeRedeemedOnce, ScopesWereAgreed, Live
<1>6. \A r \in Requests : req'[r].pc = "approving" =>
        /\ req'[r] = req[r]
        /\ authz'[req[r].o].c = authz[req[r].o].c /\ authz'[req[r].o].u = authz[req[r].o].u
        /\ authz'[req[r].o].scopes = authz[req[r].o].scopes
  BY <1>1, <1>2
<1>7. ScopeInv'
  <2>1. \A u \in Users, c \in Clients : AgreedTo(agreed', u, c, consent'[<<u, c>>].scopes)
    BY DEF Inv, ScopeInv
  <2>2. \A o \in Authorizations : authz'[o].st = "approved" /\ authz'[o].c \notin conf'.first =>
          AgreedTo(agreed', authz'[o].u, authz'[o].c, authz'[o].scopes)
    BY DEF Inv, ScopeInv
  <2>3. ASSUME NEW r \in Requests, req'[r].pc = "approving", authz'[req'[r].o].c \notin conf'.first
        PROVE  AgreedTo(agreed', authz'[req'[r].o].u, authz'[req'[r].o].c, authz'[req'[r].o].scopes)
    <3>1. req[r].pc = "approving" /\ authz[req[r].o].c \notin conf.first
      BY <1>6, <2>3
    <3>2. AgreedTo(agreed, authz[req[r].o].u, authz[req[r].o].c, authz[req[r].o].scopes)
      BY <3>1 DEF Inv, ScopeInv
    <3> QED
      BY <1>6, <2>3, <3>2
  <2> QED
    BY <2>1, <2>2, <2>3 DEF ScopeInv
<1>8. ConsentInv'
  <2>1. \A o \in Authorizations : authz'[o].st = "approved" /\ authz'[o].c \notin conf'.first =>
          RestsOn(consent'[<<authz'[o].u, authz'[o].c>>], authz'[o].read)
    BY DEF Inv, ConsentInv
  <2>2. ASSUME NEW r \in Requests, req'[r].pc = "approving", authz'[req'[r].o].c \notin conf'.first
        PROVE  RestsOn(consent'[<<authz'[req'[r].o].u, authz'[req'[r].o].c>>], req'[r].read)
    <3>1. req[r].pc = "approving" /\ authz[req[r].o].c \notin conf.first
      BY <1>6, <2>2
    <3>2. RestsOn(consent[<<authz[req[r].o].u, authz[req[r].o].c>>], req[r].read)
      BY <3>1 DEF Inv, ConsentInv
    <3> QED
      BY <1>6, <2>2, <3>2
  <2>3. \A s \in Sessions : Live(s)' => sess'[s].born = consent'[<<sess'[s].u, sess'[s].c>>].times
    BY DEF Inv, ConsentInv, Live
  <2>4. \A s \in Sessions : Live(s)' /\ sess'[s].c \notin conf'.first =>
          RestsOn(consent'[<<sess'[s].u, sess'[s].c>>], sess'[s].read)
    BY DEF Inv, ConsentInv, Live
  <2> QED
    BY <2>1, <2>2, <2>3, <2>4 DEF ConsentInv
<1> QED
  BY <1>4, <1>5, <1>7, <1>8 DEF Inv

\* The code is locked.
LEMMA LockCodeKeeps ==
    ASSUME TypeOK, Inv, NEW r \in Requests, LockCode(r) PROVE Inv'
<1> DEFINE o == req[r].o
<1>1. UNCHANGED <<conf, consent, sess, agreed>> /\ req[r].pc = "redeeming" /\ o \in Authorizations
  BY CodeLocked DEF LockCode
<1>2. CASE Finish(r) /\ UNCHANGED authz
  BY <1>1, <1>2, Finished, QuietKeeps DEF Only, Harmless
<1>3. CASE /\ req' = [req EXCEPT ![r].pc = "issuing"]
           /\ authz[o].st = "approved" /\ authz[o].lock = None
           /\ authz' \in [Authorizations -> AuthzRows] /\ Only(authz, authz', Authorizations, o)
           /\ authz'[o].lock = r
           /\ authz'[o].st = authz[o].st /\ authz'[o].c = authz[o].c /\ authz'[o].u = authz[o].u
           /\ authz'[o].scopes = authz[o].scopes /\ authz'[o].read = authz[o].read
  <2>1. req'[r].pc = "issuing" /\ req'[r].o = o /\ req'[r].c = req[r].c /\ Only(req, req', Requests, r)
    <3>1. req[r] \in Standings /\ req \in [Requests -> Standings]
      BY DEF TypeOK
    <3> QED
      BY <1>3, <3>1 DEF Standings, Only
  <2>2. \A p \in Authorizations :
          /\ authz'[p].st = authz[p].st /\ authz'[p].c = authz[p].c /\ authz'[p].u = authz[p].u
          /\ authz'[p].scopes = authz[p].scopes /\ authz'[p].read = authz[p].read
    BY <1>3 DEF Only
  <2>3. ASSUME NEW q \in Requests, q # r, req[q].pc \in {"approving", "issuing"}
        PROVE  req[q].o # o
    <3>1. authz[req[q].o].lock = q
      BY <2>3 DEF Inv, HolderInv
    <3>2. None \notin Requests
      BY OAuthAssumption
    <3> QED
      BY <1>3, <3>1, <3>2
  <2>4. \A q \in Requests : req[q].pc \in {"approving", "redeeming", "issuing"} => req[q].o \in Authorizations
    BY DEF TypeOK, Named
  <2>5. \A s \in Sessions : sess[s].auth # None => sess[s].auth \in Authorizations
    BY DEF TypeOK, SessRows
  <2> HIDE DEF o
  <2>6. HolderInv'
    <3>1. ASSUME NEW q \in Requests, req'[q].pc = "approving"
          PROVE  authz'[req'[q].o].st = "pending" /\ authz'[req'[q].o].lock = q /\ authz'[req'[q].o].u \in Users
      <4>1. q # r /\ req'[q] = req[q]
        BY <2>1, <3>1 DEF Only
      <4>2. req[q].o # o /\ req[q].o \in Authorizations
        BY <2>3, <2>4, <3>1, <4>1
      <4>3. authz'[req[q].o] = authz[req[q].o]
        BY <1>3, <4>2 DEF Only
      <4> QED
        BY <3>1, <4>1, <4>3 DEF Inv, HolderInv
    <3>2. ASSUME NEW q \in Requests, req'[q].pc \in {"redeeming", "issuing"}
          PROVE  authz'[req'[q].o].c = req'[q].c /\ authz'[req'[q].o].st \in {"approved", "gone"}
      <4>1. req'[q].o = req[q].o /\ req'[q].c = req[q].c /\ req[q].pc \in {"redeeming", "issuing"}
        BY <1>1, <2>1, <3>2 DEF Only, o
      <4> QED
        BY <2>2, <2>4, <4>1 DEF Inv, HolderInv
    <3>3. ASSUME NEW q \in Requests, req'[q].pc = "issuing"
          PROVE  authz'[req'[q].o].st = "approved" /\ authz'[req'[q].o].lock = q
      <4>1. CASE q = r
        BY <1>3, <2>1, <4>1
      <4>2. CASE q # r
        <5>1. req'[q] = req[q] /\ req[q].o # o /\ req[q].o \in Authorizations
          BY <2>1, <2>3, <2>4, <3>3, <4>2 DEF Only
        <5>2. authz'[req[q].o] = authz[req[q].o]
          BY <1>3, <5>1 DEF Only
        <5> QED
          BY <3>3, <5>1, <5>2 DEF Inv, HolderInv
      <4> QED
        BY <4>1, <4>2
    <3>4. \A p \in Authorizations : authz'[p].st = "approved" => authz'[p].u \in Users
      BY <2>2 DEF Inv, HolderInv
    <3>5. \A s \in Sessions : sess'[s].auth # None => authz'[sess'[s].auth].st = "gone"
      BY <1>1, <2>2, <2>5 DEF Inv, HolderInv
    <3> QED
      BY <3>1, <3>2, <3>3, <3>4, <3>5 DEF HolderInv
  <2>7. \A q \in Requests : req'[q].pc = "approving" =>
          /\ req'[q] = req[q] /\ req[q].o \in Authorizations
          /\ authz'[req[q].o].c = authz[req[q].o].c /\ authz'[req[q].o].u = authz[req[q].o].u
          /\ authz'[req[q].o].scopes = authz[req[q].o].scopes
    BY <2>1, <2>2, <2>4 DEF Only
  <2>8. ScopeInv' /\ ConsentInv'
    <3>1. /\ \A u \in Users, c \in Clients : AgreedTo(agreed', u, c, consent'[<<u, c>>].scopes)
          /\ \A p \in Authorizations : authz'[p].st = "approved" /\ authz'[p].c \notin conf'.first =>
               AgreedTo(agreed', authz'[p].u, authz'[p].c, authz'[p].scopes)
      BY <1>1, <2>2 DEF Inv, ScopeInv
    <3>2. \A q \in Requests : req'[q].pc = "approving" /\ authz'[req'[q].o].c \notin conf'.first =>
            AgreedTo(agreed', authz'[req'[q].o].u, authz'[req'[q].o].c, authz'[req'[q].o].scopes)
      BY <1>1, <2>7 DEF Inv, ScopeInv
    <3>3. \A p \in Authorizations : authz'[p].st = "approved" /\ authz'[p].c \notin conf'.first =>
            RestsOn(consent'[<<authz'[p].u, authz'[p].c>>], authz'[p].read)
      BY <1>1, <2>2 DEF Inv, ConsentInv
    <3>4. \A q \in Requests : req'[q].pc = "approving" /\ authz'[req'[q].o].c \notin conf'.first =>
            RestsOn(consent'[<<authz'[req'[q].o].u, authz'[req'[q].o].c>>], req'[q].read)
      BY <1>1, <2>7 DEF Inv, ConsentInv
    <3>5. \A s \in Sessions : Live(s)' =>
            /\ sess'[s].born = consent'[<<sess'[s].u, sess'[s].c>>].times
            /\ sess'[s].c \notin conf'.first => RestsOn(consent'[<<sess'[s].u, sess'[s].c>>], sess'[s].read)
      BY <1>1 DEF Inv, ConsentInv, Live
    <3> QED
      BY <3>1, <3>2, <3>3, <3>4, <3>5 DEF ScopeInv, ConsentInv
  <2>9. CodeRedeemedOnce' /\ ScopesWereAgreed'
    BY <1>1 DEF Inv, CodeRedeemedOnce, ScopesWereAgreed, Live
  <2> QED
    BY <2>6, <2>8, <2>9 DEF Inv
<1> QED
  BY <1>2, <1>3, CodeLocked

\* A user claims an authorization, and the request may be about to approve it.
LEMMA GetAuthorizationKeeps ==
    ASSUME TypeOK, Inv, NEW r \in Requests, NEW u \in Users, NEW o \in Authorizations, GetAuthorization(r, u, o)
    PROVE  Inv'
<1> DEFINE c == authz[o].c
           read == consent[<<u, c>>].times
           q == AboutToApprove(u, o)
<1>1. UNCHANGED <<conf, consent, sess, agreed>>
  BY DEF GetAuthorization
<1>2. /\ authz' \in [Authorizations -> AuthzRows] /\ Only(authz, authz', Authorizations, o)
      /\ authz[o].st = "pending" /\ authz[o].lock = None
      /\ authz'[o].st = "pending" /\ authz'[o].c = c /\ authz'[o].u = u
      /\ authz'[o].scopes = authz[o].scopes
      /\ \/ req' = req
         \/ /\ authz'[o].lock = r
            /\ FindActiveConsent(u, c, authz[o].scopes) \/ c \in conf.first
            /\ Begin(r, q)
  BY Claimed
<1>3. c \in Clients
  BY <1>2 DEF TypeOK
<1>4. consent[<<u, c>>] \in ConsentRows /\ read \in Nat
  BY <1>3 DEF TypeOK, ConsentRows
<1>5. q.pc = "approving" /\ q.o = o /\ q.read = read
  <2>1. q = [Idle EXCEPT !.pc = "approving", !.o = o, !.read = read]
    BY DEF AboutToApprove
  <2> HIDE DEF q, read
  <2> QED
    BY <2>1 DEF Idle
<1>6. CASE req' = req
  <2>1. None \notin Requests
    BY OAuthAssumption
  <2> QED
    BY <1>1, <1>2, <1>6, <2>1, MovedKeeps
<1>7. CASE /\ authz'[o].lock = r
           /\ FindActiveConsent(u, c, authz[o].scopes) \/ c \in conf.first
           /\ Begin(r, q)
  <2> HIDE DEF q, read
  <2>1. req'[r] = q /\ Only(req, req', Requests, r) /\ req[r].pc = "idle"
    BY <1>7 DEF Begin, TypeOK, Only
  <2>2. \A x \in Requests :
          req[x].pc \in {"approving", "redeeming", "issuing"} => req[x].o # o /\ req[x].o \in Authorizations
    <3>1. None \notin Requests
      BY OAuthAssumption
    <3> QED
      BY <1>2, <3>1 DEF Inv, HolderInv, TypeOK, Named
  <2>3. \A x \in Requests : x # r /\ req'[x].pc \in {"approving", "redeeming", "issuing"} =>
          req'[x] = req[x] /\ authz'[req'[x].o] = authz[req[x].o]
    BY <1>2, <2>1, <2>2 DEF Only
  <2>4. \A p \in Authorizations : p # o => authz'[p] = authz[p]
    BY <1>2 DEF Only
  <2>5. HolderInv'
    <3>1. \A s \in Sessions : sess[s].auth # None => sess[s].auth \in Authorizations /\ sess[s].auth # o
      BY <1>2 DEF Inv, HolderInv, TypeOK, SessRows
    <3> QED
      BY <1>1, <1>2, <1>5, <1>7, <2>1, <2>3, <2>4, <3>1 DEF Inv, HolderInv
  <2>6. c \notin conf.first => AgreedTo(agreed, u, c, authz[o].scopes) /\ RestsOn(consent[<<u, c>>], read)
    <3>1. c \notin conf.first => consent[<<u, c>>].st = "active" /\ authz[o].scopes \subseteq consent[<<u, c>>].scopes
      BY <1>7 DEF FindActiveConsent
    <3>2. AgreedTo(agreed, u, c, consent[<<u, c>>].scopes)
      BY <1>3 DEF Inv, ScopeInv
    <3>3. read <= consent[<<u, c>>].times
      <4>1. PICK n \in Nat : n = read
        BY <1>4
      <4>2. n <= n
        OBVIOUS
      <4> QED
        BY <4>1, <4>2 DEF read
    <3> QED
      BY <3>1, <3>2, <3>3 DEF AgreedTo, RestsOn
  <2>7. ScopeInv'
    <3>1. \A p \in Authorizations : authz'[p].st = "approved" => authz'[p] = authz[p]
      BY <1>2, <2>4
    <3>2. ASSUME NEW x \in Requests, req'[x].pc = "approving", authz'[req'[x].o].c \notin conf'.first
          PROVE  AgreedTo(agreed', authz'[req'[x].o].u, authz'[req'[x].o].c, authz'[req'[x].o].scopes)
      <4>1. CASE x = r
        BY <1>1, <1>2, <1>5, <2>1, <2>6, <3>2, <4>1
      <4>2. CASE x # r
        BY <1>1, <2>3, <3>2, <4>2 DEF Inv, ScopeInv
      <4> QED
        BY <4>1, <4>2
    <3> QED
      BY <1>1, <3>1, <3>2 DEF Inv, ScopeInv
  <2>8. ConsentInv'
    <3>1. \A p \in Authorizations : authz'[p].st = "approved" => authz'[p] = authz[p]
      BY <1>2, <2>4
    <3>2. ASSUME NEW x \in Requests, req'[x].pc = "approving", authz'[req'[x].o].c \notin conf'.first
          PROVE  RestsOn(consent'[<<authz'[req'[x].o].u, authz'[req'[x].o].c>>], req'[x].read)
      <4>1. CASE x = r
        BY <1>1, <1>2, <1>5, <2>1, <2>6, <3>2, <4>1
      <4>2. CASE x # r
        BY <1>1, <2>3, <3>2, <4>2 DEF Inv, ConsentInv
      <4> QED
        BY <4>1, <4>2
    <3> QED
      BY <1>1, <3>1, <3>2 DEF Inv, ConsentInv, Live
  <2>9. CodeRedeemedOnce' /\ ScopesWereAgreed'
    BY <1>1 DEF Inv, CodeRedeemedOnce, ScopesWereAgreed, Live
  <2> QED
    BY <2>5, <2>7, <2>8, <2>9 DEF Inv
<1> QED
  BY <1>2, <1>6, <1>7

\* What is approved without asking is covered by the consent that was found.
LEMMA AutoApproveKeeps ==
    ASSUME TypeOK, Inv, NEW r \in Requests, AutoApprove(r) PROVE Inv'
<1> DEFINE o == req[r].o
<1>1. UNCHANGED <<conf, consent, sess, agreed>> /\ Finish(r)
  BY DEF AutoApprove
<1>2. /\ o \in Authorizations /\ req[r].pc = "approving"
      /\ authz' \in [Authorizations -> AuthzRows] /\ Only(authz, authz', Authorizations, o)
      /\ authz'[o].st = "approved" /\ authz'[o].c = authz[o].c /\ authz'[o].u = authz[o].u
      /\ authz'[o].scopes = authz[o].scopes /\ authz'[o].read = req[r].read
  BY AutoApproved
<1>3. authz[o].st = "pending" /\ authz[o].lock = r /\ authz[o].u \in Users
  BY <1>2 DEF Inv, HolderInv
<1>4. req'[r].pc = "idle" /\ Only(req, req', Requests, r)
  BY <1>1, Finished
<1>5. \A x \in Requests : req'[x].pc \in {"approving", "redeeming", "issuing"} =>
        req'[x] = req[x] /\ req[x].o \in Authorizations /\ req[x].o # o
  <2>1. \A x \in Requests : x # r /\ req[x].pc \in {"approving", "redeeming", "issuing"} =>
          req[x].o \in Authorizations /\ req[x].o # o
    BY <1>3 DEF Inv, HolderInv, TypeOK, Named
  <2> QED
    BY <1>4, <2>1 DEF Only
<1>6. \A s \in Sessions : sess[s].auth # None => sess[s].auth \in Authorizations /\ sess[s].auth # o
  BY <1>3 DEF Inv, HolderInv, TypeOK, SessRows
<1>7. authz[o].c \notin conf.first =>
        /\ AgreedTo(agreed, authz[o].u, authz[o].c, authz[o].scopes)
        /\ RestsOn(consent[<<authz[o].u, authz[o].c>>], req[r].read)
  BY <1>2 DEF Inv, ScopeInv, ConsentInv
<1> HIDE DEF o
<1>8. \A x \in Requests : req'[x].pc \in {"approving", "redeeming", "issuing"} =>
        req'[x] = req[x] /\ authz'[req'[x].o] = authz[req[x].o]
  BY <1>2, <1>5 DEF Only
<1>9. HolderInv'
  BY <1>1, <1>2, <1>3, <1>6, <1>8 DEF Inv, HolderInv, Only
<1>10. CodeRedeemedOnce' /\ ScopesWereAgreed'
  BY <1>1 DEF Inv, CodeRedeemedOnce, ScopesWereAgreed, Live
<1>11. \A p \in Authorizations : authz'[p].st = "approved" /\ authz'[p].c \notin conf'.first =>
         /\ AgreedTo(agreed', authz'[p].u, authz'[p].c, authz'[p].scopes)
         /\ RestsOn(consent'[<<authz'[p].u, authz'[p].c>>], authz'[p].read)
  <2>1. ASSUME NEW p \in Authorizations, p # o, authz'[p].st = "approved", authz'[p].c \notin conf'.first
        PROVE  /\ AgreedTo(agreed', authz'[p].u, authz'[p].c, authz'[p].scopes)
               /\ RestsOn(consent'[<<authz'[p].u, authz'[p].c>>], authz'[p].read)
    <3>1. authz'[p] = authz[p]
      BY <1>2, <2>1 DEF Only
    <3> QED
      BY <1>1, <2>1, <3>1 DEF Inv, ScopeInv, ConsentInv
  <2> QED
    BY <1>1, <1>2, <1>7, <2>1
<1>12. ScopeInv' /\ ConsentInv'
  BY <1>1, <1>8, <1>11 DEF Inv, ScopeInv, ConsentInv, Live
<1> QED
  BY <1>9, <1>10, <1>12 DEF Inv

\* The user is asked: the consent is there from then on.
LEMMA ApproveKeeps ==
    ASSUME TypeOK, Inv, NEW u \in Users, NEW o \in Authorizations, Approve(u, o) PROVE Inv'
<1>0. authz[o].c \in Clients
  BY ApprovedByUser
<1>c. PICK c \in Clients : c = authz[o].c
  BY <1>0
<1>1. UNCHANGED <<conf, sess, req>> /\ agreed' = agreed \cup {<<u, c, x>> : x \in authz[o].scopes}
  BY <1>c DEF Approve
<1>2. /\ authz' \in [Authorizations -> AuthzRows] /\ Only(authz, authz', Authorizations, o)
      /\ authz[o].st = "pending" /\ authz[o].lock = None /\ authz[o].u = u
      /\ authz'[o].st = "approved" /\ authz'[o].c = c /\ authz'[o].u = u
      /\ authz'[o].scopes = authz[o].scopes /\ authz'[o].read = consent[<<u, c>>].times
  BY <1>c, ApprovedByUser
<1>3. /\ Only(consent, consent', Users \X Clients, <<u, c>>)
      /\ consent'[<<u, c>>].st = "active" /\ consent'[<<u, c>>].scopes = authz[o].scopes
      /\ consent'[<<u, c>>].times = consent[<<u, c>>].times
  BY <1>c, Consented
<1>4. consent[<<u, c>>].times \in Nat
  BY DEF TypeOK, ConsentRows
<1>5. \A v, d, S : AgreedTo(agreed, v, d, S) => AgreedTo(agreed', v, d, S)
  BY <1>1 DEF AgreedTo
<1>6. AgreedTo(agreed', u, c, authz[o].scopes)
  BY <1>1 DEF AgreedTo
<1>7. \A v \in Users, d \in Clients : consent'[<<v, d>>].times = consent[<<v, d>>].times
        /\ (consent'[<<v, d>>].st = "active" \/ consent'[<<v, d>>] = consent[<<v, d>>])
  BY <1>3 DEF Only
<1>8. \A n : \A v \in Users, d \in Clients : RestsOn(consent[<<v, d>>], n) => RestsOn(consent'[<<v, d>>], n)
  BY <1>7 DEF RestsOn
<1>9. RestsOn(consent'[<<u, c>>], consent[<<u, c>>].times)
  <2>1. PICK n \in Nat : n = consent[<<u, c>>].times
    BY <1>4
  <2>2. n <= n
    OBVIOUS
  <2> QED
    BY <1>3, <2>1, <2>2 DEF RestsOn
<1>10. \A x \in Requests : req[x].pc \in {"approving", "redeeming", "issuing"} =>
         req[x].o \in Authorizations /\ req[x].o # o /\ authz'[req[x].o] = authz[req[x].o]
  <2>1. None \notin Requests
    BY OAuthAssumption
  <2>2. \A x \in Requests : req[x].pc \in {"approving", "redeeming", "issuing"} =>
          req[x].o \in Authorizations /\ req[x].o # o
    BY <1>2, <2>1 DEF Inv, HolderInv, TypeOK, Named
  <2> QED
    BY <1>2, <2>2 DEF Only
<1>11. HolderInv'
  <2>1. \A s \in Sessions : sess[s].auth # None => sess[s].auth \in Authorizations /\ sess[s].auth # o
    BY <1>2 DEF Inv, HolderInv, TypeOK, SessRows
  <2> QED
    BY <1>1, <1>2, <1>10, <2>1 DEF Inv, HolderInv, Only
<1>12. CodeRedeemedOnce'
  BY <1>1 DEF Inv, CodeRedeemedOnce
<1>13. ScopesWereAgreed'
  BY <1>1 DEF Inv, ScopesWereAgreed, Live
<1>14. ScopeInv'
  <2>1. ASSUME NEW v \in Users, NEW d \in Clients PROVE AgreedTo(agreed', v, d, consent'[<<v, d>>].scopes)
    <3>1. CASE v = u /\ d = c
      BY <1>3, <1>6, <3>1
    <3>2. CASE ~(v = u /\ d = c)
      <4>1. consent'[<<v, d>>] = consent[<<v, d>>]
        BY <1>3, <3>2 DEF Only
      <4> QED
        BY <1>5, <4>1 DEF Inv, ScopeInv
    <3> QED
      BY <3>1, <3>2
  <2>2. ASSUME NEW p \in Authorizations, authz'[p].st = "approved", authz'[p].c \notin conf'.first
        PROVE  AgreedTo(agreed', authz'[p].u, authz'[p].c, authz'[p].scopes)
    <3>1. CASE p = o
      BY <1>2, <1>6, <3>1
    <3>2. CASE p # o
      <4>1. authz'[p] = authz[p]
        BY <1>2, <3>2 DEF Only
      <4> QED
        BY <1>1, <1>5, <2>2, <4>1 DEF Inv, ScopeInv
    <3> QED
      BY <3>1, <3>2
  <2>3. ASSUME NEW x \in Requests, req'[x].pc = "approving", authz'[req'[x].o].c \notin conf'.first
        PROVE  AgreedTo(agreed', authz'[req'[x].o].u, authz'[req'[x].o].c, authz'[req'[x].o].scopes)
    BY <1>1, <1>5, <1>10, <2>3 DEF Inv, ScopeInv
  <2> QED
    BY <2>1, <2>2, <2>3 DEF ScopeInv
<1>15. ConsentInv'
  <2>1. ASSUME NEW p \in Authorizations, authz'[p].st = "approved", authz'[p].c \notin conf'.first
        PROVE  RestsOn(consent'[<<authz'[p].u, authz'[p].c>>], authz'[p].read)
    <3>1. CASE p = o
      BY <1>2, <1>9, <3>1
    <3>2. CASE p # o
      <4>1. authz'[p] = authz[p]
        BY <1>2, <3>2 DEF Only
      <4>2. authz[p].u \in Users /\ authz[p].c \in Clients
        BY <2>1, <4>1 DEF Inv, HolderInv, TypeOK
      <4> QED
        BY <1>1, <1>8, <2>1, <4>1, <4>2 DEF Inv, ConsentInv
    <3> QED
      BY <3>1, <3>2
  <2>2. ASSUME NEW x \in Requests, req'[x].pc = "approving", authz'[req'[x].o].c \notin conf'.first
        PROVE  RestsOn(consent'[<<authz'[req'[x].o].u, authz'[req'[x].o].c>>], req'[x].read)
    <3>1. req'[x] = req[x] /\ req[x].o \in Authorizations /\ authz'[req[x].o] = authz[req[x].o]
      BY <1>1, <1>10, <2>2
    <3>2. authz[req[x].o].u \in Users /\ authz[req[x].o].c \in Clients
      BY <2>2, <3>1 DEF Inv, HolderInv, TypeOK
    <3> QED
      BY <1>1, <1>8, <2>2, <3>1, <3>2 DEF Inv, ConsentInv
  <2>3. ASSUME NEW s \in Sessions, Live(s)'
        PROVE  /\ sess'[s].born = consent'[<<sess'[s].u, sess'[s].c>>].times
               /\ sess'[s].c \notin conf'.first => RestsOn(consent'[<<sess'[s].u, sess'[s].c>>], sess'[s].read)
    <3>1. Live(s) /\ sess'[s] = sess[s]
      BY <1>1, <2>3 DEF Live
    <3>2. sess[s].u \in Users /\ sess[s].c \in Clients
      BY <3>1 DEF Live, TypeOK
    <3> QED
      BY <1>1, <1>7, <1>8, <3>1, <3>2 DEF Inv, ConsentInv
  <2> QED
    BY <2>1, <2>2, <2>3 DEF ConsentInv
<1> QED
  BY <1>11, <1>12, <1>13, <1>14, <1>15 DEF Inv

\* A session begins, and the code it was bought with is gone.
LEMMA GrantSessionKeeps ==
    ASSUME TypeOK, Inv, NEW r \in Requests, NEW s \in Sessions, GrantSession(r, s) PROVE Inv'
<1> DEFINE o == req[r].o
           a == authz[o]
<1>1. UNCHANGED <<conf, consent, agreed>> /\ Finish(r)
  BY DEF GrantSession
<1>2. /\ req[r].pc = "issuing" /\ o \in Authorizations /\ sess[s].st = "none"
      /\ a \in AuthzRows /\ a.u \in Users /\ a.c \in Clients /\ a.st = "approved"
      /\ authz' \in [Authorizations -> AuthzRows] /\ Only(authz, authz', Authorizations, o)
      /\ authz'[o].st = "gone" /\ authz'[o].c = a.c
      /\ sess' \in [Sessions -> SessRows] /\ Only(sess, sess', Sessions, s)
      /\ sess'[s].st = "live" /\ sess'[s].u = a.u /\ sess'[s].c = a.c /\ sess'[s].scopes = a.scopes
      /\ sess'[s].auth = o /\ sess'[s].read = a.read /\ sess'[s].born = consent[<<a.u, a.c>>].times
  BY Granted DEF Inv
<1>3. a.lock = r
  BY <1>2 DEF Inv, HolderInv
<1>4. req'[r].pc = "idle" /\ Only(req, req', Requests, r)
  BY <1>1, Finished
<1>5. \A x \in Requests : x # r /\ req[x].pc \in {"approving", "issuing"} =>
        req[x].o \in Authorizations /\ req[x].o # o
  BY <1>2, <1>3 DEF Inv, HolderInv, TypeOK, Named
<1>6. \A x \in Sessions : sess[x].auth # None => sess[x].auth \in Authorizations /\ sess[x].auth # o
  BY <1>2 DEF Inv, HolderInv, TypeOK, SessRows
<1>7. a.c \notin conf.first =>
        AgreedTo(agreed, a.u, a.c, a.scopes) /\ RestsOn(consent[<<a.u, a.c>>], a.read)
  BY <1>2 DEF Inv, ScopeInv, ConsentInv
<1>8. \A x \in Requests : req[x].pc = "redeeming" => req[x].o \in Authorizations
  BY DEF TypeOK, Named
<1> HIDE DEF o, a
<1>9. \A x \in Requests : req'[x].pc \in {"approving", "issuing"} =>
        req'[x] = req[x] /\ authz'[req'[x].o] = authz[req[x].o]
  BY <1>2, <1>4, <1>5 DEF Only
<1>10. \A p \in Authorizations : authz'[p] = authz[p] \/ (authz'[p].st = "gone" /\ authz'[p].c = authz[p].c)
  BY <1>2 DEF Only, a
<1>11. HolderInv'
  <2>1. ASSUME NEW x \in Requests, req'[x].pc \in {"redeeming", "issuing"}
        PROVE  authz'[req'[x].o].c = req'[x].c /\ authz'[req'[x].o].st \in {"approved", "gone"}
    <3>1. req'[x] = req[x]
      BY <1>4, <2>1 DEF Only
    <3>2. req[x].o \in Authorizations
      BY <2>1, <3>1 DEF TypeOK, Named
    <3>3. authz[req[x].o].c = req[x].c /\ authz[req[x].o].st \in {"approved", "gone"}
      BY <2>1, <3>1 DEF Inv, HolderInv
    <3> QED
      BY <1>10, <3>1, <3>2, <3>3
  <2>2. \A x \in Sessions : sess'[x].auth # None => authz'[sess'[x].auth].st = "gone"
    <3>1. ASSUME NEW x \in Sessions, x # s, sess'[x].auth # None PROVE authz'[sess'[x].auth].st = "gone"
      <4>1. sess'[x] = sess[x]
        BY <1>2, <3>1 DEF Only
      <4>2. sess[x].auth \in Authorizations /\ authz[sess[x].auth].st = "gone"
        BY <1>6, <3>1, <4>1 DEF Inv, HolderInv
      <4> QED
        BY <1>10, <4>1, <4>2
    <3> QED
      BY <1>2, <3>1
  <2>3. \A p \in Authorizations : authz'[p].st = "approved" => authz'[p].u \in Users
    BY <1>10 DEF Inv, HolderInv
  <2> QED
    BY <1>9, <2>1, <2>2, <2>3 DEF Inv, HolderInv
<1>12. CodeRedeemedOnce'
  <2>1. o # None
    BY <1>2, OAuthAssumption
  <2> QED
    BY <1>2, <1>6, <2>1 DEF Inv, CodeRedeemedOnce, Only
<1>13. ScopesWereAgreed'
  BY <1>1, <1>2, <1>7 DEF Inv, ScopesWereAgreed, Live, Only, AgreedTo
<1>14. ScopeInv'
  BY <1>1, <1>9, <1>10 DEF Inv, ScopeInv
<1>15. ConsentInv'
  <2>1. ASSUME NEW x \in Sessions, Live(x)'
        PROVE  /\ sess'[x].born = consent'[<<sess'[x].u, sess'[x].c>>].times
               /\ sess'[x].c \notin conf'.first => RestsOn(consent'[<<sess'[x].u, sess'[x].c>>], sess'[x].read)
    <3>1. CASE x = s
      BY <1>1, <1>2, <1>7, <3>1
    <3>2. CASE x # s
      <4>1. sess'[x] = sess[x]
        BY <1>2, <3>2 DEF Only
      <4> QED
        BY <1>1, <2>1, <4>1 DEF Inv, ConsentInv, Live
    <3> QED
      BY <3>1, <3>2
  <2> QED
    BY <1>1, <1>9, <1>10, <2>1 DEF Inv, ConsentInv
<1> QED
  BY <1>11, <1>12, <1>13, <1>14, <1>15 DEF Inv

\* What a request does in one step, besides what the lemmas above are about,
\* changes no consent and no session and approves nothing.
LEMMA RequestStepKeeps ==
    ASSUME TypeOK, Inv, NEW r \in Requests, ClientStep(r) \/ AuthorizeStep(r) \/ TokenStep(r) PROVE Inv'
<1>1. ASSUME NEW q, Begin(r, q), Harmless(q), Harmless(q)', UNCHANGED <<conf, authz, consent, sess, agreed>> PROVE Inv'
  <2>1. \A x \in Requests : req'[x] = req[x] \/ Harmless(req'[x])
    BY <1>1 DEF Begin, TypeOK
  <2> QED
    BY <1>1, <2>1, QuietKeeps
<1>2. ASSUME Finish(r) PROVE \A x \in Requests : req'[x] = req[x] \/ req'[x].pc = "idle"
  BY <1>2, Finished DEF Only
<1>3. CASE \E c \in Clients : RegenerateSecret(r, c)
  <2>1. PICK c \in Clients : RegenerateSecret(r, c)
    BY <1>3
  <2> DEFINE row == [client[c] EXCEPT !.secret = client[c].issued + 1, !.issued = client[c].issued + 1]
             q == [Idle EXCEPT !.pc = "updating", !.c = c, !.row = row]
  <2>2. Begin(r, q) /\ UNCHANGED <<conf, authz, consent, sess, agreed>>
    BY <2>1 DEF RegenerateSecret
  <2> HIDE DEF row
  <2>3. q.pc = "updating"
    BY DEF Idle
  <2> HIDE DEF q
  <2> QED
    BY <1>1, <2>2, <2>3 DEF Harmless
<1>4. CASE \E c \in Clients, uri \in Uris, grants \in {Grants, {"authorization_code"}} : UpdateClient(r, c, uri, grants)
  <2>1. PICK c \in Clients, uri \in Uris, grants \in {Grants, {"authorization_code"}} : UpdateClient(r, c, uri, grants)
    BY <1>4
  <2> DEFINE row == [client[c] EXCEPT !.uri = uri, !.grants = grants]
             q == [Idle EXCEPT !.pc = "updating", !.c = c, !.row = row]
  <2>2. Begin(r, q) /\ UNCHANGED <<conf, authz, consent, sess, agreed>>
    BY <2>1 DEF UpdateClient
  <2> HIDE DEF row
  <2>3. q.pc = "updating"
    BY DEF Idle
  <2> HIDE DEF q
  <2> QED
    BY <1>1, <2>2, <2>3 DEF Harmless
<1>5. CASE WriteClient(r)
  <2>1. UNCHANGED <<conf, authz, consent, sess, agreed>> /\ Finish(r)
    BY <1>5 DEF WriteClient
  <2> QED
    BY <1>2, <2>1, QuietKeeps DEF Harmless
<1>6. CASE \E c \in Clients, uri \in Uris, scopes \in SUBSET Scopes : Authorize(r, c, uri, scopes)
  <2>1. PICK c \in Clients, uri \in Uris, scopes \in SUBSET Scopes : Authorize(r, c, uri, scopes)
    BY <1>6
  <2> DEFINE q == [Idle EXCEPT !.pc = "authorizing", !.c = c, !.scopes = scopes]
  <2>2. Begin(r, q) /\ UNCHANGED <<conf, authz, consent, sess, agreed>>
    BY <2>1 DEF Authorize
  <2>3. q.pc = "authorizing"
    BY DEF Idle
  <2> HIDE DEF q
  <2> QED
    BY <1>1, <2>2, <2>3 DEF Harmless
<1>7. CASE \E c \in Clients, o \in Authorizations : CodeGrant(r, c, o)
  <2>1. PICK c \in Clients, o \in Authorizations : CodeGrant(r, c, o)
    BY <1>7
  <2> DEFINE q == [Idle EXCEPT !.pc = "redeeming", !.c = c, !.o = o]
  <2>2. Begin(r, q) /\ authz[o].st = "approved" /\ authz[o].c = c /\ UNCHANGED <<conf, authz, consent, sess, agreed>>
    BY <2>1 DEF CodeGrant
  <2>3. q.pc = "redeeming" /\ q.c = c /\ q.o = o
    BY DEF Idle
  <2> HIDE DEF q
  <2> QED
    BY <1>1, <2>2, <2>3 DEF Harmless
<1>8. CASE \E c \in Clients, s \in Sessions : \E tok \in 1..sess[s].tok : RefreshGrant(r, c, s, tok)
  <2>1. PICK c \in Clients, s \in Sessions : \E tok \in 1..sess[s].tok : RefreshGrant(r, c, s, tok)
    BY <1>8
  <2>0. PICK tok \in 1..sess[s].tok : RefreshGrant(r, c, s, tok)
    BY <2>1
  <2> DEFINE q == [Idle EXCEPT !.pc = "refreshing", !.c = c, !.s = s, !.tok = tok]
  <2>2. Begin(r, q) /\ UNCHANGED <<conf, authz, consent, sess, agreed>>
    BY <2>0 DEF RefreshGrant
  <2>3. q.pc = "refreshing"
    BY DEF Idle
  <2> HIDE DEF q
  <2> QED
    BY <1>1, <2>2, <2>3 DEF Harmless
<1>9. CASE RotateToken(r)
  <2>1. UNCHANGED <<conf, authz, consent, agreed>> /\ Finish(r)
    BY <1>9 DEF RotateToken
  <2> QED
    BY <1>2, <1>9, <2>1, Rotated, SessionsKeep
<1>10. CASE \E o \in Authorizations : InsertAuthorization(r, o)
  <2>1. PICK o \in Authorizations : InsertAuthorization(r, o)
    BY <1>10
  <2>2. UNCHANGED <<conf, consent, sess, agreed>> /\ Finish(r) /\ authz[o].st = "none"
    BY <2>1 DEF InsertAuthorization
  <2> DEFINE n == [NoAuthorization EXCEPT !.st = "pending", !.c = req[r].c, !.scopes = req[r].scopes]
  <2>3. authz' = [authz EXCEPT ![o] = n]
    BY <2>1 DEF InsertAuthorization
  <2>4. n.st = "pending"
    BY DEF NoAuthorization
  <2> HIDE DEF n
  <2>5. Only(authz, authz', Authorizations, o) /\ authz'[o].st = "pending"
    BY <2>3, <2>4 DEF Only, TypeOK
  <2> QED
    BY <1>2, <2>2, <2>5, MovedKeeps
<1> QED
  BY <1>3, <1>4, <1>5, <1>6, <1>7, <1>8, <1>9, <1>10, GetAuthorizationKeeps, AutoApproveKeeps,
     LockCodeKeeps, GrantSessionKeeps DEF ClientStep, AuthorizeStep, TokenStep

LEMMA OtherStepKeeps ==
    ASSUME TypeOK, Inv, OtherStep PROVE Inv'
<1>1. ASSUME NEW c \in Clients, NEW public \in BOOLEAN, RegisterClient(c, public) PROVE Inv'
  <2>1. UNCHANGED <<conf, authz, consent, sess, req, agreed>>
    BY <1>1 DEF RegisterClient
  <2> QED
    BY <2>1, QuietKeeps
<1>2. ASSUME NEW c \in Clients, DeleteClient(c) PROVE Inv'
  <2>1. PICK S : S = {s \in Sessions : Live(s) /\ sess[s].c = c}
    OBVIOUS
  <2>2. PICK P \in SUBSET (Users \X Clients) : P = Users \X {c}
    OBVIOUS
  <2>3. sess' = End(S) /\ consent' = Revoked(P) /\ UNCHANGED <<conf, authz, req, agreed>>
    BY <1>2, <2>1, <2>2 DEF DeleteClient
  <2>4. \A s \in Sessions : Live(s) /\ <<sess[s].u, sess[s].c>> \in P => s \in S
    BY <2>1, <2>2
  <2> QED
    BY <2>3, <2>4, RevokedKeeps
<1>3. ASSUME NEW u \in Users, NEW c \in Clients, RevokeGrant(u, c) PROVE Inv'
  <2>1. PICK S : S = {s \in Sessions : Live(s) /\ sess[s].u = u /\ sess[s].c = c}
    OBVIOUS
  <2>2. PICK P \in SUBSET (Users \X Clients) : P = {<<u, c>>}
    <3>1. {<<u, c>>} \in SUBSET (Users \X Clients)
      OBVIOUS
    <3> QED
      BY <3>1
  <2>3. sess' = End(S) /\ consent' = Revoked(P) /\ UNCHANGED <<conf, authz, req, agreed>>
    BY <1>3, <2>1, <2>2 DEF RevokeGrant
  <2>4. \A s \in Sessions : Live(s) /\ <<sess[s].u, sess[s].c>> \in P => s \in S
    BY <2>1, <2>2
  <2> QED
    BY <2>3, <2>4, RevokedKeeps
<1>4. ASSUME NEW u \in Users, NEW st \in {"banned", "deleted"}, SwitchOff(u, st) PROVE Inv'
  <2>1. PICK S : S = {s \in Sessions : Live(s) /\ sess[s].u = u}
    OBVIOUS
  <2>2. sess' = End(S) /\ UNCHANGED <<conf, authz, consent, req, agreed>>
    BY <1>4, <2>1 DEF SwitchOff
  <2>3. \A s \in Sessions : sess'[s].auth = sess[s].auth /\ (sess'[s].st = "live" => sess'[s] = sess[s])
    BY <2>2, Ended
  <2> QED
    BY <2>2, <2>3, SessionsKeep
<1>5. ASSUME NEW o \in Authorizations, MarkExpired(o) \/ \E u \in Users : Deny(u, o) PROVE Inv'
  <2>1. UNCHANGED <<conf, consent, sess, req, agreed>>
    BY <1>5 DEF MarkExpired, Deny
  <2>2. None \notin Requests
    BY OAuthAssumption
  <2>3. /\ Only(authz, authz', Authorizations, o) /\ authz[o].st = "pending" /\ authz[o].lock = None
        /\ authz'[o].st \in {"expired", "denied"}
    BY <1>5, Closed
  <2> QED
    BY <2>1, <2>2, <2>3, MovedKeeps
<1> QED
  BY <1>1, <1>2, <1>3, <1>4, <1>5, ApproveKeeps DEF OtherStep

LEMMA TimePassesKeeps == ASSUME TypeOK, Inv, TimePasses PROVE Inv'
<1>1. UNCHANGED <<conf, consent, req, agreed>>
  BY DEF TimePasses
<1> QED
  BY <1>1, Aged, SessionsKeep

LEMMA InitInv == Init => Inv
<1> SUFFICES ASSUME Init PROVE Inv
  OBVIOUS
<1>1. /\ \A r \in Requests : req[r].pc = "idle"
      /\ \A o \in Authorizations : authz[o].st = "none"
      /\ \A s \in Sessions : sess[s].st = "none" /\ sess[s].auth = None
      /\ \A u \in Users, c \in Clients : consent[<<u, c>>].scopes = {}
  BY DEF Init, Idle, NoAuthorization, NoSession
<1> QED
  BY <1>1 DEF Inv, HolderInv, CodeRedeemedOnce, ScopeInv, ScopesWereAgreed, ConsentInv, AgreedTo, Live

LEMMA NextKeeps == ASSUME TypeOK, Inv, [Next]_vars PROVE TypeOK' /\ Inv'
<1>1. CASE \E r \in Requests : ClientStep(r) \/ AuthorizeStep(r) \/ TokenStep(r)
  BY <1>1, ClientStepTyped, AuthorizeStepTyped, TokenStepTyped, RequestStepKeeps DEF Inv
<1>2. CASE OtherStep
  BY <1>2, OtherStepTyped, OtherStepKeeps
<1>3. CASE TimePasses
  BY <1>3, TimePassesTyped, TimePassesKeeps
<1>4. CASE UNCHANGED vars
  <2>1. TypeOK'
    BY <1>4 DEF vars, TypeOK, Named
  <2>2. UNCHANGED <<conf, authz, consent, sess, agreed, req>>
    BY <1>4 DEF vars
  <2> QED
    BY <2>1, <2>2, QuietKeeps
<1> QED
  BY <1>1, <1>2, <1>3, <1>4 DEF Next, OtherStep

LEMMA Always == Spec => [](TypeOK /\ Inv)
<1>1. Init => TypeOK /\ Inv
  BY InitTyped, InitInv
<1>2. TypeOK /\ Inv /\ [Next]_vars => (TypeOK /\ Inv)'
  BY NextKeeps
<1> QED
  BY <1>1, <1>2, PTL DEF Spec

-----------------------------------------------------------------------------
(***************************************************************************)
(* The theorems.                                                           *)
(***************************************************************************)

\* Every variable has its type, and a request names what it is about: its
\* client, its authorization or its session is there.
THEOREM TypeCorrect == Spec => []TypeOK
BY Always, PTL

\* A code is redeemed once: two requests that present it at a time cannot
\* both get past the locked row, and the one that does deletes it.
THEOREM CodesBuyOneSession == Spec => []CodeRedeemedOnce
<1>1. Inv => CodeRedeemedOnce
  BY DEF Inv
<1> QED
  BY <1>1, Always, PTL

\* No session of a client that asks for consent has a scope that its user
\* never approved for that client, also when the consent was replaced by a
\* narrower one while an authorization was about to be approved.
THEOREM SessionsWereAgreed == Spec => []ScopesWereAgreed
<1>1. Inv => ScopesWereAgreed
  BY DEF Inv
<1> QED
  BY <1>1, Always, PTL

\* A revocation ends every session it should: a live session of a client that
\* asks for consent was born after the last revocation, and rests on a
\* consent that is there or on one that was read before it was revoked.
THEOREM RevocationsHold == Spec => []RevocationHolds
<1>1. TypeOK /\ Inv => RevocationHolds
  BY DEF Inv, ConsentInv, RestsOn, RevocationHolds
<1> QED
  BY <1>1, Always, PTL
=============================================================================
