----------------------------- MODULE Identities -----------------------------
(***************************************************************************)
(* Sign-in through external providers and SAML, and the identities that    *)
(* join an account to a provider: the start of a flow (external.go,        *)
(* sso.go), its callback (external_callback.go, saml_acs.go), the id_token *)
(* grant (oidc_grant.go), linking and unlinking (identity.go), the         *)
(* providers administrators define (admin_custom_providers.go,             *)
(* admin_sso.go) and the deletion of an account (store.go).                *)
(*                                                                         *)
(* A request is three steps: it loads the state it was sent with, decides  *)
(* inside its transaction, and commits.  Nothing that is read is locked    *)
(* unless a comment says so, and a request whose commit a constraint or a  *)
(* check refuses is rolled back: it ends without a change.                 *)
(*                                                                         *)
(* A provider knows a person by one subject, so an identity is named by    *)
(* its provider and its person; the e-mail identity is named by its        *)
(* account.  Bans, sign-up hooks and the user's metadata are left out.     *)
(***************************************************************************)
EXTENDS Naturals, FiniteSets

CONSTANTS
    Users, Persons, Mails, None,
    External,     \* providers of OAuth and OpenID Connect
    SSO,          \* SAML providers
    OwnerOf,      \* [Mails -> Persons], whose mailbox it is
    AnyMail,      \* \subseteq Persons, people who also enter a mail that is not theirs
    Flows, Requests,
    Configs       \* [autoconfirm, pkce, drifts : BOOLEAN, bySubject : SUBSET External, maxEvents : Nat]:
                  \* drifts, a provider may change what it says about a person,
                  \* bySubject, the providers whose subject is an account's id,
                  \* maxEvents, bound on requests that arrive and other events

Providers == External \cup SSO
EmailKey(u) == <<"email", u>>
Keys == {EmailKey(u) : u \in Users} \cup (Providers \X Persons)

ASSUME IdentityAssumption ==
    /\ None \notin Users \cup Persons \cup Mails \cup Flows \cup Providers \cup Keys
    /\ External \cap SSO = {} /\ "email" \notin Providers
    /\ OwnerOf \in [Mails -> Persons] /\ AnyMail \subseteq Persons
    /\ Configs \subseteq [autoconfirm : BOOLEAN, pkce : BOOLEAN, drifts : BOOLEAN,
                          bySubject : SUBSET External, maxEvents : Nat]

VARIABLES
    conf,     \* the configuration, fixed for a behaviour
    subject,  \* the account a subject that is an account's id names, fixed too
    user,     \* auth.users, with who holds a session of the account
    ident,    \* auth.identities, unique by provider and subject
    flow,     \* auth.flow_state, its client state and its SAML relay state
    prov,     \* auth.custom_oauth_providers and auth.sso_providers
    said,     \* what each provider says about each person
    events,   \* how many requests arrived and other things happened
    req       \* where each request stands

vars == <<conf, subject, user, ident, flow, prov, said, events, req>>

-----------------------------------------------------------------------------
(***************************************************************************)
(* Accounts and identities.                                                *)
(***************************************************************************)

\* `via' is who a provider's sign-in confirmed the account for, `linked'
\* the identities its holders linked themselves, and `named' whether a
\* provider whose subject is the account was linked to it.
NoUser == [there |-> FALSE, deleted |-> FALSE, sso |-> FALSE, mail |-> None, ok |-> FALSE,
           password |-> None, providers |-> {}, sessions |-> {}, via |-> None, linked |-> {},
           named |-> FALSE]
NoIdentity == [user |-> None, mail |-> None, verified |-> FALSE]

IdentitiesOf(ids, u) == {k \in Keys : ids[k].user = u}
FindUserProviders(ids, u) == {k[1] : k \in IdentitiesOf(ids, u)}

FindUserByEmail(m) == {u \in Users : user[u].there /\ ~user[u].deleted /\ ~user[u].sso /\ user[u].mail = m}
FindUsersByEmails(ms) == {u \in Users : user[u].mail \in ms /\ u \in FindUserByEmail(user[u].mail)}

\* Variants named Mut... are plausible slips of the code; each breaks a property.
MutFindIdentitiesOfEveryone(ms) == {k \in Keys : ident[k].mail \in ms}

FindIdentitiesByEmails(ms) == {k \in Keys : ident[k].mail \in ms /\ k[1] \notin SSO}
FindSSOIdentitiesByEmails(p, ms) == {k \in Keys : ident[k].mail \in ms /\ k[1] = p}

\* findLiveIdentity: an identity of a deleted account is released.
FindLiveIdentity(k) == ident[k].user # None /\ ~user[ident[k].user].deleted
Stale(k) == ident[k].user # None /\ user[ident[k].user].deleted
Released(k) == IF Stale(k) THEN [ident EXCEPT ![k] = NoIdentity] ELSE ident

InsertProviderIdentity(ids, k, u, c) ==
    [ids EXCEPT ![k] = [user |-> u, mail |-> c.mail, verified |-> c.verified]]

\* updateProviderIdentity: nothing when the row is gone.
UpdateProviderIdentity(ids, k, u, c) ==
    IF ids[k].user = u THEN InsertProviderIdentity(ids, k, u, c) ELSE ids

DeleteOtherIdentities(ids, u, k) ==
    [i \in Keys |-> IF ids[i].user = u /\ i # k THEN NoIdentity ELSE ids[i]]

SyncAppMetaDataProviders(ids, us, u) == [us EXCEPT ![u].providers = FindUserProviders(ids, u)]

InsertUser(m, p) == [NoUser EXCEPT !.there = TRUE, !.mail = m, !.providers = {p}]
InsertSSOUser(m, p) == [InsertUser(m, p) EXCEPT !.sso = TRUE, !.ok = TRUE]

MutRemoveNothing(us, ids, u, k) == [user |-> us, ident |-> ids]

\* An account that was never confirmed keeps only the identity that just
\* signed in, and no password.
RemoveUnconfirmedIdentities(us, ids, u, k) ==
    LET left == DeleteOtherIdentities(ids, u, k)
    IN  [user |-> SyncAppMetaDataProviders(left, [us EXCEPT ![u].password = None], u),
         ident |-> left]

-----------------------------------------------------------------------------
(***************************************************************************)
(* Decisions.                                                              *)
(***************************************************************************)

Decision(do, u, m) == [do |-> do, u |-> u, mail |-> m, provs |-> {}]
Refuse == Decision("refuse", None, None)

\* What the provider vouches for, and what counts as vouched for.
VerifiedEmails(c) == IF c.mail # None /\ (c.verified \/ conf.autoconfirm) THEN {c.mail} ELSE {}

\* The one account of a set of identities or accounts.
LinkTo(us, m) ==
    IF Cardinality(us) = 1 THEN Decision("link", CHOOSE u \in us : TRUE, m)
    ELSE IF us = {} THEN Decision("create", None, m) ELSE Refuse

\* A mail that is taken is not given to the new account.
FreeMail(m) == IF FindUserByEmail(m) = {} THEN m ELSE None

LinkBySubject(u, c) ==
    CASE user[u].deleted -> Refuse
      [] user[u].there -> Decision("link", u, c.mail)
      [] OTHER -> Decision("create", u, FreeMail(c.mail))

DetermineAccountLinking(k, c) ==
    LET similar == {ident[i].user : i \in FindIdentitiesByEmails(VerifiedEmails(c))}
    IN  CASE FindLiveIdentity(k) -> Decision("exists", ident[k].user, user[ident[k].user].mail)
          [] ~FindLiveIdentity(k) /\ k[1] \in conf.bySubject -> LinkBySubject(subject[k[2]], c)
          [] ~FindLiveIdentity(k) /\ k[1] \notin conf.bySubject ->
                IF VerifiedEmails(c) = {} THEN Decision("create", None, FreeMail(c.mail))
                ELSE IF similar # {} THEN LinkTo(similar, c.mail)
                ELSE LinkTo(FindUsersByEmails(VerifiedEmails(c)), c.mail)

DetermineSSOAccountLinking(k, c) ==
    IF FindLiveIdentity(k) THEN Decision("exists", ident[k].user, user[ident[k].user].mail)
    ELSE LinkTo({ident[i].user : i \in FindSSOIdentitiesByEmails(k[1], VerifiedEmails(c))}, c.mail)

\* linkIdentityToUser, up to its writes: the list of providers is read
\* before anything of the account is locked.
DecideLink(k, u) ==
    IF ~user[u].there \/ FindLiveIdentity(k) \/ (k[1] \in conf.bySubject /\ subject[k[2]] # u)
    THEN Refuse
    ELSE [Decision("attach", u, user[u].mail) EXCEPT !.provs = FindUserProviders(ident, u) \cup {k[1]}]

\* updateUserEmailFromIdentities: the best identity whose mail is free
\* becomes the account's address when none backs the one it has.
Backed(ids, u) == user[u].mail # None /\ \E k \in IdentitiesOf(ids, u) : ids[k].mail = user[u].mail
Rank(i) == IF i.mail = None THEN 2 ELSE IF i.verified THEN 0 ELSE 1
Primaries(ids, u) ==
    LET free == {k \in IdentitiesOf(ids, u) : ids[k].mail = None \/ FindUserByEmail(ids[k].mail) \subseteq {u}}
    IN  {k \in free : \A j \in free : Rank(ids[k]) <= Rank(ids[j])}
Promote(us, u, i) ==
    [us EXCEPT ![u].mail = i.mail,
               ![u].ok = @ /\ i.mail # None /\ (i.verified \/ conf.autoconfirm)]

MutDecideUnlinkAnyway(k, u) ==
    [Decision("unlink", u, None) EXCEPT !.provs = FindUserProviders([ident EXCEPT ![k] = NoIdentity], u)]

\* deleteIdentity, up to its writes: what else it will do is read here.
DecideUnlink(k, u) ==
    LET rest == [ident EXCEPT ![k] = NoIdentity]
    IN  [Decision("unlink", u, None) EXCEPT
            !.provs = FindUserProviders(rest, u),
            !.do = CASE Backed(rest, u) -> "unlink"
                     [] ~Backed(rest, u) /\ Primaries(rest, u) # {} -> "promote"
                     [] ~Backed(rest, u) /\ Primaries(rest, u) = {} -> "refuse"]

-----------------------------------------------------------------------------
(***************************************************************************)
(* Flows.                                                                  *)
(***************************************************************************)

NoFlow == [there |-> FALSE, prov |-> None, who |-> None, target |-> None, pkce |-> FALSE,
           state |-> FALSE, relay |-> FALSE, expired |-> FALSE, user |-> None, grants |-> 0, takers |-> 0]
NoRequest == [pc |-> "idle", f |-> None, key |-> None, claim |-> None, target |-> None,
              took |-> FALSE, raced |-> FALSE, dec |-> Refuse]

Event == events < conf.maxEvents /\ events' = events + 1

Enabled(p) == prov[p].there /\ prov[p].enabled

\* createOAuthFlowState, with the provider's verifier beside it.
CreateOAuthFlowState(f, p, who, target, challenge) ==
    flow' = [flow EXCEPT ![f] = [NoFlow EXCEPT !.there = TRUE, !.prov = p, !.who = who, !.target = target,
                                               !.pkce = challenge, !.state = prov[p].pkce]]

StartExternalProviderFlow(f, p, who, target, challenge) ==
    /\ Event /\ flow[f] = NoFlow /\ p \in External /\ Enabled(p)
    /\ CreateOAuthFlowState(f, p, who, target, challenge)
    /\ UNCHANGED <<conf, subject, user, ident, prov, said, req>>

ExternalProviderRedirect(f, p, who, challenge) == StartExternalProviderFlow(f, p, who, None, challenge)

LinkIdentity(f, p, who, u, challenge) ==
    /\ who \in user[u].sessions
    /\ StartExternalProviderFlow(f, p, who, u, challenge)

\* createSSOFlowState and insertSAMLRelayState.
SingleSignOn(f, p, who, challenge) ==
    /\ Event /\ flow[f] = NoFlow /\ p \in SSO /\ Enabled(p)
    /\ flow' = [flow EXCEPT ![f] = [NoFlow EXCEPT !.there = TRUE, !.prov = p, !.who = who,
                                                  !.pkce = challenge, !.relay = TRUE]]
    /\ UNCHANGED <<conf, subject, user, ident, prov, said, req>>

\* The states outlive FlowStateExpiry and the relay state's validity.
Expire(f) ==
    /\ Event /\ flow[f].there /\ ~flow[f].expired
    /\ flow' = [flow EXCEPT ![f].expired = TRUE]
    /\ UNCHANGED <<conf, subject, user, ident, prov, said, req>>

\* pkceGrant, for the code of a flow somebody signed in with.
ExchangeCode(f) ==
    LET u == flow[f].user
    IN  /\ Event /\ flow[f].there /\ u # None /\ ~flow[f].expired /\ ~user[u].deleted
        /\ user' = [user EXCEPT ![u].sessions = @ \cup {flow[f].who}]
        /\ flow' = [flow EXCEPT ![f].there = FALSE]
        /\ UNCHANGED <<conf, subject, ident, prov, said, req>>

-----------------------------------------------------------------------------
(***************************************************************************)
(* Requests: what they are sent with.                                      *)
(***************************************************************************)

\* The provider's word is fetched here, before the transaction.
Load(r, f, k, target, took) ==
    req' = [req EXCEPT ![r] = [NoRequest EXCEPT !.pc = "loaded", !.f = f, !.key = k, !.claim = said[k[1]][k[2]],
                                                !.target = target, !.took = took]]

\* takeOAuthClientState: the verifier is deleted by the statement that
\* returns it, if the provider asks for one.
TakeOAuthClientState(f) ==
    LET asked == prov[flow[f].prov].pkce
    IN  /\ asked => flow[f].state
        /\ flow' = [flow EXCEPT ![f].state = @ /\ ~asked]

\* loadExternalState and the head of finishExternalCallback.
LoadExternalState(r, f) ==
    LET p == flow[f].prov
    IN  /\ Event /\ req[r].pc = "idle"
        /\ flow[f].there /\ p \in External /\ ~flow[f].expired
        /\ flow[f].pkce => flow[f].user = None
        /\ Enabled(p) /\ TakeOAuthClientState(f)
        /\ Load(r, f, <<p, flow[f].who>>, flow[f].target, prov[p].pkce)
        /\ UNCHANGED <<conf, subject, user, ident, prov, said>>

\* idTokenGrant: the token is the provider's word, there is no state.
IdTokenGrant(r, p, who, target) ==
    /\ Event /\ req[r].pc = "idle" /\ p \in External \ conf.bySubject /\ Enabled(p)
    /\ target # None => who \in user[target].sessions
    /\ Load(r, None, <<p, who>>, target, FALSE)
    /\ UNCHANGED <<conf, subject, user, ident, flow, prov, said>>

\* deleteSAMLRelayState.
DeleteSAMLRelayState(f) == [flow EXCEPT ![f].relay = FALSE]

\* handleSAMLACS with a relay state; one that has expired is destroyed.
LoadRelayState(r, f) ==
    LET p == flow[f].prov
    IN  /\ Event /\ req[r].pc = "idle" /\ flow[f].relay
        /\ \/ /\ flow[f].expired
              /\ flow' = DeleteSAMLRelayState(f)
              /\ UNCHANGED req
           \/ /\ ~flow[f].expired /\ Enabled(p)
              /\ Load(r, f, <<p, flow[f].who>>, None, FALSE)
              /\ UNCHANGED flow
        /\ UNCHANGED <<conf, subject, user, ident, prov, said>>

\* handleSAMLACS when the identity provider initiated the sign-in.
LoadAssertion(r, p, who) ==
    /\ Event /\ req[r].pc = "idle" /\ p \in SSO /\ Enabled(p)
    /\ Load(r, None, <<p, who>>, None, FALSE)
    /\ UNCHANGED <<conf, subject, user, ident, flow, prov, said>>

\* deleteIdentity, as the session's account was loaded.
DeleteIdentity(r, u, k) ==
    /\ Event /\ req[r].pc = "idle"
    /\ user[u].sessions # {} /\ ident[k].user = u /\ Cardinality(IdentitiesOf(ident, u)) > 1
    /\ req' = [req EXCEPT ![r] = [NoRequest EXCEPT !.pc = "unlinking", !.key = k, !.target = u]]
    /\ UNCHANGED <<conf, subject, user, ident, flow, prov, said>>

-----------------------------------------------------------------------------
(***************************************************************************)
(* Requests: what they decide in the transaction.                          *)
(***************************************************************************)

DecisionOf(q) ==
    CASE q.pc = "unlinking" -> DecideUnlink(q.key, q.target)
      [] q.pc = "loaded" /\ q.target # None -> DecideLink(q.key, q.target)
      [] q.pc = "loaded" /\ q.target = None ->
            IF q.key[1] \in SSO THEN DetermineSSOAccountLinking(q.key, q.claim)
            ELSE DetermineAccountLinking(q.key, q.claim)

\* The relay state is destroyed before the assertion is read.
Decide(r) ==
    LET q == req[r]
        d == DecisionOf(q)
    IN  /\ q.pc \in {"loaded", "unlinking"}
        /\ req' = [req EXCEPT ![r] = IF d.do = "refuse" THEN NoRequest ELSE [q EXCEPT !.pc = "decided", !.dec = d]]
        /\ flow' = IF q.f # None /\ q.key[1] \in SSO THEN DeleteSAMLRelayState(q.f) ELSE flow
        /\ UNCHANGED <<conf, subject, user, ident, prov, said, events>>

-----------------------------------------------------------------------------
(***************************************************************************)
(* Requests: what they commit.  An outcome is the accounts and identities  *)
(* it leaves and the account that is signed in to, if one is.              *)
(***************************************************************************)

Outcome(us, ids, u) == [user |-> us, ident |-> ids, u |-> u]

\* The end of createAccountFromExternalIdentity and of its SSO twin.  The
\* account is as the writes before it returned it, so it is not stale.
Settle(us, ids, u, k, c) ==
    LET clean == RemoveUnconfirmedIdentities(us, ids, u, k)
    IN  CASE us[u].ok -> Outcome(us, ids, u)
          [] ~us[u].ok /\ k[1] \in SSO -> Outcome([us EXCEPT ![u].ok = TRUE], ids, u)
          [] ~us[u].ok /\ k[1] \notin SSO ->
                IF c.verified \/ conf.autoconfirm
                THEN Outcome([clean.user EXCEPT ![u].ok = TRUE, ![u].via = k[2]], clean.ident, u)
                ELSE Outcome(clean.user, clean.ident, None)

\* The three ways createAccountFromExternalIdentity goes on; a constraint
\* that refuses a row leaves no outcome.
Exists(k, c, d) ==
    LET ids == UpdateProviderIdentity(ident, k, d.u, c)
    IN  {Settle(SyncAppMetaDataProviders(ids, user, d.u), ids, d.u, k, c) : x \in {1}}

Linked(k, c, d) ==
    LET ids == InsertProviderIdentity(Released(k), k, d.u, c)
        us == [user EXCEPT ![d.u].named = @ \/ k[1] \in conf.bySubject]
    IN  {Settle(SyncAppMetaDataProviders(ids, us, d.u), ids, d.u, k, c) : x \in {y \in {1} : ~FindLiveIdentity(k)}}

Created(k, c, d) ==
    LET ids(v) == InsertProviderIdentity(Released(k), k, v, c)
        us(v) == [user EXCEPT ![v] = IF k[1] \in SSO THEN InsertSSOUser(d.mail, k[1]) ELSE InsertUser(d.mail, k[1])]
        ids0 == {v \in Users : ~user[v].there /\ d.u \in {None, v}}
        taken == d.mail # None /\ k[1] \notin SSO /\ FindUserByEmail(d.mail) # {}
    IN  {Settle(us(v), ids(v), v, k, c) : v \in {w \in ids0 : ~FindLiveIdentity(k) /\ ~taken}}

\* linkIdentityToUser: an account without an address gets the identity's.
Attached(k, c, d) ==
    LET ids == InsertProviderIdentity(Released(k), k, d.u, c)
        us == [user EXCEPT ![d.u].linked = @ \cup {k}]
        fresh == SyncAppMetaDataProviders(ids, us, d.u)
        known == [us EXCEPT ![d.u].providers = d.provs]
        promoted(i) == Promote(fresh, d.u, ids[i])
    IN  IF FindLiveIdentity(k) THEN {}
        ELSE IF d.mail # None THEN {Outcome(known, ids, d.u)}
        ELSE {IF c.verified THEN Outcome([promoted(i) EXCEPT ![d.u].ok = TRUE], ids, d.u)
              ELSE Outcome([promoted(i) EXCEPT ![d.u].providers = user[d.u].providers], ids, None)
                : i \in Primaries(ids, d.u)}

Unlinked(k, d) ==
    LET ids == [ident EXCEPT ![k] = IF ident[k].user = d.u THEN NoIdentity ELSE @]
        known == [user EXCEPT ![d.u].providers = d.provs]
        fresh == SyncAppMetaDataProviders(ids, user, d.u)
    IN  IF d.do = "unlink" THEN {Outcome(known, ids, None)}
        ELSE {Outcome(Promote(fresh, d.u, ids[i]), ids, None) : i \in Primaries(ids, d.u)}

Outcomes(r) ==
    LET k == req[r].key
        c == req[r].claim
        d == req[r].dec
    IN  CASE d.do = "exists" -> Exists(k, c, d)
          [] d.do = "link" -> Linked(k, c, d)
          [] d.do = "create" -> Created(k, c, d)
          [] d.do = "attach" -> Attached(k, c, d)
          [] d.do \in {"unlink", "promote"} -> Unlinked(k, d)

MutCanSignInUnlocked(r, o) == o.u # None => ~o.user[o.u].deleted

\* claimOAuthFlowState takes the flow with a lock and only once; otherwise
\* grantSession, which a deleted account is refused.
CanSignIn(r, o) ==
    LET f == req[r].f
    IN  o.u # None =>
            IF f # None /\ flow[f].pkce THEN flow[f].there /\ flow[f].user = None
            ELSE ~o.user[o.u].deleted

\* A request that decided what another then changed under it.
Overtaken(r, o, q) ==
    /\ req[q].pc = "decided"
    /\ \E k \in Keys : ident[k].user = req[q].dec.u /\ ident[k].user # o.ident[k].user

Commit(r) ==
    /\ req[r].pc = "decided"
    /\ \E o \in Outcomes(r) :
        LET f == req[r].f
            code == f # None /\ flow[f].pkce
        IN  /\ CanSignIn(r, o)
            /\ ident' = o.ident
            /\ user' = IF o.u = None \/ code THEN o.user
                       ELSE [o.user EXCEPT ![o.u].sessions = @ \cup {req[r].key[2]}]
            /\ flow' = IF o.u = None \/ f = None THEN flow
                       ELSE [flow EXCEPT ![f].grants = @ + 1, ![f].takers = IF req[r].took THEN @ + 1 ELSE @,
                                         ![f].there = code /\ @, ![f].user = IF code THEN o.u ELSE @]
            /\ req' = [q \in Requests |->
                          IF q = r THEN NoRequest
                          ELSE [req[q] EXCEPT !.raced = @ \/ Overtaken(r, o, q)]]
    /\ UNCHANGED <<conf, subject, prov, said, events>>

Rollback(r) ==
    /\ req[r].pc = "decided" /\ \A o \in Outcomes(r) : ~CanSignIn(r, o)
    /\ req' = [req EXCEPT ![r] = NoRequest]
    /\ UNCHANGED <<conf, subject, user, ident, flow, prov, said, events>>

-----------------------------------------------------------------------------
(***************************************************************************)
(* What else happens to accounts and providers.                            *)
(***************************************************************************)

Others == <<conf, subject, flow, prov, said, req>>

\* signup with a password, for an address nobody has proved to have.
Signup(u, m, who) ==
    /\ Event /\ ~user[u].there /\ FindUserByEmail(m) = {} /\ (OwnerOf[m] = who \/ who \in AnyMail)
    /\ user' = [user EXCEPT ![u] = [InsertUser(m, "email") EXCEPT
            !.ok = conf.autoconfirm, !.password = who, !.sessions = IF conf.autoconfirm THEN {who} ELSE {}]]
    /\ ident' = [ident EXCEPT ![EmailKey(u)] = [user |-> u, mail |-> m, verified |-> conf.autoconfirm]]
    /\ UNCHANGED Others

SignupAnonymously(u, who) ==
    /\ Event /\ ~user[u].there
    /\ user' = [user EXCEPT ![u] = [NoUser EXCEPT !.there = TRUE, !.sessions = {who}]]
    /\ UNCHANGED <<ident, Others>>

\* The holder of the mailbox follows the confirmation link (signupVerify).
SignupVerify(u) ==
    LET m == user[u].mail
    IN  /\ Event /\ user[u].there /\ ~user[u].deleted /\ ~user[u].ok /\ m # None
        /\ user' = [user EXCEPT ![u].ok = TRUE, ![u].sessions = @ \cup {OwnerOf[m]}]
        /\ ident' = [ident EXCEPT ![EmailKey(u)] = [user |-> u, mail |-> m, verified |-> TRUE]]
        /\ UNCHANGED Others

PasswordGrant(u) ==
    /\ Event /\ user[u].password # None /\ user[u].ok
    /\ user' = [user EXCEPT ![u].sessions = @ \cup {user[u].password}]
    /\ UNCHANGED <<ident, Others>>

\* softDeleteUser and softDeleteUserIdentities.
SoftDeleteUser(u) ==
    /\ Event /\ user[u].there /\ ~user[u].deleted
    /\ user' = [user EXCEPT ![u].deleted = TRUE, ![u].mail = None, ![u].password = None, ![u].sessions = {}]
    /\ ident' = DeleteOtherIdentities(ident, u, None)
    /\ UNCHANGED Others

\* adminCreateCustomProvider and adminUpdateCustomProvider write every
\* column; adminUpdateSSOProvider may switch a provider off.
SetProvider(p, enabled, pkce) ==
    /\ Event /\ prov' = [prov EXCEPT ![p] = [there |-> TRUE, enabled |-> enabled, pkce |-> pkce]]
    /\ prov' # prov
    /\ UNCHANGED <<conf, subject, user, ident, flow, said, req>>

AdminUpdateCustomProvider(p, enabled, pkce) == p \in External /\ SetProvider(p, enabled, pkce)
AdminUpdateSSOProvider(p, enabled) == p \in SSO /\ prov[p].there /\ SetProvider(p, enabled, FALSE)

\* The relay states go with an SSO provider, the identities stay.
DeleteProvider(p) ==
    /\ Event /\ prov[p].there
    /\ prov' = [prov EXCEPT ![p].there = FALSE]
    /\ flow' = [f \in Flows |-> IF flow[f].prov = p THEN [flow[f] EXCEPT !.relay = FALSE] ELSE flow[f]]
    /\ UNCHANGED <<conf, subject, user, ident, said, req>>

\* What a provider may say (external): it vouches for its person's own
\* mailbox and repeats what the person entered, but the word of a SAML
\* provider is always taken.
Claims(p, who) ==
    {[mail |-> m, verified |-> OwnerOf[m] = who \/ p \in SSO] :
        m \in {n \in Mails : OwnerOf[n] = who \/ who \in AnyMail}}

Drift(p, who) ==
    /\ conf.drifts /\ Event
    /\ \E c \in Claims(p, who) : c # said[p][who] /\ said' = [said EXCEPT ![p][who] = c]
    /\ UNCHANGED <<conf, subject, user, ident, flow, prov, req>>

-----------------------------------------------------------------------------
\* An account whose holder signed up with a password and confirmed the
\* address before the behaviour starts.
Registered(m) == [InsertUser(m, "email") EXCEPT !.ok = TRUE, !.password = OwnerOf[m], !.sessions = {OwnerOf[m]}]

Init ==
    /\ conf \in Configs
    /\ IF conf.bySubject = {} THEN subject = [a \in Persons |-> None]
       ELSE subject \in [Persons -> Users] /\ \A a, b \in Persons : a # b => subject[a] # subject[b]
    /\ \/ user = [u \in Users |-> NoUser] /\ ident = [k \in Keys |-> NoIdentity]
       \/ \E u \in Users, m \in {n \in Mails : OwnerOf[n] \notin AnyMail} :
            /\ user = [v \in Users |-> IF v = u THEN Registered(m) ELSE NoUser]
            /\ ident = [k \in Keys |-> IF k = EmailKey(u) THEN [user |-> u, mail |-> m, verified |-> TRUE]
                                        ELSE NoIdentity]
    /\ flow = [f \in Flows |-> NoFlow]
    /\ prov = [p \in Providers |-> [there |-> TRUE, enabled |-> TRUE, pkce |-> p \in External /\ conf.pkce]]
    /\ said \in {s \in [Providers -> [Persons -> [mail : Mails, verified : BOOLEAN]]] :
                   \A p \in Providers, a \in Persons : s[p][a] \in Claims(p, a)}
    /\ events = 0
    /\ req = [r \in Requests |-> NoRequest]

Next ==
    \/ \E f \in Flows, p \in Providers, who \in Persons, challenge \in BOOLEAN :
          \/ ExternalProviderRedirect(f, p, who, challenge)
          \/ SingleSignOn(f, p, who, challenge)
          \/ \E u \in Users : LinkIdentity(f, p, who, u, challenge)
    \/ \E f \in Flows : Expire(f) \/ ExchangeCode(f)
    \/ \E r \in Requests :
          \/ \E f \in Flows : LoadExternalState(r, f) \/ LoadRelayState(r, f)
          \/ \E p \in Providers, who \in Persons : LoadAssertion(r, p, who)
          \/ \E p \in Providers, who \in Persons, target \in Users \cup {None} : IdTokenGrant(r, p, who, target)
          \/ \E u \in Users, k \in Keys : DeleteIdentity(r, u, k)
          \/ Decide(r)
          \/ Commit(r)
          \/ Rollback(r)
    \/ \E u \in Users : SignupVerify(u) \/ PasswordGrant(u) \/ SoftDeleteUser(u)
    \/ \E u \in Users, who \in Persons : SignupAnonymously(u, who) \/ \E m \in Mails : Signup(u, m, who)
    \/ \E p \in Providers, on, pkce \in BOOLEAN :
          AdminUpdateCustomProvider(p, on, pkce) \/ AdminUpdateSSOProvider(p, on)
    \/ \E p \in Providers : DeleteProvider(p)
    \/ \E p \in Providers, who \in Persons : Drift(p, who)

Spec == Init /\ [][Next]_vars

-----------------------------------------------------------------------------
(***************************************************************************)
(* Properties.                                                             *)
(***************************************************************************)

\* A state buys at most one sign-in: one that carries a code challenge, and
\* one whose provider's verifier the callback took, even when callbacks race.
OneStateOneSignIn ==
    \A f \in Flows :
        /\ flow[f].pkce => flow[f].grants <= 1
        /\ flow[f].takers <= 1

\* What an account held before a provider's sign-in confirmed it does not
\* survive: no password and no identity of anybody else is left, as long as
\* the account's holder links none and no provider names the account.
ClosesTakeover ==
    \A u \in Users : user[u].via # None /\ user[u].linked = {} /\ ~user[u].named /\ ~conf.autoconfirm =>
        /\ user[u].password \in {None, user[u].via}
        /\ \A k \in IdentitiesOf(ident, u) : k[1] # "email" => k[2] = user[u].via

\* The same, for providers that never change the mail they state for a
\* person: the decision that an account exists keeps the account's address
\* and takes the verification of whatever mail the provider states now.
NoStrangerInside == conf.drifts \/ ClosesTakeover

\* Single sign-on is a world of its own: what a SAML provider says never
\* reaches another kind of account, nor the other way round, as long as the
\* account's holder links none and no provider names the account: an identity
\* that came in either way lets every sign-in with its address follow.
SSOStaysApart ==
    \A u \in Users, k \in Keys : ident[k].user = u /\ user[u].linked = {} /\ ~user[u].named =>
        (k[1] \in SSO) = user[u].sso

\* An account that has an identity keeps one, unless an unlink decided
\* before another request's removal committed.
LastIdentityStays ==
    [][\A u \in Users :
        user[u].there /\ ~user'[u].deleted /\ IdentitiesOf(ident, u) # {} /\ IdentitiesOf(ident', u) = {}
            => \E r \in Requests : req[r].pc = "decided" /\ req'[r].pc = "idle" /\ req[r].raced]_vars

=============================================================================
