-------------------------- MODULE IdentitiesProofs --------------------------
(***************************************************************************)
(* Proofs about sign-in through providers, for any number of accounts,     *)
(* people, providers, flows and requests: a state buys one sign-in, single *)
(* sign-on stays apart, a provider's sign-in closes an account to whoever  *)
(* was there before, and an account keeps an identity.                     *)
(***************************************************************************)
EXTENDS Identities, FiniteSetTheorems, TLAPS

-----------------------------------------------------------------------------
(***************************************************************************)
(* Types.                                                                  *)
(***************************************************************************)

ProviderNames == Providers \cup {"email"}
ProviderKeys == Providers \X Persons

ConfigType == [autoconfirm : BOOLEAN, pkce : BOOLEAN, drifts : BOOLEAN,
               bySubject : SUBSET External, maxEvents : Nat]
AccountType == [there : BOOLEAN, deleted : BOOLEAN, sso : BOOLEAN, mail : Mails \cup {None}, ok : BOOLEAN,
                password : Persons \cup {None}, providers : SUBSET ProviderNames,
                sessions : SUBSET Persons, via : Persons \cup {None}, linked : SUBSET Keys,
                named : BOOLEAN]
IdentityType == [user : Users \cup {None}, mail : Mails \cup {None}, verified : BOOLEAN]
ClaimType == [mail : Mails, verified : BOOLEAN]
FlowType == [there : BOOLEAN, prov : Providers \cup {None}, who : Persons \cup {None},
             target : Users \cup {None}, pkce : BOOLEAN, state : BOOLEAN, relay : BOOLEAN,
             expired : BOOLEAN, user : Users \cup {None}, grants : Nat, takers : Nat]
DecisionType == [do : {"refuse", "exists", "link", "create", "attach", "unlink", "promote"},
                 u : Users \cup {None}, mail : Mails \cup {None}, provs : SUBSET ProviderNames]
RequestType == [pc : {"idle", "loaded", "unlinking", "decided"}, f : Flows \cup {None},
                key : Keys \cup {None}, claim : ClaimType \cup {None}, target : Users \cup {None},
                took : BOOLEAN, raced : BOOLEAN, dec : DecisionType]

UserType == [Users -> AccountType]
IdentType == [Keys -> IdentityType]

\* What a request carries, by how far it is.
LoadedOK(q) ==
    /\ q.pc = "loaded" => q.key \in ProviderKeys /\ q.claim \in ClaimType
    /\ q.pc = "unlinking" => q.key \in Keys /\ q.target \in Users
    /\ q.pc = "decided" =>
          /\ q.dec.do # "refuse" /\ q.key \in Keys
          /\ q.dec.do \in {"exists", "link", "create", "attach"} =>
                q.key \in ProviderKeys /\ q.claim \in ClaimType
          /\ q.dec.do # "create" => q.dec.u \in Users

\* A flow that was started knows its provider and who started it.
FlowOK(g) ==
    (g.relay => g.prov \in SSO) /\ (g.there \/ g.prov # None => g.who \in Persons)

TypeOK ==
    /\ conf \in ConfigType
    /\ subject \in [Persons -> Users \cup {None}]
    /\ conf.bySubject # {} => subject \in [Persons -> Users]
    /\ user \in UserType /\ ident \in IdentType
    /\ flow \in [Flows -> FlowType]
    /\ prov \in [Providers -> [there : BOOLEAN, enabled : BOOLEAN, pkce : BOOLEAN]]
    /\ said \in [Providers -> [Persons -> ClaimType]]
    /\ req \in [Requests -> RequestType]
    /\ \A r \in Requests : LoadedOK(req[r])
    /\ \A f \in Flows : FlowOK(flow[f])
    /\ \A k \in Keys : ident[k].user = None => ident[k].mail = None

LEMMA KeyShapes ==
    /\ ProviderKeys \subseteq Keys
    /\ \A u \in Users : EmailKey(u) \in Keys /\ EmailKey(u)[1] = "email" /\ EmailKey(u) \notin ProviderKeys
    /\ \A k \in Keys : k[1] \in ProviderNames
    /\ \A k \in Keys : k[1] # "email" => k \in ProviderKeys
    /\ \A k \in ProviderKeys : k[1] \in Providers /\ k[2] \in Persons /\ k[1] # "email"
    /\ \A k \in ProviderKeys : k = <<k[1], k[2]>>
BY IdentityAssumption DEF ProviderKeys, ProviderNames, Keys, EmailKey

LEMMA NoneApart == None \notin Users /\ None \notin Persons /\ None \notin Mails /\ None \notin Flows
BY IdentityAssumption

LEMMA BlankTypes ==
    /\ NoUser \in AccountType /\ NoIdentity \in IdentityType /\ NoFlow \in FlowType
    /\ Refuse \in DecisionType /\ NoRequest \in RequestType /\ LoadedOK(NoRequest)
BY DEF NoUser, NoIdentity, NoFlow, Refuse, Decision, NoRequest, AccountType, IdentityType, FlowType,
       DecisionType, RequestType, LoadedOK, ProviderNames

-----------------------------------------------------------------------------
(***************************************************************************)
(* The writes of identities and accounts.                                  *)
(***************************************************************************)

LEMMA InsertTyped ==
    ASSUME NEW ids \in IdentType, NEW k \in Keys, NEW u \in Users, NEW c \in ClaimType
    PROVE  /\ InsertProviderIdentity(ids, k, u, c) \in IdentType
           /\ UpdateProviderIdentity(ids, k, u, c) \in IdentType
BY DEF InsertProviderIdentity, UpdateProviderIdentity, IdentType, IdentityType, ClaimType

LEMMA ReleasedTyped == ASSUME TypeOK, NEW k \in Keys PROVE Released(k) \in IdentType
BY BlankTypes DEF Released, TypeOK, IdentType

LEMMA DeletedTyped ==
    ASSUME NEW ids \in IdentType, NEW u, NEW k PROVE DeleteOtherIdentities(ids, u, k) \in IdentType
BY BlankTypes DEF DeleteOtherIdentities, IdentType

LEMMA ProvidersTyped ==
    ASSUME NEW ids, NEW u PROVE FindUserProviders(ids, u) \subseteq ProviderNames
BY KeyShapes DEF FindUserProviders, IdentitiesOf

\* Inserting an identity, released before or not, is one write.
LEMMA InsertReleased ==
    ASSUME TypeOK, NEW k \in Keys, NEW u, NEW c
    PROVE  InsertProviderIdentity(Released(k), k, u, c) =
               [ident EXCEPT ![k] = [user |-> u, mail |-> c.mail, verified |-> c.verified]]
BY DEF InsertProviderIdentity, Released, TypeOK, IdentType

Synced(s, ids, us, u) ==
    /\ s \in UserType
    /\ \A v \in Users : v # u => s[v] = us[v]
    /\ s[u] = [us[u] EXCEPT !.providers = FindUserProviders(ids, u)]

LEMMA SyncEffect ==
    ASSUME NEW us \in UserType, NEW ids, NEW u \in Users
    PROVE  Synced(SyncAppMetaDataProviders(ids, us, u), ids, us, u)
BY ProvidersTyped DEF SyncAppMetaDataProviders, Synced, UserType, AccountType

\* What RemoveUnconfirmedIdentities leaves.
Cleaned(clean, us, ids, u, k) ==
    /\ clean.ident = DeleteOtherIdentities(ids, u, k)
    /\ clean.user \in UserType /\ clean.ident \in IdentType
    /\ \A v \in Users : v # u => clean.user[v] = us[v]
    /\ clean.user[u] = [us[u] EXCEPT !.password = None,
                                     !.providers = FindUserProviders(clean.ident, u)]

LEMMA RemoveEffect ==
    ASSUME NEW us \in UserType, NEW ids \in IdentType, NEW u \in Users, NEW k
    PROVE  Cleaned(RemoveUnconfirmedIdentities(us, ids, u, k), us, ids, u, k)
<1> DEFINE left == DeleteOtherIdentities(ids, u, k)
<1> DEFINE bare == [us EXCEPT ![u].password = None]
<1>1. bare \in UserType /\ (\A v \in Users : v # u => bare[v] = us[v])
      /\ bare[u] = [us[u] EXCEPT !.password = None]
  BY DEF UserType, AccountType
<1>2. left \in IdentType
  BY DeletedTyped
<1>3. RemoveUnconfirmedIdentities(us, ids, u, k) =
          [user |-> SyncAppMetaDataProviders(left, bare, u), ident |-> left]
  BY DEF RemoveUnconfirmedIdentities
<1> HIDE DEF left, bare
<1> DEFINE s == SyncAppMetaDataProviders(left, bare, u)
<1>4. Synced(s, left, bare, u)
  BY <1>1, SyncEffect
<1> HIDE DEF s
<1>5. s[u] = [us[u] EXCEPT !.password = None, !.providers = FindUserProviders(left, u)]
  BY <1>1, <1>4 DEF Synced, UserType, AccountType
<1> QED
  BY <1>1, <1>2, <1>3, <1>4, <1>5 DEF left, s, Cleaned, Synced

\* What Settle makes of an account: it is confirmed, or closed, or neither.
SameStanding(a, b) ==
    /\ a.there = b.there /\ a.deleted = b.deleted /\ a.sso = b.sso /\ a.mail = b.mail
    /\ a.linked = b.linked /\ a.named = b.named

Settled(o, us, ids, u, k, c) ==
    /\ o.user \in UserType /\ o.ident \in IdentType /\ o.u \in {u, None}
    /\ \A v \in Users : v # u => o.user[v] = us[v]
    /\ \A i \in Keys : \/ o.ident[i] = ids[i]
                       \/ i # k /\ ids[i].user = u /\ o.ident[i] = NoIdentity
    /\ SameStanding(o.user[u], us[u])
    /\ o.user[u].password \in {us[u].password, None} /\ (us[u].ok => o.user[u].ok)
    /\ \/ o.user[u].via = us[u].via
       \/ /\ o.user[u].via = k[2] /\ k[1] \notin SSO /\ o.user[u].password = None
          /\ c.verified \/ conf.autoconfirm
          /\ \A i \in Keys : i # k => o.ident[i].user # u

LEMMA SettleEffect ==
    ASSUME NEW us \in UserType, NEW ids \in IdentType, NEW u \in Users, NEW k \in ProviderKeys,
           NEW c \in ClaimType, TypeOK
    PROVE  Settled(Settle(us, ids, u, k, c), us, ids, u, k, c)
<1> DEFINE clean == RemoveUnconfirmedIdentities(us, ids, u, k)
<1> DEFINE o == Settle(us, ids, u, k, c)
<1> SUFFICES Settled(o, us, ids, u, k, c)
  OBVIOUS
<1>1. Cleaned(clean, us, ids, u, k)
  BY RemoveEffect
<1>2. /\ \A i \in Keys : \/ clean.ident[i] = ids[i]
                         \/ i # k /\ ids[i].user = u /\ clean.ident[i] = NoIdentity
      /\ \A i \in Keys : i # k => clean.ident[i].user # u
  BY <1>1, NoneApart DEF Cleaned, DeleteOtherIdentities, NoIdentity, IdentType
<1> HIDE DEF o, clean
<1>3. clean.user[u] \in AccountType /\ us[u] \in AccountType
  BY <1>1 DEF Cleaned, UserType
<1>4. CASE us[u].ok
  <2>1. o = [user |-> us, ident |-> ids, u |-> u]
    BY <1>3, <1>4 DEF o, clean, Settle, Outcome, AccountType
  <2> QED
    BY <2>1 DEF Settled, SameStanding
<1>5. CASE ~us[u].ok /\ k[1] \in SSO
  <2>1. o = [user |-> [us EXCEPT ![u].ok = TRUE], ident |-> ids, u |-> u]
    BY <1>5 DEF o, clean, Settle, Outcome
  <2>2. /\ [us EXCEPT ![u].ok = TRUE] \in UserType
        /\ [us EXCEPT ![u].ok = TRUE][u] = [us[u] EXCEPT !.ok = TRUE]
    BY DEF UserType, AccountType
  <2>3. \A v \in Users : v # u => [us EXCEPT ![u].ok = TRUE][v] = us[v]
    BY DEF UserType
  <2> QED
    BY <1>3, <2>1, <2>2, <2>3 DEF AccountType, Settled, SameStanding
<1>6. CASE ~us[u].ok /\ k[1] \notin SSO /\ (c.verified \/ conf.autoconfirm)
  <2> DEFINE closed == [clean.user EXCEPT ![u].ok = TRUE, ![u].via = k[2]]
  <2>1. o = [user |-> closed, ident |-> clean.ident, u |-> u]
    BY <1>6 DEF o, clean, Settle, Outcome
  <2>2. k[2] \in Persons
    BY KeyShapes
  <2>3. closed[u] = [clean.user[u] EXCEPT !.ok = TRUE, !.via = k[2]]
    BY <1>1 DEF Cleaned, UserType
  <2>4. \A v \in Users : v # u => closed[v] = clean.user[v]
    BY <1>1 DEF Cleaned, UserType
  <2>5. closed = [v \in Users |-> closed[v]]
    BY <1>1 DEF Cleaned, UserType
  <2> HIDE DEF closed
  <2>6. closed[u] \in AccountType
    BY <1>3, <2>2, <2>3 DEF AccountType
  <2>7. closed \in UserType
    BY <1>1, <2>4, <2>5, <2>6 DEF Cleaned, UserType
  <2>8. SameStanding(closed[u], us[u]) /\ closed[u].password = None /\ closed[u].via = k[2]
    BY <1>1, <1>3, <2>3 DEF AccountType, Cleaned, SameStanding
  <2> QED
    BY <1>1, <1>2, <1>6, <2>1, <2>4, <2>7, <2>8 DEF Settled, Cleaned
<1>7. CASE ~us[u].ok /\ k[1] \notin SSO /\ ~(c.verified \/ conf.autoconfirm)
  <2>1. o = [user |-> clean.user, ident |-> clean.ident, u |-> None]
    BY <1>7 DEF o, clean, Settle, Outcome
  <2>2. /\ SameStanding(clean.user[u], us[u])
        /\ clean.user[u].password = None /\ clean.user[u].via = us[u].via
    BY <1>1, <1>3 DEF AccountType, Cleaned, SameStanding
  <2> QED
    BY <1>1, <1>2, <1>7, <2>1, <2>2 DEF Settled, Cleaned
<1> QED
  BY <1>4, <1>5, <1>6, <1>7

-----------------------------------------------------------------------------
(***************************************************************************)
(* The outcomes of a request, by what it decided.  `us' and `ids' are the  *)
(* accounts and identities Settle starts from.                             *)
(***************************************************************************)

IdentityRow(u, c) == [user |-> u, mail |-> c.mail, verified |-> c.verified]
Keeps(us, u) == \A v \in Users : v # u => us[v] = user[v]

BeforeExists(us, ids, u, k, c) ==
    /\ Keeps(us, u) /\ SameStanding(us[u], user[u])
    /\ us[u].password = user[u].password /\ us[u].via = user[u].via /\ us[u].ok = user[u].ok
    /\ \A i \in Keys : \/ ids[i] = ident[i]
                       \/ i = k /\ ident[k].user = u /\ ids[k] = IdentityRow(u, c)

BeforeLinked(us, ids, u, k, c) ==
    /\ Keeps(us, u)
    /\ us[u].there = user[u].there /\ us[u].deleted = user[u].deleted /\ us[u].sso = user[u].sso
    /\ us[u].mail = user[u].mail /\ us[u].linked = user[u].linked
    /\ us[u].password = user[u].password /\ us[u].via = user[u].via /\ us[u].ok = user[u].ok
    /\ user[u].named => us[u].named
    /\ k[1] \in conf.bySubject => us[u].named
    /\ ~FindLiveIdentity(k) /\ ids = [ident EXCEPT ![k] = IdentityRow(u, c)]

BeforeCreated(us, ids, u, k, c, m) ==
    /\ Keeps(us, u) /\ ~user[u].there
    /\ us[u].there /\ ~us[u].deleted /\ us[u].mail = m /\ us[u].linked = {}
    /\ us[u].sso <=> k[1] \in SSO
    /\ us[u].password = None /\ us[u].via = None /\ (k[1] \in SSO => us[u].ok)
    /\ ~FindLiveIdentity(k) /\ ids = [ident EXCEPT ![k] = IdentityRow(u, c)]

\* An identity another account may lose to a new owner is a deleted account's.
AttachedTo(o, u, k, c) ==
    /\ o.user \in UserType /\ o.u \in {u, None} /\ Keeps(o.user, u)
    /\ o.user[u].there = user[u].there /\ o.user[u].deleted = user[u].deleted
    /\ o.user[u].sso = user[u].sso /\ o.user[u].linked = user[u].linked \cup {k}
    /\ ~FindLiveIdentity(k) /\ o.ident = [ident EXCEPT ![k] = IdentityRow(u, c)]

UnlinkedFrom(o, u, k) ==
    /\ o.user \in UserType /\ o.u = None /\ Keeps(o.user, u)
    /\ o.user[u].there = user[u].there /\ o.user[u].deleted = user[u].deleted
    /\ o.user[u].sso = user[u].sso /\ o.user[u].linked = user[u].linked /\ o.user[u].named = user[u].named
    /\ o.user[u].password = user[u].password /\ o.user[u].via = user[u].via
    /\ \A i \in Keys : IF i = k /\ ident[k].user = u THEN o.ident[i] = NoIdentity ELSE o.ident[i] = ident[i]
    /\ o.ident \in IdentType
    /\ \/ o.user[u].mail = user[u].mail /\ o.user[u].ok = user[u].ok
       \/ \E i \in Keys :
             /\ o.ident[i].user = u /\ o.user[u].mail = o.ident[i].mail
             /\ user[u].ok /\ o.ident[i].mail # None /\ o.ident[i].verified => o.user[u].ok

LEMMA ExistsEffect ==
    ASSUME TypeOK, NEW k \in ProviderKeys, NEW c \in ClaimType, NEW d \in DecisionType,
           d.u \in Users, NEW o \in Exists(k, c, d)
    PROVE  \E us \in UserType, ids \in IdentType :
              BeforeExists(us, ids, d.u, k, c) /\ Settled(o, us, ids, d.u, k, c)
<1> DEFINE ids == UpdateProviderIdentity(ident, k, d.u, c)
<1> DEFINE us == SyncAppMetaDataProviders(ids, user, d.u)
<1>1. ids \in IdentType /\ user \in UserType /\ k \in Keys
  BY InsertTyped, KeyShapes DEF TypeOK
<1>2. \A i \in Keys : \/ ids[i] = ident[i]
                      \/ i = k /\ ident[k].user = d.u /\ ids[k] = IdentityRow(d.u, c)
  BY <1>1 DEF UpdateProviderIdentity, InsertProviderIdentity, IdentityRow, TypeOK, IdentType
<1>3. o = Settle(us, ids, d.u, k, c)
  BY DEF Exists
<1> HIDE DEF ids
<1>4. Synced(us, ids, user, d.u)
  BY <1>1, SyncEffect
<1> HIDE DEF us
<1>5. user[d.u] \in AccountType /\ us \in UserType
  BY <1>4 DEF TypeOK, UserType, Synced
<1>6. BeforeExists(us, ids, d.u, k, c)
  BY <1>2, <1>4, <1>5 DEF BeforeExists, Keeps, SameStanding, Synced, AccountType
<1> QED
  BY <1>1, <1>3, <1>5, <1>6, SettleEffect

LEMMA LinkedEffect ==
    ASSUME TypeOK, NEW k \in ProviderKeys, NEW c \in ClaimType, NEW d \in DecisionType,
           d.u \in Users, NEW o \in Linked(k, c, d)
    PROVE  \E us \in UserType, ids \in IdentType :
              BeforeLinked(us, ids, d.u, k, c) /\ Settled(o, us, ids, d.u, k, c)
<1> DEFINE ids == InsertProviderIdentity(Released(k), k, d.u, c)
<1> DEFINE was == [user EXCEPT ![d.u].named = @ \/ k[1] \in conf.bySubject]
<1> DEFINE us == SyncAppMetaDataProviders(ids, was, d.u)
<1>1. ids \in IdentType /\ k \in Keys
  BY InsertTyped, ReleasedTyped, KeyShapes
<1>2. ids = [ident EXCEPT ![k] = IdentityRow(d.u, c)]
  BY <1>1, InsertReleased DEF IdentityRow
<1>3. o = Settle(us, ids, d.u, k, c) /\ ~FindLiveIdentity(k)
  BY DEF Linked
<1>4. user[d.u] \in AccountType
  BY DEF TypeOK, UserType
<1>5. was = [user EXCEPT ![d.u] = [user[d.u] EXCEPT !.named = user[d.u].named \/ k[1] \in conf.bySubject]]
  BY DEF TypeOK, UserType
<1>6. [user[d.u] EXCEPT !.named = user[d.u].named \/ k[1] \in conf.bySubject] \in AccountType
  BY <1>4 DEF AccountType
<1>7. /\ was \in UserType /\ (\A v \in Users : v # d.u => was[v] = user[v])
      /\ was[d.u] = [user[d.u] EXCEPT !.named = user[d.u].named \/ k[1] \in conf.bySubject]
  BY <1>5, <1>6 DEF TypeOK, UserType
<1> HIDE DEF ids, was
<1>8. Synced(us, ids, was, d.u)
  BY <1>1, <1>7, SyncEffect
<1> HIDE DEF us
<1>9. us \in UserType
  BY <1>8 DEF Synced
<1>10. /\ us[d.u].there = user[d.u].there /\ us[d.u].deleted = user[d.u].deleted
       /\ us[d.u].sso = user[d.u].sso /\ us[d.u].mail = user[d.u].mail
       /\ us[d.u].linked = user[d.u].linked /\ us[d.u].password = user[d.u].password
       /\ us[d.u].via = user[d.u].via /\ us[d.u].named = was[d.u].named
  BY <1>4, <1>7, <1>8 DEF Synced, AccountType
<1>11. was[d.u].named <=> user[d.u].named \/ k[1] \in conf.bySubject
  BY <1>4, <1>7 DEF AccountType
<1>12. BeforeLinked(us, ids, d.u, k, c)
  BY <1>2, <1>3, <1>7, <1>8, <1>10, <1>11 DEF BeforeLinked, Keeps, Synced
<1> QED
  BY <1>1, <1>3, <1>9, <1>12, SettleEffect

LEMMA CreatedEffect ==
    ASSUME TypeOK, NEW k \in ProviderKeys, NEW c \in ClaimType, NEW d \in DecisionType,
           NEW o \in Created(k, c, d)
    PROVE  \E v \in Users, us \in UserType, ids \in IdentType :
              BeforeCreated(us, ids, v, k, c, d.mail) /\ Settled(o, us, ids, v, k, c)
<1> DEFINE ids(v) == InsertProviderIdentity(Released(k), k, v, c)
<1> DEFINE new == IF k[1] \in SSO THEN InsertSSOUser(d.mail, k[1]) ELSE InsertUser(d.mail, k[1])
<1> DEFINE us(v) == [user EXCEPT ![v] = new]
<1>1. PICK v \in Users : ~user[v].there /\ ~FindLiveIdentity(k) /\ o = Settle(us(v), ids(v), v, k, c)
  BY DEF Created
<1>2. k \in Keys /\ k[1] \in ProviderNames
  BY KeyShapes
<1>3. /\ new \in AccountType /\ new.there /\ ~new.deleted /\ new.mail = d.mail /\ new.linked = {}
      /\ new.sso <=> k[1] \in SSO
      /\ new.password = None /\ new.via = None /\ (k[1] \in SSO => new.ok)
  BY <1>2 DEF InsertSSOUser, InsertUser, NoUser, AccountType, DecisionType
<1> HIDE DEF new
<1>4. us(v) \in UserType /\ us(v)[v] = new /\ Keeps(us(v), v)
  BY <1>3 DEF TypeOK, UserType, Keeps
<1>5. ids(v) \in IdentType /\ ids(v) = [ident EXCEPT ![k] = IdentityRow(v, c)]
  BY <1>2, InsertTyped, ReleasedTyped, InsertReleased DEF IdentityRow
<1> HIDE DEF us, ids
<1>6. BeforeCreated(us(v), ids(v), v, k, c, d.mail)
  BY <1>1, <1>3, <1>4, <1>5 DEF BeforeCreated
<1> QED
  BY <1>1, <1>4, <1>5, <1>6, SettleEffect

\* Promote changes the address and its confirmation.
Promoted(p, us, u, i) ==
    /\ p \in UserType
    /\ \A v \in Users : v # u => p[v] = us[v]
    /\ p[u] = [us[u] EXCEPT !.mail = i.mail,
                            !.ok = us[u].ok /\ i.mail # None /\ (i.verified \/ conf.autoconfirm)]

LEMMA PromoteEffect ==
    ASSUME NEW us \in UserType, NEW u \in Users, NEW i \in IdentityType
    PROVE  Promoted(Promote(us, u, i), us, u, i)
<1> DEFINE a == [us[u] EXCEPT !.mail = i.mail,
                              !.ok = us[u].ok /\ i.mail # None /\ (i.verified \/ conf.autoconfirm)]
<1>1. Promote(us, u, i) = [us EXCEPT ![u] = a]
  BY DEF Promote, UserType
<1>2. a \in AccountType
  BY DEF UserType, AccountType, IdentityType
<1> HIDE DEF a
<1>3. Promote(us, u, i)[u] = a
  BY <1>1 DEF UserType
<1>4. Promote(us, u, i) \in UserType /\ \A v \in Users : v # u => Promote(us, u, i)[v] = us[v]
  BY <1>1, <1>2 DEF UserType
<1> QED
  BY <1>3, <1>4 DEF a, Promoted

LEMMA PrimariesHave ==
    ASSUME NEW ids \in IdentType, NEW u, NEW i \in Primaries(ids, u)
    PROVE  i \in Keys /\ ids[i].user = u /\ ids[i] \in IdentityType
BY DEF Primaries, IdentitiesOf, IdentType

LEMMA AttachedEffect ==
    ASSUME TypeOK, NEW k \in ProviderKeys, NEW c \in ClaimType, NEW d \in DecisionType,
           d.u \in Users, NEW o \in Attached(k, c, d)
    PROVE  AttachedTo(o, d.u, k, c)
<1> DEFINE ids == InsertProviderIdentity(Released(k), k, d.u, c)
<1> DEFINE us == [user EXCEPT ![d.u].linked = @ \cup {k}]
<1> DEFINE fresh == SyncAppMetaDataProviders(ids, us, d.u)
<1> DEFINE known == [us EXCEPT ![d.u].providers = d.provs]
<1> DEFINE promoted(i) == Promote(fresh, d.u, ids[i])
<1>1. ids \in IdentType /\ k \in Keys /\ ids = [ident EXCEPT ![k] = IdentityRow(d.u, c)]
  BY InsertTyped, ReleasedTyped, InsertReleased, KeyShapes DEF IdentityRow
<1>2. user[d.u] \in AccountType
  BY DEF TypeOK, UserType
<1>3. /\ us \in UserType /\ Keeps(us, d.u)
      /\ us[d.u] = [user[d.u] EXCEPT !.linked = user[d.u].linked \cup {k}]
  BY <1>1, <1>2 DEF TypeOK, UserType, AccountType, Keeps
<1>4. /\ ~FindLiveIdentity(k)
      /\ \/ o = Outcome(known, ids, d.u)
         \/ \E i \in Primaries(ids, d.u) : o = Outcome([promoted(i) EXCEPT ![d.u].ok = TRUE], ids, d.u)
         \/ \E i \in Primaries(ids, d.u) :
               o = Outcome([promoted(i) EXCEPT ![d.u].providers = user[d.u].providers], ids, None)
  BY DEF Attached
<1> HIDE DEF ids, us
<1>5. Synced(fresh, ids, us, d.u)
  BY <1>1, <1>3, SyncEffect
<1> HIDE DEF fresh
<1>6. CASE o = Outcome(known, ids, d.u)
  <2>1. Keeps(known, d.u) /\ known[d.u] = [us[d.u] EXCEPT !.providers = d.provs]
    BY <1>3 DEF UserType, Keeps
  <2>2. [us[d.u] EXCEPT !.providers = d.provs] \in AccountType /\ d.provs \subseteq ProviderNames
    <3>1. us[d.u] \in AccountType /\ d.provs \subseteq ProviderNames
      BY <1>3 DEF UserType, DecisionType
    <3> QED
      BY <3>1 DEF AccountType
  <2>3. known \in UserType
    BY <1>3, <2>2 DEF UserType
  <2> HIDE DEF known
  <2> QED
    BY <1>1, <1>2, <1>3, <1>4, <1>6, <2>1, <2>3 DEF Outcome, AttachedTo, AccountType
<1>7. ASSUME NEW i \in Primaries(ids, d.u)
      PROVE  /\ promoted(i) \in UserType /\ Keeps(promoted(i), d.u)
             /\ promoted(i)[d.u].there = user[d.u].there /\ promoted(i)[d.u].deleted = user[d.u].deleted
             /\ promoted(i)[d.u].sso = user[d.u].sso
             /\ promoted(i)[d.u].linked = user[d.u].linked \cup {k}
  <2>1. ids[i] \in IdentityType /\ fresh \in UserType
    BY <1>1, <1>5, PrimariesHave DEF Synced
  <2>2. Promoted(promoted(i), fresh, d.u, ids[i])
    BY <2>1, PromoteEffect
  <2> HIDE DEF promoted
  <2> QED
    BY <1>2, <1>3, <1>5, <2>2 DEF Synced, Keeps, AccountType, Promoted
<1> HIDE DEF promoted
<1>8. ASSUME NEW i \in Primaries(ids, d.u), o = Outcome([promoted(i) EXCEPT ![d.u].ok = TRUE], ids, d.u)
      PROVE  AttachedTo(o, d.u, k, c)
  <2> DEFINE p == promoted(i)
  <2> HIDE DEF p
  <2>1. /\ p \in UserType /\ Keeps(p, d.u) /\ p[d.u].there = user[d.u].there
        /\ p[d.u].deleted = user[d.u].deleted /\ p[d.u].sso = user[d.u].sso
        /\ p[d.u].linked = user[d.u].linked \cup {k}
    BY <1>7 DEF p
  <2> DEFINE q == [p EXCEPT ![d.u].ok = TRUE]
  <2>2. q \in UserType /\ Keeps(q, d.u) /\ q[d.u] = [p[d.u] EXCEPT !.ok = TRUE]
    <3>1. Keeps(q, d.u) /\ q[d.u] = [p[d.u] EXCEPT !.ok = TRUE]
      BY <2>1 DEF UserType, Keeps
    <3>2. p[d.u] \in AccountType
      BY <2>1 DEF UserType
    <3>3. [p[d.u] EXCEPT !.ok = TRUE] \in AccountType
      BY <3>2 DEF AccountType
    <3> QED
      BY <2>1, <3>1, <3>3 DEF UserType
  <2>3. o.user = q /\ o.ident = ids /\ o.u = d.u
    BY <1>8 DEF Outcome, p
  <2> HIDE DEF q
  <2>4. p[d.u] \in AccountType
    BY <2>1 DEF UserType
  <2> QED
    BY <1>1, <1>4, <2>1, <2>2, <2>3, <2>4 DEF AttachedTo, AccountType
<1>9. ASSUME NEW i \in Primaries(ids, d.u),
             o = Outcome([promoted(i) EXCEPT ![d.u].providers = user[d.u].providers], ids, None)
      PROVE  AttachedTo(o, d.u, k, c)
  <2> DEFINE p == promoted(i)
  <2> HIDE DEF p
  <2>1. /\ p \in UserType /\ Keeps(p, d.u) /\ p[d.u].there = user[d.u].there
        /\ p[d.u].deleted = user[d.u].deleted /\ p[d.u].sso = user[d.u].sso
        /\ p[d.u].linked = user[d.u].linked \cup {k}
    BY <1>7 DEF p
  <2> DEFINE q == [p EXCEPT ![d.u].providers = user[d.u].providers]
  <2>2. q \in UserType /\ Keeps(q, d.u) /\ q[d.u] = [p[d.u] EXCEPT !.providers = user[d.u].providers]
    BY <1>2, <2>1 DEF UserType, AccountType, Keeps
  <2>3. o.user = q /\ o.ident = ids /\ o.u = None
    BY <1>9 DEF Outcome, p
  <2> HIDE DEF q
  <2>4. p[d.u] \in AccountType
    BY <2>1 DEF UserType
  <2> QED
    BY <1>1, <1>4, <2>1, <2>2, <2>3, <2>4 DEF AttachedTo, AccountType
<1> QED
  BY <1>4, <1>6, <1>8, <1>9

LEMMA UnlinkedEffect ==
    ASSUME TypeOK, NEW k \in Keys, NEW d \in DecisionType, d.u \in Users, NEW o \in Unlinked(k, d)
    PROVE  UnlinkedFrom(o, d.u, k)
<1> DEFINE ids == [ident EXCEPT ![k] = IF ident[k].user = d.u THEN NoIdentity ELSE ident[k]]
<1> DEFINE fresh == SyncAppMetaDataProviders(ids, user, d.u)
<1> DEFINE known == [user EXCEPT ![d.u].providers = d.provs]
<1>1. /\ ids \in IdentType
      /\ \A i \in Keys : IF i = k /\ ident[k].user = d.u THEN ids[i] = NoIdentity ELSE ids[i] = ident[i]
  BY BlankTypes DEF TypeOK, IdentType
<1>2. user[d.u] \in AccountType /\ user \in UserType
  BY DEF TypeOK, UserType
<1>3. \/ o = Outcome(known, ids, None)
      \/ \E i \in Primaries(ids, d.u) : o = Outcome(Promote(fresh, d.u, ids[i]), ids, None)
  BY DEF Unlinked
<1> HIDE DEF ids
<1>4. Synced(fresh, ids, user, d.u)
  BY <1>1, <1>2, SyncEffect
<1> HIDE DEF fresh
<1>5. CASE o = Outcome(known, ids, None)
  <2>1. /\ known \in UserType /\ Keeps(known, d.u)
        /\ known[d.u] = [user[d.u] EXCEPT !.providers = d.provs]
    BY <1>2 DEF UserType, AccountType, DecisionType, Keeps
  <2> HIDE DEF known
  <2> QED
    BY <1>1, <1>2, <1>5, <2>1 DEF Outcome, UnlinkedFrom, AccountType
<1>6. ASSUME NEW i \in Primaries(ids, d.u), o = Outcome(Promote(fresh, d.u, ids[i]), ids, None)
      PROVE  UnlinkedFrom(o, d.u, k)
  <2> DEFINE p == Promote(fresh, d.u, ids[i])
  <2>1. ids[i] \in IdentityType /\ fresh \in UserType /\ i \in Keys /\ ids[i].user = d.u
    BY <1>1, <1>4, PrimariesHave DEF Synced
  <2>2. Promoted(p, fresh, d.u, ids[i])
    BY <2>1, PromoteEffect
  <2>3. o.user = p /\ o.ident = ids /\ o.u = None
    BY <1>6 DEF Outcome
  <2> HIDE DEF p
  <2>4. /\ p[d.u].there = user[d.u].there /\ p[d.u].deleted = user[d.u].deleted
        /\ p[d.u].sso = user[d.u].sso /\ p[d.u].linked = user[d.u].linked
        /\ p[d.u].named = user[d.u].named /\ p[d.u].password = user[d.u].password
        /\ p[d.u].via = user[d.u].via /\ p[d.u].mail = ids[i].mail /\ Keeps(p, d.u)
        /\ user[d.u].ok /\ ids[i].mail # None /\ ids[i].verified => p[d.u].ok
    BY <1>2, <1>4, <2>2 DEF Synced, Keeps, AccountType, Promoted
  <2> QED
    BY <1>1, <2>1, <2>2, <2>3, <2>4 DEF UnlinkedFrom, Promoted
<1> QED
  BY <1>3, <1>5, <1>6

-----------------------------------------------------------------------------
(***************************************************************************)
(* Decisions.                                                              *)
(***************************************************************************)

LEMMA LinkToTyped ==
    ASSUME NEW us \in SUBSET Users, NEW m \in Mails
    PROVE  /\ LinkTo(us, m) \in DecisionType
           /\ LinkTo(us, m).do \in {"refuse", "create", "link"} /\ LinkTo(us, m).mail \in {m, None}
           /\ LinkTo(us, m).do = "link" => LinkTo(us, m).u \in us
<1>1. CASE Cardinality(us) = 1
  <2>1. us # {}
    BY <1>1, FS_EmptySet
  <2>2. (CHOOSE u \in us : TRUE) \in us
    BY <2>1
  <2> QED
    BY <1>1, <2>2 DEF LinkTo, Decision, DecisionType
<1>2. CASE Cardinality(us) # 1
  BY <1>2 DEF LinkTo, Decision, Refuse, DecisionType
<1> QED
  BY <1>1, <1>2

LEMMA FindsOwners ==
    ASSUME TypeOK, NEW ms \in SUBSET Mails, NEW p
    PROVE  /\ {ident[i].user : i \in FindIdentitiesByEmails(ms)} \subseteq Users
           /\ {ident[i].user : i \in FindSSOIdentitiesByEmails(p, ms)} \subseteq Users
           /\ FindUsersByEmails(ms) \subseteq Users
BY NoneApart DEF FindIdentitiesByEmails, FindSSOIdentitiesByEmails, FindUsersByEmails, TypeOK,
                 IdentType, IdentityType

\* What a decision of a sign-in is drawn from.
SignInDecided(d, k, c) ==
    \/ d.do = "refuse"
    \/ d.do = "exists" /\ d.u \in Users /\ ident[k].user = d.u
    \/ /\ d.do = "link" /\ d.u \in Users /\ k[1] \in conf.bySubject
       /\ d.u = subject[k[2]] /\ user[d.u].there
    \/ /\ d.do = "link" /\ d.u \in Users /\ k[1] \notin conf.bySubject
       /\ c.verified \/ conf.autoconfirm
       /\ \/ \E i \in Keys : ident[i].user = d.u /\ ident[i].mail = c.mail /\ (i[1] \in SSO <=> k[1] \in SSO)
          \/ k[1] \notin SSO /\ user[d.u].there /\ ~user[d.u].sso /\ user[d.u].mail = c.mail
    \/ d.do = "create" /\ d.mail \in {c.mail, None}

LEMMA VerifiedIsTheClaim ==
    ASSUME NEW c \in ClaimType
    PROVE  /\ VerifiedEmails(c) \subseteq Mails
           /\ \A m \in VerifiedEmails(c) : m = c.mail /\ (c.verified \/ conf.autoconfirm)
BY DEF VerifiedEmails, ClaimType

LEMMA SignInDecisions ==
    ASSUME TypeOK, NEW k \in ProviderKeys, NEW c \in ClaimType
    PROVE  /\ k[1] \notin SSO => /\ DetermineAccountLinking(k, c) \in DecisionType
                                 /\ SignInDecided(DetermineAccountLinking(k, c), k, c)
           /\ k[1] \in SSO => /\ DetermineSSOAccountLinking(k, c) \in DecisionType
                              /\ SignInDecided(DetermineSSOAccountLinking(k, c), k, c)
<1> DEFINE ms == VerifiedEmails(c)
<1> DEFINE similar == {ident[i].user : i \in FindIdentitiesByEmails(ms)}
<1> DEFINE twins == {ident[i].user : i \in FindSSOIdentitiesByEmails(k[1], ms)}
<1> DEFINE owners == FindUsersByEmails(ms)
<1>1. k \in Keys /\ k[1] \in Providers /\ k[2] \in Persons /\ c.mail \in Mails
  BY KeyShapes DEF ClaimType
<1>2. ms \subseteq Mails /\ \A m \in ms : m = c.mail /\ (c.verified \/ conf.autoconfirm)
  BY VerifiedIsTheClaim
<1>3. /\ ident[k] \in IdentityType
      /\ FindLiveIdentity(k) => ident[k].user \in Users /\ user[ident[k].user] \in AccountType
  BY <1>1 DEF TypeOK, IdentType, IdentityType, FindLiveIdentity, UserType
<1>4. CASE FindLiveIdentity(k)
  <2>1. user[ident[k].user].mail \in Mails \cup {None}
    BY <1>3, <1>4 DEF AccountType
  <2>2. /\ DetermineAccountLinking(k, c) = Decision("exists", ident[k].user, user[ident[k].user].mail)
        /\ DetermineSSOAccountLinking(k, c) = Decision("exists", ident[k].user, user[ident[k].user].mail)
    BY <1>4 DEF DetermineAccountLinking, DetermineSSOAccountLinking
  <2> QED
    BY <1>3, <1>4, <2>1, <2>2 DEF Decision, DecisionType, SignInDecided
<1>5. CASE ~FindLiveIdentity(k) /\ k[1] \notin SSO /\ k[1] \in conf.bySubject
  <2>1. subject[k[2]] \in Users
    BY <1>1, <1>5 DEF TypeOK
  <2>2. DetermineAccountLinking(k, c) = LinkBySubject(subject[k[2]], c)
    BY <1>5 DEF DetermineAccountLinking
  <2>3. FreeMail(c.mail) \in {c.mail, None}
    BY DEF FreeMail
  <2>4. user[subject[k[2]]] \in AccountType
    BY <2>1 DEF TypeOK, UserType
  <2> QED
    BY <1>1, <1>5, <2>1, <2>2, <2>3, <2>4
       DEF LinkBySubject, Decision, Refuse, DecisionType, SignInDecided, AccountType
<1>6. CASE ~FindLiveIdentity(k) /\ k[1] \notin SSO /\ k[1] \notin conf.bySubject
  <2>1. similar \subseteq Users /\ owners \subseteq Users
    BY <1>2, FindsOwners
  <2>2. \A u \in similar : /\ c.verified \/ conf.autoconfirm
                           /\ \E i \in Keys : ident[i].user = u /\ ident[i].mail = c.mail /\ i[1] \notin SSO
    BY <1>2 DEF FindIdentitiesByEmails
  <2>3. \A u \in owners : /\ c.verified \/ conf.autoconfirm
                          /\ user[u].there /\ ~user[u].sso /\ user[u].mail = c.mail
    BY <1>2 DEF FindUsersByEmails, FindUserByEmail
  <2>4. DetermineAccountLinking(k, c) =
            IF ms = {} THEN Decision("create", None, FreeMail(c.mail))
            ELSE IF similar # {} THEN LinkTo(similar, c.mail) ELSE LinkTo(owners, c.mail)
    BY <1>6 DEF DetermineAccountLinking
  <2> HIDE DEF ms, similar, owners
  <2>5. CASE ms = {}
    <3>1. FreeMail(c.mail) \in {c.mail, None}
      BY DEF FreeMail
    <3>2. DetermineAccountLinking(k, c) = Decision("create", None, FreeMail(c.mail))
      BY <2>4, <2>5
    <3> QED
      BY <1>1, <1>6, <3>1, <3>2 DEF Decision, DecisionType, SignInDecided
  <2>6. CASE ms # {} /\ similar # {}
    <3> DEFINE d == LinkTo(similar, c.mail)
    <3>1. /\ d \in DecisionType /\ d.do \in {"refuse", "create", "link"} /\ d.mail \in {c.mail, None}
          /\ d.do = "link" => d.u \in similar
      BY <1>1, <2>1, LinkToTyped
    <3>2. DetermineAccountLinking(k, c) = d
      BY <2>4, <2>6
    <3> HIDE DEF d
    <3> QED
      BY <1>6, <2>1, <2>2, <3>1, <3>2 DEF SignInDecided
  <2>7. CASE ms # {} /\ similar = {}
    <3> DEFINE d == LinkTo(owners, c.mail)
    <3>1. /\ d \in DecisionType /\ d.do \in {"refuse", "create", "link"} /\ d.mail \in {c.mail, None}
          /\ d.do = "link" => d.u \in owners
      BY <1>1, <2>1, LinkToTyped
    <3>2. DetermineAccountLinking(k, c) = d
      BY <2>4, <2>7
    <3> HIDE DEF d
    <3> QED
      BY <1>6, <2>1, <2>3, <3>1, <3>2 DEF SignInDecided
  <2> QED
    BY <1>6, <2>5, <2>6, <2>7
<1>7. CASE ~FindLiveIdentity(k) /\ k[1] \in SSO
  <2>1. twins \subseteq Users
    BY <1>2, FindsOwners
  <2>2. \A u \in twins : /\ c.verified \/ conf.autoconfirm
                         /\ \E i \in Keys : ident[i].user = u /\ ident[i].mail = c.mail /\ i[1] \in SSO
    BY <1>2, <1>7 DEF FindSSOIdentitiesByEmails
  <2> DEFINE d == LinkTo(twins, c.mail)
  <2>3. DetermineSSOAccountLinking(k, c) = d
    BY <1>7 DEF DetermineSSOAccountLinking
  <2>4. /\ d \in DecisionType /\ d.do \in {"refuse", "create", "link"} /\ d.mail \in {c.mail, None}
        /\ d.do = "link" => d.u \in twins
    BY <1>1, <2>1, LinkToTyped
  <2>5. k[1] \notin conf.bySubject
    BY <1>7, IdentityAssumption DEF TypeOK, ConfigType
  <2> HIDE DEF d, twins
  <2> QED
    BY <1>7, <2>1, <2>2, <2>3, <2>4, <2>5 DEF SignInDecided
<1> QED
  BY <1>4, <1>5, <1>6, <1>7

\* What a request may decide.
LinkDecided(d, k, u) ==
    \/ d.do = "refuse"
    \/ d.do = "attach" /\ d.u = u /\ user[u].there

UnlinkDecided(d, k, u) ==
    \/ d.do = "refuse"
    \/ /\ d.do \in {"unlink", "promote"} /\ d.u = u
       /\ \E j \in Keys : j # k /\ ident[j].user = u

LEMMA LinkDecisions ==
    ASSUME TypeOK, NEW k \in ProviderKeys, NEW u \in Users
    PROVE  DecideLink(k, u) \in DecisionType /\ LinkDecided(DecideLink(k, u), k, u)
<1>1. user[u] \in AccountType /\ k[1] \in ProviderNames /\ FindUserProviders(ident, u) \subseteq ProviderNames
  BY KeyShapes, ProvidersTyped DEF TypeOK, UserType, ProviderNames
<1>2. CASE ~user[u].there \/ FindLiveIdentity(k) \/ (k[1] \in conf.bySubject /\ subject[k[2]] # u)
  BY <1>2, BlankTypes DEF DecideLink, LinkDecided, Refuse, Decision
<1>3. CASE ~(~user[u].there \/ FindLiveIdentity(k) \/ (k[1] \in conf.bySubject /\ subject[k[2]] # u))
  <2>1. DecideLink(k, u) = [do |-> "attach", u |-> u, mail |-> user[u].mail,
                            provs |-> FindUserProviders(ident, u) \cup {k[1]}]
    BY <1>3 DEF DecideLink, Decision
  <2>2. user[u].mail \in Mails \cup {None}
    BY <1>1 DEF AccountType
  <2> QED
    BY <1>1, <1>3, <2>1, <2>2 DEF DecisionType, LinkDecided
<1> QED
  BY <1>2, <1>3

LEMMA UnlinkDecisions ==
    ASSUME TypeOK, NEW k \in Keys, NEW u \in Users
    PROVE  DecideUnlink(k, u) \in DecisionType /\ UnlinkDecided(DecideUnlink(k, u), k, u)
<1> DEFINE rest == [ident EXCEPT ![k] = NoIdentity]
<1> DEFINE how == CASE Backed(rest, u) -> "unlink"
                    [] ~Backed(rest, u) /\ Primaries(rest, u) # {} -> "promote"
                    [] ~Backed(rest, u) /\ Primaries(rest, u) = {} -> "refuse"
<1>1. DecideUnlink(k, u) =
          [Decision("unlink", u, None) EXCEPT !.provs = FindUserProviders(rest, u), !.do = how]
  BY DEF DecideUnlink
<1>2. FindUserProviders(rest, u) \subseteq ProviderNames
  BY ProvidersTyped
<1>3. \A j \in Keys : rest[j].user = u => j # k /\ ident[j].user = u
  BY NoneApart DEF TypeOK, IdentType, NoIdentity
<1>4. \/ how = "refuse"
      \/ how \in {"unlink", "promote"} /\ (Backed(rest, u) \/ Primaries(rest, u) # {})
  OBVIOUS
<1>5. Backed(rest, u) \/ Primaries(rest, u) # {} => \E j \in Keys : rest[j].user = u
  BY DEF Backed, Primaries, IdentitiesOf
<1> HIDE DEF rest, how
<1>6. DecideUnlink(k, u) = [do |-> how, u |-> u, mail |-> None, provs |-> FindUserProviders(rest, u)]
  BY <1>1 DEF Decision
<1> QED
  BY <1>2, <1>3, <1>4, <1>5, <1>6 DEF DecisionType, UnlinkDecided

\* What a request that goes on is left with.
RequestDecided(q, d) ==
    /\ d \in DecisionType
    /\ q.pc = "loaded" =>
          /\ q.key \in ProviderKeys /\ q.claim \in ClaimType
          /\ \/ SignInDecided(d, q.key, q.claim)
             \/ q.target \in Users /\ LinkDecided(d, q.key, q.target)
    /\ q.pc = "unlinking" =>
          q.key \in Keys /\ q.target \in Users /\ UnlinkDecided(d, q.key, q.target)

LEMMA Decisions ==
    ASSUME TypeOK, NEW r \in Requests, req[r].pc \in {"loaded", "unlinking"}
    PROVE  RequestDecided(req[r], DecisionOf(req[r]))
<1> DEFINE q == req[r]
<1> SUFFICES RequestDecided(q, DecisionOf(q))
  OBVIOUS
<1>1. LoadedOK(q) /\ q \in RequestType
  BY DEF TypeOK
<1>2. CASE q.pc = "unlinking"
  <2>1. q.key \in Keys /\ q.target \in Users /\ DecisionOf(q) = DecideUnlink(q.key, q.target)
    BY <1>1, <1>2 DEF LoadedOK, DecisionOf
  <2> HIDE DEF q
  <2> QED
    BY <1>2, <2>1, UnlinkDecisions DEF RequestDecided
<1>3. CASE q.pc = "loaded" /\ q.target # None
  <2>1. q.key \in ProviderKeys /\ q.claim \in ClaimType /\ q.target \in Users
    BY <1>1, <1>3 DEF LoadedOK, RequestType
  <2>2. DecisionOf(q) = DecideLink(q.key, q.target)
    BY <1>3 DEF DecisionOf
  <2>3. DecideLink(q.key, q.target) \in DecisionType /\ LinkDecided(DecideLink(q.key, q.target), q.key, q.target)
    BY <2>1, LinkDecisions
  <2> HIDE DEF q
  <2> QED
    BY <1>3, <2>1, <2>2, <2>3 DEF RequestDecided
<1>4. CASE q.pc = "loaded" /\ q.target = None
  <2>1. q.key \in ProviderKeys /\ q.claim \in ClaimType
    BY <1>1, <1>4 DEF LoadedOK
  <2>2. DecisionOf(q) = IF q.key[1] \in SSO THEN DetermineSSOAccountLinking(q.key, q.claim)
                        ELSE DetermineAccountLinking(q.key, q.claim)
    BY <1>4 DEF DecisionOf
  <2> HIDE DEF q
  <2>3. DecisionOf(q) \in DecisionType /\ SignInDecided(DecisionOf(q), q.key, q.claim)
    BY <2>1, <2>2, SignInDecisions
  <2> QED
    BY <1>4, <2>1, <2>3 DEF RequestDecided
<1> QED
  BY <1>2, <1>3, <1>4

-----------------------------------------------------------------------------
(***************************************************************************)
(* Commits, by what was decided, as relations of the accounts and          *)
(* identities before and after.                                            *)
(***************************************************************************)

SameButSessions(a, b) ==
    SameStanding(a, b) /\ a.password = b.password /\ a.via = b.via /\ a.ok = b.ok

Alone(u) == \A v \in Users : v # u => SameButSessions(user'[v], user[v])

\* The account is closed to whoever was there, or its confirmation stays.
Closes(u, k, c, via) ==
    \/ user'[u].via = via
    \/ /\ user'[u].via = k[2] /\ k[1] \notin SSO /\ user'[u].password = None
       /\ c.verified \/ conf.autoconfirm
       /\ \A i \in Keys : i # k => ident'[i].user # u

ExistsStep(u, k, c) ==
    /\ Alone(u) /\ SameStanding(user'[u], user[u]) /\ user'[u].password \in {user[u].password, None}
    /\ user[u].ok => user'[u].ok
    /\ \A i \in Keys : \/ ident'[i] = ident[i]
                       \/ i # k /\ ident[i].user = u /\ ident'[i] = NoIdentity
                       \/ i = k /\ ident[k].user = u /\ ident'[k] = IdentityRow(u, c)
    /\ Closes(u, k, c, user[u].via)

NewIdentity(u, k, c) ==
    /\ ~FindLiveIdentity(k) /\ ident'[k] = IdentityRow(u, c)
    /\ \A i \in Keys : i # k => ident'[i] = ident[i] \/ (ident[i].user = u /\ ident'[i] = NoIdentity)

LinkStep(u, k, c) ==
    /\ Alone(u) /\ NewIdentity(u, k, c) /\ Closes(u, k, c, user[u].via)
    /\ user'[u].there = user[u].there /\ user'[u].deleted = user[u].deleted
    /\ user'[u].sso = user[u].sso /\ user'[u].mail = user[u].mail /\ user'[u].linked = user[u].linked
    /\ user'[u].password \in {user[u].password, None} /\ (user[u].ok => user'[u].ok)
    /\ user[u].named => user'[u].named
    /\ k[1] \in conf.bySubject => user'[u].named

CreateStep(u, k, c, m) ==
    /\ Alone(u) /\ NewIdentity(u, k, c) /\ Closes(u, k, c, None)
    /\ ~user[u].there /\ user'[u].there /\ ~user'[u].deleted
    /\ user'[u].mail = m /\ user'[u].linked = {} /\ user'[u].password = None
    /\ user'[u].sso <=> k[1] \in SSO
    /\ k[1] \in SSO => user'[u].ok

AttachStep(u, k, c) ==
    /\ Alone(u) /\ ~FindLiveIdentity(k) /\ ident' = [ident EXCEPT ![k] = IdentityRow(u, c)]
    /\ user'[u].there = user[u].there /\ user'[u].deleted = user[u].deleted
    /\ user'[u].sso = user[u].sso /\ user'[u].linked # {}

UnlinkStep(u, k) ==
    /\ Alone(u)
    /\ user'[u].there = user[u].there /\ user'[u].deleted = user[u].deleted
    /\ user'[u].sso = user[u].sso /\ user'[u].linked = user[u].linked /\ user'[u].named = user[u].named
    /\ user'[u].password = user[u].password /\ user'[u].via = user[u].via
    /\ \A i \in Keys : IF i = k /\ ident[k].user = u THEN ident'[i] = NoIdentity ELSE ident'[i] = ident[i]
    /\ \/ user'[u].mail = user[u].mail /\ user'[u].ok = user[u].ok
       \/ \E i \in Keys :
             /\ ident'[i].user = u /\ user'[u].mail = ident'[i].mail
             /\ user[u].ok /\ ident'[i].mail # None /\ ident'[i].verified => user'[u].ok

CommitStep(q) ==
    LET d == q.dec
    IN  \/ d.do = "exists" /\ ExistsStep(d.u, q.key, q.claim)
        \/ d.do = "link" /\ LinkStep(d.u, q.key, q.claim)
        \/ d.do = "create" /\ \E u \in Users : CreateStep(u, q.key, q.claim, d.mail)
        \/ d.do = "attach" /\ AttachStep(d.u, q.key, q.claim)
        \/ d.do \in {"unlink", "promote"} /\ UnlinkStep(d.u, q.key)

\* The requests that stay: those that decided about a lost identity know.
Overtakes(r) ==
    /\ req'[r] = NoRequest
    /\ \A q \in Requests : q # r =>
          /\ req'[q] = [req[q] EXCEPT !.raced = req'[q].raced]
          /\ req[q].raced => req'[q].raced
          /\ \A k \in Keys :
                req[q].pc = "decided" /\ ident[k].user = req[q].dec.u /\ ident'[k].user # ident[k].user
                    => req'[q].raced
          /\ req'[q].raced \in BOOLEAN

\* Whoever signs in holds a session more.
LEMMA SessionsGrow ==
    ASSUME NEW us \in UserType, NEW u \in Users \cup {None}, NEW who, NEW new,
           \/ new = us
           \/ who \in Persons /\ new = [us EXCEPT ![u].sessions = @ \cup {who}]
    PROVE  new \in UserType /\ \A v \in Users : SameButSessions(new[v], us[v])
<1>1. CASE new = us
  BY <1>1 DEF SameButSessions, SameStanding
<1>2. CASE u = None /\ new = [us EXCEPT ![u].sessions = @ \cup {who}]
  <2>1. new = us
    BY <1>2, NoneApart DEF UserType
  <2> QED
    BY <2>1 DEF SameButSessions, SameStanding
<1>3. CASE u \in Users /\ who \in Persons /\ new = [us EXCEPT ![u].sessions = @ \cup {who}]
  <2>1. us[u] \in AccountType
    BY <1>3 DEF UserType
  <2>2. new = [us EXCEPT ![u] = [us[u] EXCEPT !.sessions = us[u].sessions \cup {who}]]
    BY <1>3 DEF UserType
  <2>3. [us[u] EXCEPT !.sessions = us[u].sessions \cup {who}] \in AccountType
    BY <1>3, <2>1 DEF AccountType
  <2>4. new \in UserType
    BY <1>3, <2>2, <2>3 DEF UserType
  <2>5. new[u] = [us[u] EXCEPT !.sessions = us[u].sessions \cup {who}]
    BY <1>3, <2>2 DEF UserType
  <2>6. \A v \in Users : v # u => new[v] = us[v]
    BY <2>2 DEF UserType
  <2>7. SameButSessions(new[u], us[u])
    BY <2>1, <2>5 DEF SameButSessions, SameStanding, AccountType
  <2> QED
    BY <2>4, <2>6, <2>7 DEF SameButSessions, SameStanding
<1> QED
  BY <1>1, <1>2, <1>3

LEMMA CommitRequests ==
    ASSUME TypeOK, NEW r \in Requests, Commit(r)
    PROVE  Overtakes(r) /\ req' \in [Requests -> RequestType]
<1>1. PICK o \in Outcomes(r) :
        /\ ident' = o.ident
        /\ req' = [q \in Requests |->
                      IF q = r THEN NoRequest
                      ELSE [req[q] EXCEPT !.raced = @ \/ Overtaken(r, o, q)]]
  BY DEF Commit
<1>2. ASSUME NEW q \in Requests, q # r
      PROVE  /\ req'[q] = [req[q] EXCEPT !.raced = req'[q].raced]
             /\ req'[q].raced <=> (req[q].raced \/ Overtaken(r, o, q))
             /\ req'[q].raced \in BOOLEAN
             /\ req'[q] \in RequestType
  <2>1. req[q] \in RequestType
    BY DEF TypeOK
  <2>2. req'[q] = [req[q] EXCEPT !.raced = req[q].raced \/ Overtaken(r, o, q)]
    BY <1>1, <1>2
  <2> QED
    BY <2>1, <2>2 DEF RequestType
<1>3. req'[r] = NoRequest /\ req' = [q \in Requests |-> req'[q]]
  BY <1>1
<1>4. \A q \in Requests : q # r =>
        \A k \in Keys : req[q].pc = "decided" /\ ident[k].user = req[q].dec.u /\ ident'[k].user # ident[k].user
            => Overtaken(r, o, q)
  BY <1>1 DEF Overtaken
<1> QED
  BY <1>2, <1>3, <1>4, BlankTypes DEF Overtakes

Blank(ids) == \A k \in Keys : ids[k].user = None => ids[k].mail = None

\* From Settle's view of an account to the step's.
StepFrom(us, ids, u, k, c) ==
    /\ Alone(u) /\ SameStanding(user'[u], us[u]) /\ user'[u].password \in {us[u].password, None}
    /\ (us[u].ok => user'[u].ok) /\ Closes(u, k, c, us[u].via)
    /\ \A i \in Keys : \/ ident'[i] = ids[i]
                       \/ i # k /\ ids[i].user = u /\ ident'[i] = NoIdentity

LEMMA SettledStep ==
    ASSUME TypeOK, NEW u \in Users, NEW k \in ProviderKeys, NEW c \in ClaimType,
           NEW us \in UserType, NEW ids \in IdentType, NEW o, Settled(o, us, ids, u, k, c), Keeps(us, u),
           ident' = o.ident, user' \in UserType, \A v \in Users : SameButSessions(user'[v], o.user[v])
    PROVE  StepFrom(us, ids, u, k, c)
<1>1. \A v \in Users : v # u => o.user[v] = user[v]
  BY DEF Settled, Keeps
<1>2. Alone(u)
  BY <1>1 DEF Alone
<1>3. SameStanding(user'[u], us[u]) /\ user'[u].password \in {us[u].password, None} /\ (us[u].ok => user'[u].ok)
  BY DEF Settled, SameButSessions, SameStanding
<1>4. Closes(u, k, c, us[u].via)
  BY DEF Settled, Closes, SameButSessions
<1> QED
  BY <1>2, <1>3, <1>4 DEF Settled, StepFrom

LEMMA BlankKept ==
    ASSUME TypeOK, NEW u \in Users, NEW k,
           \A i \in Keys : (ident'[i] = ident[i] \/ ident'[i] = NoIdentity) \/ (i = k /\ ident'[i].user = u)
    PROVE  Blank(ident')
BY NoneApart DEF TypeOK, Blank, NoIdentity

LEMMA CommitSteps ==
    ASSUME TypeOK, NEW r \in Requests, Commit(r)
    PROVE  CommitStep(req[r]) /\ user' \in UserType /\ ident' \in IdentType /\ Blank(ident')
<1> DEFINE q == req[r]
<1> DEFINE d == req[r].dec
<1>1. PICK o \in Outcomes(r) :
        /\ ident' = o.ident
        /\ user' = IF o.u = None \/ (q.f # None /\ flow[q.f].pkce) THEN o.user
                   ELSE [o.user EXCEPT ![o.u].sessions = @ \cup {q.key[2]}]
  BY DEF Commit
<1>2. q.pc = "decided" /\ q.dec \in DecisionType /\ LoadedOK(q)
  BY DEF Commit, TypeOK, RequestType
<1>3. /\ q.key \in Keys /\ d.do # "refuse"
      /\ d.do \in {"exists", "link", "create", "attach"} => q.key \in ProviderKeys /\ q.claim \in ClaimType
      /\ d.do # "create" => d.u \in Users
  BY <1>2 DEF LoadedOK
<1>4. /\ d.do = "exists" => o \in Exists(q.key, q.claim, d)
      /\ d.do = "link" => o \in Linked(q.key, q.claim, d)
      /\ d.do = "create" => o \in Created(q.key, q.claim, d)
      /\ d.do = "attach" => o \in Attached(q.key, q.claim, d)
      /\ d.do \in {"unlink", "promote"} => o \in Unlinked(q.key, d)
  <2>1. Outcomes(r) = CASE d.do = "exists" -> Exists(q.key, q.claim, d)
                        [] d.do = "link" -> Linked(q.key, q.claim, d)
                        [] d.do = "create" -> Created(q.key, q.claim, d)
                        [] d.do = "attach" -> Attached(q.key, q.claim, d)
                        [] d.do \in {"unlink", "promote"} -> Unlinked(q.key, d)
    BY DEF Outcomes
  <2> HIDE DEF d, q
  <2> QED
    BY <1>1, <2>1
<1>5. q.key \in ProviderKeys => q.key[2] \in Persons
  BY KeyShapes
<1>6. ASSUME o.user \in UserType, o.u \in Users \cup {None}, q.key \in ProviderKeys \/ o.u = None
      PROVE  user' \in UserType /\ \A v \in Users : SameButSessions(user'[v], o.user[v])
  <2>1. \/ user' = o.user
        \/ q.key[2] \in Persons /\ user' = [o.user EXCEPT ![o.u].sessions = @ \cup {q.key[2]}]
    BY <1>1, <1>5, <1>6
  <2> HIDE DEF q
  <2> QED
    BY <1>6, <2>1, SessionsGrow
<1> HIDE DEF q, d
<1>7. CASE d.do = "exists"
  <2>0. q.key \in ProviderKeys /\ q.claim \in ClaimType /\ d.u \in Users /\ d \in DecisionType
        /\ o \in Exists(q.key, q.claim, d)
    BY <1>2, <1>3, <1>4, <1>7 DEF d, q
  <2>1. PICK us \in UserType, ids \in IdentType :
          BeforeExists(us, ids, d.u, q.key, q.claim) /\ Settled(o, us, ids, d.u, q.key, q.claim)
    BY <2>0, ExistsEffect
  <2>2. user' \in UserType /\ (\A v \in Users : SameButSessions(user'[v], o.user[v])) /\ ident' \in IdentType
    BY <1>1, <1>6, <2>0, <2>1 DEF Settled
  <2>3. StepFrom(us, ids, d.u, q.key, q.claim)
    <3>1. Keeps(us, d.u)
      BY <2>1 DEF BeforeExists
    <3> QED
      BY <1>1, <2>0, <2>1, <2>2, <3>1, SettledStep
  <2>4. ExistsStep(d.u, q.key, q.claim)
    BY <2>1, <2>3 DEF BeforeExists, ExistsStep, SameStanding, StepFrom
  <2>5. Blank(ident')
    <3>1. \A i \in Keys : (ident'[i] = ident[i] \/ ident'[i] = NoIdentity) \/ (i = q.key /\ ident'[i].user = d.u)
      BY <2>0, <2>4 DEF ExistsStep, IdentityRow
    <3> QED
      BY <2>0, <3>1, BlankKept
  <2> QED
    BY <1>7, <2>2, <2>4, <2>5 DEF CommitStep, d, q
<1>8. CASE d.do = "link"
  <2>0. q.key \in ProviderKeys /\ q.claim \in ClaimType /\ d.u \in Users /\ d \in DecisionType
        /\ o \in Linked(q.key, q.claim, d) /\ q.key \in Keys
    BY <1>2, <1>3, <1>4, <1>8 DEF d, q
  <2>1. PICK us \in UserType, ids \in IdentType :
          BeforeLinked(us, ids, d.u, q.key, q.claim) /\ Settled(o, us, ids, d.u, q.key, q.claim)
    BY <2>0, LinkedEffect
  <2>2. user' \in UserType /\ (\A v \in Users : SameButSessions(user'[v], o.user[v])) /\ ident' \in IdentType
    BY <1>1, <1>6, <2>0, <2>1 DEF Settled
  <2>3. StepFrom(us, ids, d.u, q.key, q.claim)
    <3>1. Keeps(us, d.u)
      BY <2>1 DEF BeforeLinked
    <3> QED
      BY <1>1, <2>0, <2>1, <2>2, <3>1, SettledStep
  <2>4. ids[q.key] = IdentityRow(d.u, q.claim) /\ \A i \in Keys : i # q.key => ids[i] = ident[i]
    BY <2>0, <2>1 DEF BeforeLinked, TypeOK, IdentType
  <2>5. NewIdentity(d.u, q.key, q.claim)
    <3>1. \A i \in Keys : ident'[i] = ids[i] \/ (i # q.key /\ ids[i].user = d.u /\ ident'[i] = NoIdentity)
      BY <2>3 DEF StepFrom
    <3>2. ~FindLiveIdentity(q.key)
      BY <2>1 DEF BeforeLinked
    <3> QED
      BY <2>0, <2>4, <3>1, <3>2 DEF NewIdentity
  <2>6. LinkStep(d.u, q.key, q.claim)
    BY <2>1, <2>3, <2>5 DEF BeforeLinked, LinkStep, SameStanding, StepFrom
  <2>7. Blank(ident')
    <3>1. \A i \in Keys : (ident'[i] = ident[i] \/ ident'[i] = NoIdentity) \/ (i = q.key /\ ident'[i].user = d.u)
      BY <2>5 DEF NewIdentity, IdentityRow
    <3> QED
      BY <2>0, <3>1, BlankKept
  <2> QED
    BY <1>8, <2>2, <2>6, <2>7 DEF CommitStep, d, q
<1>9. CASE d.do = "create"
  <2>0. q.key \in ProviderKeys /\ q.claim \in ClaimType /\ d \in DecisionType
        /\ o \in Created(q.key, q.claim, d) /\ q.key \in Keys
    BY <1>2, <1>3, <1>4, <1>9 DEF d, q
  <2>1. PICK u \in Users, us \in UserType, ids \in IdentType :
          BeforeCreated(us, ids, u, q.key, q.claim, d.mail) /\ Settled(o, us, ids, u, q.key, q.claim)
    BY <2>0, CreatedEffect
  <2>2. user' \in UserType /\ (\A v \in Users : SameButSessions(user'[v], o.user[v])) /\ ident' \in IdentType
    BY <1>1, <1>6, <2>0, <2>1 DEF Settled
  <2>3. StepFrom(us, ids, u, q.key, q.claim)
    <3>1. Keeps(us, u)
      BY <2>1 DEF BeforeCreated
    <3> QED
      BY <1>1, <2>0, <2>1, <2>2, <3>1, SettledStep
  <2>4. ids[q.key] = IdentityRow(u, q.claim) /\ \A i \in Keys : i # q.key => ids[i] = ident[i]
    BY <2>0, <2>1 DEF BeforeCreated, TypeOK, IdentType
  <2>5. NewIdentity(u, q.key, q.claim)
    <3>1. \A i \in Keys : ident'[i] = ids[i] \/ (i # q.key /\ ids[i].user = u /\ ident'[i] = NoIdentity)
      BY <2>3 DEF StepFrom
    <3>2. ~FindLiveIdentity(q.key)
      BY <2>1 DEF BeforeCreated
    <3> QED
      BY <2>0, <2>4, <3>1, <3>2 DEF NewIdentity
  <2>6. CreateStep(u, q.key, q.claim, d.mail)
    BY <2>1, <2>3, <2>5 DEF BeforeCreated, CreateStep, SameStanding, StepFrom
  <2>7. Blank(ident')
    <3>1. \A i \in Keys : (ident'[i] = ident[i] \/ ident'[i] = NoIdentity) \/ (i = q.key /\ ident'[i].user = u)
      BY <2>5 DEF NewIdentity, IdentityRow
    <3> QED
      BY <2>0, <3>1, BlankKept
  <2> QED
    BY <1>9, <2>2, <2>6, <2>7 DEF CommitStep, d, q
<1>10. CASE d.do = "attach"
  <2>0. q.key \in ProviderKeys /\ q.claim \in ClaimType /\ d.u \in Users /\ d \in DecisionType
        /\ o \in Attached(q.key, q.claim, d) /\ q.key \in Keys
    BY <1>2, <1>3, <1>4, <1>10 DEF d, q
  <2>1. AttachedTo(o, d.u, q.key, q.claim)
    BY <2>0, AttachedEffect
  <2>2. user' \in UserType /\ \A v \in Users : SameButSessions(user'[v], o.user[v])
    BY <1>6, <2>0, <2>1 DEF AttachedTo
  <2>3. Alone(d.u) /\ ident' = [ident EXCEPT ![q.key] = IdentityRow(d.u, q.claim)]
    BY <1>1, <2>0, <2>1, <2>2 DEF AttachedTo, Keeps, Alone
  <2>4. AttachStep(d.u, q.key, q.claim)
    BY <2>0, <2>1, <2>2, <2>3 DEF AttachedTo, AttachStep, SameButSessions, SameStanding
  <2>5. ident' \in IdentType /\ Blank(ident')
    BY <2>0, <2>3, NoneApart DEF TypeOK, IdentType, IdentityType, IdentityRow, ClaimType, Blank
  <2> QED
    BY <1>10, <2>2, <2>4, <2>5 DEF CommitStep, d, q
<1>11. CASE d.do \in {"unlink", "promote"}
  <2>0. d.u \in Users /\ d \in DecisionType /\ o \in Unlinked(q.key, d) /\ q.key \in Keys
    BY <1>2, <1>3, <1>4, <1>11 DEF d, q
  <2>1. UnlinkedFrom(o, d.u, q.key)
    BY <2>0, UnlinkedEffect
  <2>2. user' \in UserType /\ \A v \in Users : SameButSessions(user'[v], o.user[v])
    BY <1>6, <2>0, <2>1 DEF UnlinkedFrom
  <2>3. Alone(d.u)
    BY <2>1, <2>2 DEF UnlinkedFrom, Keeps, Alone
  <2>4. UnlinkStep(d.u, q.key)
    BY <1>1, <2>0, <2>1, <2>2, <2>3 DEF UnlinkedFrom, UnlinkStep, SameButSessions, SameStanding
  <2>5. ident' \in IdentType /\ Blank(ident')
    <3>1. \A i \in Keys : (ident'[i] = ident[i] \/ ident'[i] = NoIdentity) \/ (i = q.key /\ ident'[i].user = d.u)
      BY <2>4 DEF UnlinkStep
    <3>2. ident' \in IdentType
      BY <1>1, <2>1 DEF UnlinkedFrom
    <3> QED
      BY <2>0, <3>1, <3>2, BlankKept
  <2> QED
    BY <1>11, <2>2, <2>4, <2>5 DEF CommitStep, d, q
<1> QED
  <2>1. d.do \in {"exists", "link", "create", "attach", "unlink", "promote"}
    BY <1>2, <1>3 DEF d, q, DecisionType
  <2> QED
    BY <2>1, <1>7, <1>8, <1>9, <1>10, <1>11

LEMMA OutcomesSignIn ==
    ASSUME TypeOK, NEW r \in Requests, req[r].pc = "decided", NEW o \in Outcomes(r)
    PROVE  o.u \in Users \cup {None}
<1> DEFINE q == req[r]
<1> DEFINE d == req[r].dec
<1>1. d \in DecisionType /\ LoadedOK(q) /\ q.pc = "decided"
  BY DEF TypeOK, RequestType
<1>2. /\ q.key \in Keys /\ d.do # "refuse"
      /\ d.do \in {"exists", "link", "create", "attach"} => q.key \in ProviderKeys /\ q.claim \in ClaimType
      /\ d.do # "create" => d.u \in Users
  BY <1>1 DEF LoadedOK
<1>3. Outcomes(r) = CASE d.do = "exists" -> Exists(q.key, q.claim, d)
                      [] d.do = "link" -> Linked(q.key, q.claim, d)
                      [] d.do = "create" -> Created(q.key, q.claim, d)
                      [] d.do = "attach" -> Attached(q.key, q.claim, d)
                      [] d.do \in {"unlink", "promote"} -> Unlinked(q.key, d)
  BY DEF Outcomes
<1> HIDE DEF d, q
<1>4. CASE d.do = "exists"
  <2>1. o \in Exists(q.key, q.claim, d)
    BY <1>3, <1>4
  <2> QED
    BY <1>1, <1>2, <1>4, <2>1, ExistsEffect DEF Settled
<1>5. CASE d.do = "link"
  <2>1. o \in Linked(q.key, q.claim, d)
    BY <1>3, <1>5
  <2> QED
    BY <1>1, <1>2, <1>5, <2>1, LinkedEffect DEF Settled
<1>6. CASE d.do = "create"
  <2>1. o \in Created(q.key, q.claim, d)
    BY <1>3, <1>6
  <2> QED
    BY <1>1, <1>2, <1>6, <2>1, CreatedEffect DEF Settled
<1>7. CASE d.do = "attach"
  <2>1. o \in Attached(q.key, q.claim, d)
    BY <1>3, <1>7
  <2>2. AttachedTo(o, d.u, q.key, q.claim)
    BY <1>1, <1>2, <1>7, <2>1, AttachedEffect
  <2> QED
    BY <1>2, <1>7, <2>2 DEF AttachedTo
<1>8. CASE d.do \in {"unlink", "promote"}
  <2>1. o \in Unlinked(q.key, d)
    BY <1>3, <1>8
  <2> QED
    BY <1>1, <1>2, <1>8, <2>1, UnlinkedEffect DEF UnlinkedFrom
<1> QED
  BY <1>1, <1>2, <1>4, <1>5, <1>6, <1>7, <1>8 DEF DecisionType

\* A commit that signs somebody in with a flow counts it there.
FlowSpent(r, f, u) ==
    /\ f = req[r].f /\ f \in Flows
    /\ flow[f].pkce => flow[f].user = None
    /\ flow' = [flow EXCEPT ![f] = flow'[f]] /\ flow'[f] \in FlowType /\ FlowOK(flow'[f])
    /\ flow'[f].grants = flow[f].grants + 1
    /\ flow'[f].takers = IF req[r].took THEN flow[f].takers + 1 ELSE flow[f].takers
    /\ flow'[f].user = IF flow[f].pkce THEN u ELSE flow[f].user
    /\ flow'[f].pkce = flow[f].pkce /\ flow'[f].state = flow[f].state /\ flow'[f].prov = flow[f].prov

LEMMA CommitFlow ==
    ASSUME TypeOK, NEW r \in Requests, Commit(r)
    PROVE  flow' = flow \/ \E f \in Flows, u \in Users : FlowSpent(r, f, u)
<1> DEFINE f == req[r].f
<1> DEFINE code == f # None /\ flow[f].pkce
<1>1. PICK o \in Outcomes(r) :
        /\ CanSignIn(r, o)
        /\ flow' = IF o.u = None \/ f = None THEN flow
                   ELSE [flow EXCEPT ![f].grants = @ + 1, ![f].takers = IF req[r].took THEN @ + 1 ELSE @,
                                     ![f].there = code /\ @, ![f].user = IF code THEN o.u ELSE @]
  BY DEF Commit
<1>2. o.u \in Users \cup {None} /\ req[r] \in RequestType
  BY OutcomesSignIn DEF Commit, TypeOK
<1>3. CASE o.u = None \/ f = None
  BY <1>1, <1>3
<1>4. CASE o.u # None /\ f # None
  <2>1. f \in Flows /\ o.u \in Users /\ req[r].took \in BOOLEAN
    BY <1>2, <1>4 DEF RequestType
  <2>2. flow[f] \in FlowType
    BY <2>1 DEF TypeOK
  <2>3. flow[f].pkce => flow[f].user = None
    BY <1>1, <1>4 DEF CanSignIn
  <2> DEFINE g == [flow[f] EXCEPT !.grants = flow[f].grants + 1,
                                  !.takers = IF req[r].took THEN flow[f].takers + 1 ELSE flow[f].takers,
                                  !.there = code /\ flow[f].there,
                                  !.user = IF code THEN o.u ELSE flow[f].user]
  <2>4. flow' = [flow EXCEPT ![f] = g]
    BY <1>1, <1>4, <2>1 DEF TypeOK
  <2>5. g \in FlowType
    <3> DEFINE taken == IF req[r].took THEN flow[f].takers + 1 ELSE flow[f].takers
    <3> DEFINE left == code /\ flow[f].there
    <3> DEFINE to == IF code THEN o.u ELSE flow[f].user
    <3>1. flow[f].grants + 1 \in Nat /\ taken \in Nat /\ left \in BOOLEAN /\ to \in Users \cup {None}
      BY <2>1, <2>2 DEF FlowType
    <3>2. g = [flow[f] EXCEPT !.grants = flow[f].grants + 1, !.takers = taken, !.there = left, !.user = to]
      OBVIOUS
    <3> HIDE DEF taken, left, to, g
    <3> QED
      BY <2>2, <3>1, <3>2 DEF FlowType
  <2>6. /\ g.grants = flow[f].grants + 1
        /\ g.takers = IF req[r].took THEN flow[f].takers + 1 ELSE flow[f].takers
        /\ g.user = IF flow[f].pkce THEN o.u ELSE flow[f].user
        /\ g.pkce = flow[f].pkce /\ g.state = flow[f].state /\ g.prov = flow[f].prov
        /\ g.who = flow[f].who /\ g.relay = flow[f].relay /\ (g.there => flow[f].there)
    BY <1>4, <2>1, <2>2 DEF FlowType
  <2> HIDE DEF g, code
  <2>7. flow'[f] = g
    BY <2>1, <2>4 DEF TypeOK
  <2> QED
    BY <2>1, <2>3, <2>4, <2>5, <2>6, <2>7 DEF FlowSpent, FlowOK, TypeOK
<1> QED
  BY <1>3, <1>4

-----------------------------------------------------------------------------
(***************************************************************************)
(* The other steps.                                                        *)
(***************************************************************************)

Quiet == ident' = ident /\ user' \in UserType /\ \A v \in Users : SameButSessions(user'[v], user[v])

SameFlow(a, b) ==
    /\ a.prov = b.prov /\ a.pkce = b.pkce /\ a.user = b.user /\ a.grants = b.grants /\ a.takers = b.takers
    /\ a.state => b.state
FlowsKept ==
    /\ flow' \in [Flows -> FlowType]
    /\ \A f \in Flows : FlowOK(flow'[f]) /\ SameFlow(flow'[f], flow[f])

Starts(f) ==
    /\ flow[f] = NoFlow /\ flow' = [flow EXCEPT ![f] = flow'[f]]
    /\ flow'[f] \in FlowType /\ FlowOK(flow'[f]) /\ flow'[f].prov # None
    /\ flow'[f].grants = 0 /\ flow'[f].takers = 0 /\ flow'[f].user = None

\* A request arrives; it may take the state of its flow.
Arrives(r, q) ==
    /\ req' = [req EXCEPT ![r] = q] /\ q \in RequestType /\ LoadedOK(q)
    /\ q.pc \in {"loaded", "unlinking"}
    /\ q.pc = "loaded" => q.claim = said[q.key[1]][q.key[2]]
    /\ q.f # None => flow[q.f].prov # None
    /\ q.took => q.f \in Flows /\ flow[q.f].state /\ ~flow'[q.f].state

StaysSaid == conf' = conf /\ subject' = subject /\ said' = said

LEMMA FlowActions ==
    ASSUME TypeOK, NEW f \in Flows, NEW p \in Providers, NEW who \in Persons, NEW challenge \in BOOLEAN,
           \/ ExternalProviderRedirect(f, p, who, challenge)
           \/ SingleSignOn(f, p, who, challenge)
           \/ \E u \in Users : LinkIdentity(f, p, who, u, challenge)
    PROVE  Starts(f) /\ StaysSaid /\ UNCHANGED <<user, ident, prov, req>>
<1>1. CASE SingleSignOn(f, p, who, challenge)
  <2> DEFINE g == [NoFlow EXCEPT !.there = TRUE, !.prov = p, !.who = who, !.pkce = challenge, !.relay = TRUE]
  <2>1. flow' = [flow EXCEPT ![f] = g] /\ flow[f] = NoFlow /\ p \in SSO
    BY <1>1 DEF SingleSignOn
  <2>2. g \in FlowType /\ FlowOK(g) /\ g.prov # None /\ g.grants = 0 /\ g.takers = 0 /\ g.user = None
    BY <2>1, NoneApart, IdentityAssumption DEF NoFlow, FlowType, FlowOK, Providers
  <2> HIDE DEF g
  <2>3. flow'[f] = g
    BY <2>1 DEF TypeOK
  <2> QED
    BY <1>1, <2>1, <2>2, <2>3 DEF Starts, StaysSaid, SingleSignOn
<1>2. ASSUME NEW target \in Users \cup {None}, StartExternalProviderFlow(f, p, who, target, challenge)
      PROVE  Starts(f) /\ StaysSaid /\ UNCHANGED <<user, ident, prov, req>>
  <2> DEFINE g == [NoFlow EXCEPT !.there = TRUE, !.prov = p, !.who = who, !.target = target,
                                 !.pkce = challenge, !.state = prov[p].pkce]
  <2>1. flow' = [flow EXCEPT ![f] = g] /\ flow[f] = NoFlow /\ prov[p].pkce \in BOOLEAN
    BY <1>2 DEF StartExternalProviderFlow, CreateOAuthFlowState, TypeOK
  <2>2. g \in FlowType /\ FlowOK(g) /\ g.prov # None /\ g.grants = 0 /\ g.takers = 0 /\ g.user = None
    BY <2>1, NoneApart, IdentityAssumption DEF NoFlow, FlowType, FlowOK, Providers
  <2> HIDE DEF g
  <2>3. flow'[f] = g
    BY <2>1 DEF TypeOK
  <2> QED
    BY <1>2, <2>1, <2>2, <2>3 DEF Starts, StaysSaid, StartExternalProviderFlow
<1> QED
  BY <1>1, <1>2 DEF ExternalProviderRedirect, LinkIdentity

LEMMA RelayDeleted ==
    ASSUME TypeOK, NEW f \in Flows, flow' = DeleteSAMLRelayState(f)
    PROVE  FlowsKept
<1>1. flow[f] \in FlowType
  BY DEF TypeOK
<1>2. [flow[f] EXCEPT !.relay = FALSE] \in FlowType /\ FlowOK([flow[f] EXCEPT !.relay = FALSE])
  BY <1>1 DEF FlowType, FlowOK, TypeOK
<1>3. flow' = [flow EXCEPT ![f] = [flow[f] EXCEPT !.relay = FALSE]]
  BY DEF DeleteSAMLRelayState, TypeOK
<1>4. SameFlow([flow[f] EXCEPT !.relay = FALSE], flow[f])
  BY <1>1 DEF FlowType, SameFlow
<1>5. \A g \in Flows : flow'[g] = IF g = f THEN [flow[f] EXCEPT !.relay = FALSE] ELSE flow[g]
  BY <1>3 DEF TypeOK
<1> QED
  BY <1>2, <1>3, <1>4, <1>5 DEF FlowsKept, TypeOK, SameFlow

LEMMA ExpireActions ==
    ASSUME TypeOK, NEW f \in Flows, Expire(f)
    PROVE  FlowsKept /\ StaysSaid /\ UNCHANGED <<user, ident, prov, req>>
<1>1. flow[f] \in FlowType
  BY DEF TypeOK
<1> DEFINE g == [flow[f] EXCEPT !.expired = TRUE]
<1>2. g \in FlowType /\ FlowOK(g) /\ SameFlow(g, flow[f])
  BY <1>1 DEF FlowType, FlowOK, TypeOK, SameFlow
<1>3. flow' = [flow EXCEPT ![f] = g]
  BY DEF Expire, TypeOK
<1> HIDE DEF g
<1>4. \A h \in Flows : flow'[h] = IF h = f THEN g ELSE flow[h]
  BY <1>3 DEF TypeOK
<1>5. FlowsKept
  BY <1>2, <1>3, <1>4 DEF FlowsKept, TypeOK, SameFlow
<1> QED
  BY <1>5 DEF Expire, StaysSaid

LEMMA ExchangeActions ==
    ASSUME TypeOK, NEW f \in Flows, ExchangeCode(f)
    PROVE  FlowsKept /\ Quiet /\ StaysSaid /\ UNCHANGED <<prov, req>>
<1>1. flow[f] \in FlowType
  BY DEF TypeOK
<1> DEFINE g == [flow[f] EXCEPT !.there = FALSE]
<1>2. g \in FlowType /\ FlowOK(g) /\ SameFlow(g, flow[f])
  BY <1>1 DEF FlowType, FlowOK, TypeOK, SameFlow
<1>3. flow' = [flow EXCEPT ![f] = g]
  BY DEF ExchangeCode, TypeOK
<1> HIDE DEF g
<1>4. \A h \in Flows : flow'[h] = IF h = f THEN g ELSE flow[h]
  BY <1>3 DEF TypeOK
<1>5. FlowsKept
  BY <1>2, <1>3, <1>4 DEF FlowsKept, TypeOK, SameFlow
<1>6. flow[f].user \in Users
  BY <1>1 DEF ExchangeCode, FlowType
<1>7. flow[f].who \in Persons
  BY <1>1 DEF ExchangeCode, FlowOK, TypeOK
<1>8. user \in UserType /\ user' = [user EXCEPT ![flow[f].user].sessions = @ \cup {flow[f].who}]
  BY DEF ExchangeCode, TypeOK
<1>9. user' \in UserType /\ \A v \in Users : SameButSessions(user'[v], user[v])
  BY <1>6, <1>7, <1>8, SessionsGrow
<1> QED
  BY <1>5, <1>9 DEF ExchangeCode, StaysSaid, Quiet

\* A request that is sent with a provider's word.
LEMMA Loads ==
    ASSUME TypeOK, NEW r \in Requests, NEW f \in Flows \cup {None}, NEW p \in Providers, NEW who \in Persons,
           NEW target \in Users \cup {None}, NEW took \in BOOLEAN, Load(r, f, <<p, who>>, target, took),
           f # None => flow[f].prov # None,
           took => f \in Flows /\ flow[f].state /\ ~flow'[f].state
    PROVE  \E q : Arrives(r, q)
<1> DEFINE q == [NoRequest EXCEPT !.pc = "loaded", !.f = f, !.key = <<p, who>>, !.claim = said[p][who],
                                  !.target = target, !.took = took]
<1>1. <<p, who>> \in ProviderKeys /\ <<p, who>> \in Keys /\ said[p][who] \in ClaimType
  BY KeyShapes DEF ProviderKeys, TypeOK
<1>2. /\ q \in RequestType /\ q.pc = "loaded" /\ q.f = f /\ q.took = took
      /\ q.key = <<p, who>> /\ q.claim = said[p][who]
  BY <1>1, BlankTypes DEF RequestType
<1>3. LoadedOK(q)
  BY <1>1, <1>2 DEF LoadedOK
<1>4. req' = [req EXCEPT ![r] = q]
  BY DEF Load
<1>5. /\ q.pc = "loaded" /\ q.f = f /\ q.took = took
      /\ q.claim = said[q.key[1]][q.key[2]]
  BY <1>2
<1> HIDE DEF q
<1> QED
  BY <1>2, <1>3, <1>4, <1>5 DEF Arrives

LEMMA LoadActions ==
    ASSUME TypeOK, NEW r \in Requests,
           \/ \E f \in Flows : LoadExternalState(r, f) \/ LoadRelayState(r, f)
           \/ \E p \in Providers, who \in Persons : LoadAssertion(r, p, who)
           \/ \E p \in Providers, who \in Persons, target \in Users \cup {None} : IdTokenGrant(r, p, who, target)
           \/ \E u \in Users, k \in Keys : DeleteIdentity(r, u, k)
    PROVE  FlowsKept /\ StaysSaid /\ UNCHANGED <<user, ident, prov>> /\ (req' = req \/ \E q : Arrives(r, q))
<1>0. flow' = flow => FlowsKept
  BY DEF FlowsKept, TypeOK, SameFlow
<1>1. ASSUME NEW f \in Flows, LoadExternalState(r, f)
      PROVE  FlowsKept /\ \E q : Arrives(r, q)
  <2> DEFINE p == flow[f].prov
  <2> DEFINE g == [flow[f] EXCEPT !.state = flow[f].state /\ ~prov[p].pkce]
  <2>1. /\ p \in External /\ (prov[p].pkce => flow[f].state)
        /\ Load(r, f, <<p, flow[f].who>>, flow[f].target, prov[p].pkce)
    BY <1>1 DEF LoadExternalState, TakeOAuthClientState
  <2>2. flow[f] \in FlowType /\ flow[f].who \in Persons /\ prov[p].pkce \in BOOLEAN /\ p \in Providers
        /\ p # None
    BY <1>1, <2>1, IdentityAssumption DEF TypeOK, FlowOK, Providers, LoadExternalState
  <2>3. flow' = [flow EXCEPT ![f] = g]
    BY <1>1 DEF LoadExternalState, TakeOAuthClientState, TypeOK
  <2>4. g \in FlowType /\ FlowOK(g) /\ SameFlow(g, flow[f]) /\ (g.state => ~prov[p].pkce)
    <3> DEFINE b == flow[f].state /\ ~prov[p].pkce
    <3>1. b \in BOOLEAN /\ (b => flow[f].state /\ ~prov[p].pkce) /\ g = [flow[f] EXCEPT !.state = b]
      BY <2>2 DEF FlowType
    <3> HIDE DEF b, g, p
    <3> QED
      BY <2>2, <3>1 DEF FlowType, FlowOK, TypeOK, SameFlow
  <2> HIDE DEF g
  <2>5. \A h \in Flows : flow'[h] = IF h = f THEN g ELSE flow[h]
    BY <2>3 DEF TypeOK
  <2>6. FlowsKept
    BY <2>3, <2>4, <2>5 DEF FlowsKept, TypeOK, SameFlow
  <2>7. flow[f].target \in Users \cup {None} /\ p \in Providers
    BY <2>2 DEF FlowType
  <2>8. prov[p].pkce => flow[f].state /\ ~flow'[f].state
    BY <2>1, <2>4, <2>5
  <2>9. flow[f].prov # None
    BY <2>2
  <2> HIDE DEF p
  <2> QED
    BY <2>1, <2>2, <2>6, <2>7, <2>8, <2>9, Loads
<1>2. ASSUME NEW f \in Flows, LoadRelayState(r, f)
      PROVE  FlowsKept /\ (req' = req \/ \E q : Arrives(r, q))
  <2>1. CASE flow' = DeleteSAMLRelayState(f) /\ UNCHANGED req
    BY <2>1, RelayDeleted
  <2>2. CASE Load(r, f, <<flow[f].prov, flow[f].who>>, None, FALSE) /\ UNCHANGED flow
    <3>1. flow[f].prov \in Providers /\ flow[f].prov # None /\ flow[f].who \in Persons
      BY <1>2, IdentityAssumption DEF LoadRelayState, TypeOK, FlowOK, Providers
    <3> QED
      BY <1>0, <2>2, <3>1, Loads
  <2> QED
    BY <1>2, <2>1, <2>2 DEF LoadRelayState
<1>3. ASSUME NEW p \in Providers, NEW who \in Persons, LoadAssertion(r, p, who)
      PROVE  FlowsKept /\ \E q : Arrives(r, q)
  BY <1>0, <1>3, Loads DEF LoadAssertion
<1>4. ASSUME NEW p \in Providers, NEW who \in Persons, NEW target \in Users \cup {None},
             IdTokenGrant(r, p, who, target)
      PROVE  FlowsKept /\ \E q : Arrives(r, q)
  BY <1>0, <1>4, Loads DEF IdTokenGrant
<1>5. ASSUME NEW u \in Users, NEW k \in Keys, DeleteIdentity(r, u, k)
      PROVE  FlowsKept /\ \E q : Arrives(r, q)
  <2> DEFINE q == [NoRequest EXCEPT !.pc = "unlinking", !.key = k, !.target = u]
  <2>1. q \in RequestType /\ LoadedOK(q) /\ q.pc = "unlinking" /\ q.f = None /\ ~q.took
    BY BlankTypes DEF NoRequest, RequestType, LoadedOK
  <2>2. req' = [req EXCEPT ![r] = q] /\ flow' = flow
    BY <1>5 DEF DeleteIdentity
  <2> HIDE DEF q
  <2> QED
    BY <1>0, <2>1, <2>2 DEF Arrives
<1>6. UNCHANGED <<user, ident, prov>> /\ StaysSaid
  BY DEF LoadExternalState, LoadRelayState, LoadAssertion, IdTokenGrant, DeleteIdentity, StaysSaid
<1> QED
  BY <1>1, <1>2, <1>3, <1>4, <1>5, <1>6

\* A request decides, or gives up.
Decides(r, d) ==
    /\ req[r].pc \in {"loaded", "unlinking"} /\ d.do # "refuse" /\ RequestDecided(req[r], d)
    /\ req' = [req EXCEPT ![r] = [req[r] EXCEPT !.pc = "decided", !.dec = d]]
    /\ req'[r] \in RequestType /\ LoadedOK(req'[r])
GivesUp(r) == req' = [req EXCEPT ![r] = NoRequest]

LEMMA DecideActions ==
    ASSUME TypeOK, NEW r \in Requests, Decide(r) \/ Rollback(r)
    PROVE  /\ FlowsKept /\ StaysSaid /\ UNCHANGED <<user, ident, prov>>
           /\ GivesUp(r) \/ \E d : Decides(r, d)
<1>0. flow' = flow => FlowsKept
  BY DEF FlowsKept, TypeOK, SameFlow
<1>1. CASE Rollback(r)
  BY <1>0, <1>1 DEF Rollback, GivesUp, StaysSaid
<1>2. CASE Decide(r)
  <2> DEFINE q == req[r]
  <2> DEFINE d == DecisionOf(q)
  <2> DEFINE next == [q EXCEPT !.pc = "decided", !.dec = d]
  <2>1. q \in RequestType /\ LoadedOK(q) /\ q.pc \in {"loaded", "unlinking"} /\ RequestDecided(q, d)
    BY <1>2, Decisions DEF Decide, TypeOK
  <2>2. FlowsKept
    <3>1. flow' = IF q.f # None /\ q.key[1] \in SSO THEN DeleteSAMLRelayState(q.f) ELSE flow
      BY <1>2 DEF Decide
    <3>2. q.f \in Flows \cup {None}
      BY <2>1 DEF RequestType
    <3> HIDE DEF q
    <3> QED
      BY <1>0, <3>1, <3>2, RelayDeleted
  <2>3. req' = [req EXCEPT ![r] = IF d.do = "refuse" THEN NoRequest ELSE next]
    BY <1>2 DEF Decide
  <2>4. CASE d.do # "refuse"
    <3>1. d \in DecisionType
      BY <2>1 DEF RequestDecided
    <3> HIDE DEF d
    <3>2. next \in RequestType
      BY <2>1, <3>1 DEF RequestType
    <3>3. next.pc = "decided" /\ next.dec = d /\ next.key = q.key /\ next.claim = q.claim
      BY <2>1 DEF RequestType
    <3>4. LoadedOK(next)
      <4> HIDE DEF next, q
      <4>1. /\ next.key \in Keys
            /\ d.do \in {"exists", "link", "create", "attach"} => q.key \in ProviderKeys /\ q.claim \in ClaimType
            /\ d.do # "create" => d.u \in Users
        BY <2>1, <2>4, <3>3, KeyShapes
           DEF RequestDecided, SignInDecided, LinkDecided, UnlinkDecided, LoadedOK
      <4> QED
        BY <2>4, <3>3, <4>1 DEF LoadedOK
    <3>5. req'[r] = next
      BY <2>3, <2>4 DEF TypeOK
    <3>6. req' = [req EXCEPT ![r] = next]
      BY <2>3, <2>4
    <3> QED
      BY <1>2, <2>1, <2>2, <2>4, <3>2, <3>4, <3>5, <3>6 DEF Decides, Decide, StaysSaid
  <2>5. CASE d.do = "refuse"
    BY <1>2, <2>2, <2>3, <2>5 DEF Decide, StaysSaid, GivesUp
  <2> QED
    BY <2>4, <2>5
<1> QED
  BY <1>1, <1>2

\* An account begins, is confirmed by mail, or ends.
Begins(u, m) ==
    /\ Alone(u) /\ ~user[u].there /\ user'[u].there /\ ~user'[u].sso /\ user'[u].mail = m
    /\ user'[u].linked = {} /\ user'[u].via = None
SignsUp(u, m) ==
    /\ Begins(u, m) /\ m \in Mails /\ ident'[EmailKey(u)].user = u /\ ident'[EmailKey(u)].mail = m
    /\ \A k \in Keys : k # EmailKey(u) => ident'[k] = ident[k]
ComesAnonymously(u) == Begins(u, None) /\ ident' = ident
Confirms(u) ==
    /\ Alone(u) /\ user[u].there /\ ~user[u].ok /\ user[u].mail # None
    /\ SameStanding(user'[u], user[u]) /\ user'[u].password = user[u].password
    /\ user'[u].via = user[u].via /\ user'[u].ok
    /\ ident'[EmailKey(u)].user = u /\ ident'[EmailKey(u)].mail = user[u].mail
    /\ \A k \in Keys : k # EmailKey(u) => ident'[k] = ident[k]
Ends(u) ==
    /\ Alone(u) /\ user'[u].there = user[u].there /\ user'[u].deleted /\ user'[u].sso = user[u].sso
    /\ user'[u].linked = user[u].linked /\ user'[u].named = user[u].named
    /\ user'[u].via = user[u].via /\ user'[u].ok = user[u].ok
    /\ user'[u].mail = None /\ user'[u].password = None
    /\ \A k \in Keys : ident'[k] = IF ident[k].user = u THEN NoIdentity ELSE ident[k]

AccountStep(u) == (\E m \in Mails : SignsUp(u, m)) \/ ComesAnonymously(u) \/ Confirms(u) \/ Ends(u)

\* Writing one account, one identity.
LEMMA AccountWritten ==
    ASSUME TypeOK, NEW u \in Users, NEW a \in AccountType, user' = [user EXCEPT ![u] = a]
    PROVE  Alone(u) /\ user'[u] = a /\ user' \in UserType
BY DEF TypeOK, UserType, Alone, SameButSessions, SameStanding

LEMMA IdentityWritten ==
    ASSUME TypeOK, NEW k \in Keys, NEW i \in IdentityType, i.user # None, ident' = [ident EXCEPT ![k] = i]
    PROVE  /\ ident' \in IdentType /\ Blank(ident') /\ ident'[k] = i
           /\ \A j \in Keys : j # k => ident'[j] = ident[j]
BY DEF TypeOK, IdentType, Blank

LEMMA AccountActions ==
    ASSUME TypeOK, NEW u \in Users,
           \/ SignupVerify(u) \/ SoftDeleteUser(u)
           \/ \E who \in Persons : SignupAnonymously(u, who) \/ \E m \in Mails : Signup(u, m, who)
    PROVE  /\ AccountStep(u) /\ user' \in UserType /\ ident' \in IdentType /\ Blank(ident')
           /\ UNCHANGED <<conf, subject, flow, prov, said, req>>
<1>0. /\ user[u] \in AccountType /\ EmailKey(u) \in Keys /\ conf.autoconfirm \in BOOLEAN
      /\ None \notin Users /\ ident \in IdentType /\ Blank(ident)
  BY KeyShapes, NoneApart DEF TypeOK, UserType, ConfigType, Blank
<1>1. ASSUME NEW who \in Persons, NEW m \in Mails, Signup(u, m, who)
      PROVE  SignsUp(u, m) /\ user' \in UserType /\ ident' \in IdentType /\ Blank(ident')
  <2> DEFINE open == IF conf.autoconfirm THEN {who} ELSE {}
  <2> DEFINE a == [InsertUser(m, "email") EXCEPT !.ok = conf.autoconfirm, !.password = who, !.sessions = open]
  <2> DEFINE i == [user |-> u, mail |-> m, verified |-> conf.autoconfirm]
  <2>1. /\ user' = [user EXCEPT ![u] = a] /\ ident' = [ident EXCEPT ![EmailKey(u)] = i]
        /\ ~user[u].there
    BY <1>1 DEF Signup
  <2>2. open \subseteq Persons
    OBVIOUS
  <2> HIDE DEF open
  <2>3. a \in AccountType
    BY <1>0, <2>2 DEF InsertUser, NoUser, AccountType, ProviderNames
  <2>4. a.there /\ ~a.sso /\ a.mail = m /\ a.linked = {} /\ a.via = None
    BY DEF InsertUser, NoUser
  <2>5. i \in IdentityType /\ i.user = u /\ i.mail = m
    BY <1>0 DEF IdentityType
  <2> HIDE DEF a, i
  <2>6. Alone(u) /\ user'[u] = a /\ user' \in UserType
    BY <2>1, <2>3, AccountWritten
  <2>7. /\ ident' \in IdentType /\ Blank(ident') /\ ident'[EmailKey(u)] = i
        /\ \A j \in Keys : j # EmailKey(u) => ident'[j] = ident[j]
    <3>1. i.user # None
      BY <1>0, <2>5
    <3> QED
      BY <1>0, <2>1, <2>5, <3>1, IdentityWritten
  <2> QED
    BY <2>1, <2>4, <2>5, <2>6, <2>7 DEF SignsUp, Begins
<1>2. ASSUME NEW who \in Persons, SignupAnonymously(u, who)
      PROVE  ComesAnonymously(u) /\ user' \in UserType /\ ident' \in IdentType /\ Blank(ident')
  <2> DEFINE a == [NoUser EXCEPT !.there = TRUE, !.sessions = {who}]
  <2>1. user' = [user EXCEPT ![u] = a] /\ ~user[u].there /\ ident' = ident
    BY <1>2 DEF SignupAnonymously
  <2>2. a \in AccountType
    BY DEF NoUser, AccountType
  <2>3. a.there /\ ~a.sso /\ a.mail = None /\ a.linked = {} /\ a.via = None
    BY DEF NoUser
  <2> HIDE DEF a
  <2>4. Alone(u) /\ user'[u] = a /\ user' \in UserType
    BY <2>1, <2>2, AccountWritten
  <2> QED
    BY <1>0, <2>1, <2>3, <2>4 DEF ComesAnonymously, Begins, Blank
<1>3. ASSUME SignupVerify(u)
      PROVE  Confirms(u) /\ user' \in UserType /\ ident' \in IdentType /\ Blank(ident')
  <2> DEFINE a == [user[u] EXCEPT !.ok = TRUE, !.sessions = user[u].sessions \cup {OwnerOf[user[u].mail]}]
  <2> DEFINE i == [user |-> u, mail |-> user[u].mail, verified |-> TRUE]
  <2>1. /\ user' = [user EXCEPT ![u] = a] /\ ident' = [ident EXCEPT ![EmailKey(u)] = i]
        /\ user[u].there /\ ~user[u].ok /\ user[u].mail # None
    BY <1>3 DEF SignupVerify, TypeOK, UserType
  <2>2. user[u].mail \in Mails /\ OwnerOf[user[u].mail] \in Persons
    BY <1>0, <2>1, IdentityAssumption DEF AccountType
  <2>3. a \in AccountType
    BY <1>0, <2>2 DEF AccountType
  <2>4. SameStanding(a, user[u]) /\ a.password = user[u].password /\ a.via = user[u].via /\ a.ok
    BY <1>0 DEF AccountType, SameStanding
  <2>5. i \in IdentityType /\ i.user = u /\ i.mail = user[u].mail
    BY <2>2 DEF IdentityType
  <2> HIDE DEF a, i
  <2>6. Alone(u) /\ user'[u] = a /\ user' \in UserType
    BY <2>1, <2>3, AccountWritten
  <2>7. /\ ident' \in IdentType /\ Blank(ident') /\ ident'[EmailKey(u)] = i
        /\ \A j \in Keys : j # EmailKey(u) => ident'[j] = ident[j]
    <3>1. i.user # None
      BY <1>0, <2>5
    <3> QED
      BY <1>0, <2>1, <2>5, <3>1, IdentityWritten
  <2> QED
    BY <2>1, <2>4, <2>5, <2>6, <2>7 DEF Confirms
<1>4. ASSUME SoftDeleteUser(u)
      PROVE  Ends(u) /\ user' \in UserType /\ ident' \in IdentType /\ Blank(ident')
  <2> DEFINE a == [user[u] EXCEPT !.deleted = TRUE, !.mail = None, !.password = None, !.sessions = {}]
  <2>1. user' = [user EXCEPT ![u] = a] /\ ident' = DeleteOtherIdentities(ident, u, None)
    BY <1>4 DEF SoftDeleteUser, TypeOK, UserType
  <2>2. a \in AccountType
    BY <1>0 DEF AccountType
  <2>3. /\ a.there = user[u].there /\ a.deleted /\ a.sso = user[u].sso /\ a.linked = user[u].linked
        /\ a.named = user[u].named /\ a.via = user[u].via /\ a.ok = user[u].ok /\ a.mail = None
        /\ a.password = None
    BY <1>0 DEF AccountType
  <2> HIDE DEF a
  <2>4. Alone(u) /\ user'[u] = a /\ user' \in UserType
    BY <2>1, <2>2, AccountWritten
  <2>5. None \notin Keys
    BY IdentityAssumption
  <2>6. \A k \in Keys : ident'[k] = IF ident[k].user = u THEN NoIdentity ELSE ident[k]
    BY <2>1, <2>5 DEF DeleteOtherIdentities
  <2>7. ident' \in IdentType
    BY <1>0, <2>1, DeletedTyped
  <2>8. Blank(ident')
    BY <1>0, <2>6 DEF Blank, NoIdentity
  <2> QED
    BY <2>3, <2>4, <2>6, <2>7, <2>8 DEF Ends
<1>5. UNCHANGED <<conf, subject, flow, prov, said, req>>
  BY DEF SignupVerify, SoftDeleteUser, SignupAnonymously, Signup, Others
<1> QED
  BY <1>1, <1>2, <1>3, <1>4, <1>5 DEF AccountStep

LEMMA PasswordActions ==
    ASSUME TypeOK, NEW u \in Users, PasswordGrant(u)
    PROVE  Quiet /\ StaysSaid /\ UNCHANGED <<flow, prov, req>>
<1>1. user \in UserType /\ user[u].password \in Persons
  BY DEF PasswordGrant, TypeOK, UserType, AccountType
<1>2. user' = [user EXCEPT ![u].sessions = @ \cup {user[u].password}]
  BY DEF PasswordGrant
<1>3. user' \in UserType /\ \A v \in Users : SameButSessions(user'[v], user[v])
  BY <1>1, <1>2, SessionsGrow
<1> QED
  BY <1>3 DEF PasswordGrant, Others, StaysSaid, Quiet

\* A provider changes: its row, its relay states, or what it says.
Switches ==
    /\ FlowsKept /\ prov' \in [Providers -> [there : BOOLEAN, enabled : BOOLEAN, pkce : BOOLEAN]]
    /\ UNCHANGED <<conf, subject, user, ident, req>>
    /\ said' = said \/ conf.drifts
    /\ said' \in [Providers -> [Persons -> ClaimType]]
    /\ \A p \in Providers, a \in Persons : said'[p][a] = said[p][a] \/ said'[p][a] \in Claims(p, a)

LEMMA ProviderActions ==
    ASSUME TypeOK, NEW p \in Providers,
           \/ \E on, pkce \in BOOLEAN : AdminUpdateCustomProvider(p, on, pkce) \/ AdminUpdateSSOProvider(p, on)
           \/ DeleteProvider(p)
           \/ \E who \in Persons : Drift(p, who)
    PROVE  Switches
<1>0. flow' = flow => FlowsKept
  BY DEF FlowsKept, TypeOK, SameFlow
<1>1. ASSUME NEW on \in BOOLEAN, NEW pkce \in BOOLEAN, SetProvider(p, on, pkce)
      PROVE  Switches
  BY <1>0, <1>1 DEF SetProvider, Switches, TypeOK
<1>2. CASE DeleteProvider(p)
  <2>1. ASSUME NEW f \in Flows
        PROVE  /\ [flow[f] EXCEPT !.relay = FALSE] \in FlowType
               /\ FlowOK([flow[f] EXCEPT !.relay = FALSE])
               /\ SameFlow([flow[f] EXCEPT !.relay = FALSE], flow[f])
               /\ FlowOK(flow[f]) /\ SameFlow(flow[f], flow[f]) /\ flow[f] \in FlowType
    <3>1. flow[f] \in FlowType /\ FlowOK(flow[f])
      BY DEF TypeOK
    <3> QED
      BY <3>1 DEF FlowType, FlowOK, SameFlow
  <2>2. flow' = [f \in Flows |-> IF flow[f].prov = p THEN [flow[f] EXCEPT !.relay = FALSE] ELSE flow[f]]
    BY <1>2 DEF DeleteProvider
  <2>3. FlowsKept
    BY <2>1, <2>2 DEF FlowsKept
  <2>4. prov' \in [Providers -> [there : BOOLEAN, enabled : BOOLEAN, pkce : BOOLEAN]]
    BY <1>2 DEF DeleteProvider, TypeOK
  <2> QED
    BY <1>2, <2>3, <2>4 DEF DeleteProvider, Switches, TypeOK
<1>3. ASSUME NEW who \in Persons, Drift(p, who)
      PROVE  Switches
  <2>1. PICK c \in Claims(p, who) : said' = [said EXCEPT ![p][who] = c]
    BY <1>3 DEF Drift
  <2>2. c \in ClaimType
    <3>1. PICK m \in Mails : c = [mail |-> m, verified |-> OwnerOf[m] = who \/ p \in SSO]
      BY <2>1 DEF Claims
    <3> DEFINE b == OwnerOf[m] = who \/ p \in SSO
    <3>2. b \in BOOLEAN /\ c = [mail |-> m, verified |-> b]
      BY <3>1
    <3> HIDE DEF b
    <3> QED
      BY <3>2 DEF ClaimType
  <2>3. /\ said' \in [Providers -> [Persons -> ClaimType]]
        /\ \A q \in Providers, a \in Persons : said'[q][a] = IF q = p /\ a = who THEN c ELSE said[q][a]
    BY <2>1, <2>2 DEF TypeOK
  <2> QED
    BY <1>0, <1>3, <2>1, <2>3 DEF Drift, Switches, TypeOK
<1> QED
  BY <1>1, <1>2, <1>3 DEF AdminUpdateCustomProvider, AdminUpdateSSOProvider

\* Every step, by what it does to accounts, requests and flows.
Passes ==
    \/ \E f \in Flows : Starts(f) /\ Quiet /\ StaysSaid /\ UNCHANGED <<prov, req>>
    \/ /\ FlowsKept /\ Quiet /\ StaysSaid /\ UNCHANGED prov
       /\ \/ req' = req
          \/ \E r \in Requests : GivesUp(r) \/ (\E q : Arrives(r, q)) \/ (\E d : Decides(r, d))
    \/ Switches /\ Quiet
Enters ==
    /\ \E u \in Users : AccountStep(u)
    /\ user' \in UserType /\ ident' \in IdentType /\ Blank(ident')
    /\ UNCHANGED <<conf, subject, flow, prov, said, req>>
Commits(r) ==
    /\ req[r].pc = "decided" /\ CommitStep(req[r]) /\ Overtakes(r)
    /\ user' \in UserType /\ ident' \in IdentType /\ Blank(ident')
    /\ req' \in [Requests -> RequestType]
    /\ flow' = flow \/ \E f \in Flows, u \in Users : FlowSpent(r, f, u)
    /\ StaysSaid /\ UNCHANGED prov

LEMMA NextSteps ==
    ASSUME TypeOK, [Next]_vars
    PROVE  Passes \/ Enters \/ \E r \in Requests : Commits(r)
<1>0. /\ UNCHANGED <<user, ident>> => Quiet
      /\ flow' = flow => FlowsKept
  BY DEF Quiet, TypeOK, SameButSessions, SameStanding, FlowsKept, SameFlow
<1>1. CASE UNCHANGED vars
  BY <1>0, <1>1 DEF vars, Passes, StaysSaid
<1>2. CASE \E f \in Flows, p \in Providers, who \in Persons, challenge \in BOOLEAN :
              \/ ExternalProviderRedirect(f, p, who, challenge)
              \/ SingleSignOn(f, p, who, challenge)
              \/ \E u \in Users : LinkIdentity(f, p, who, u, challenge)
  <2>1. PICK f \in Flows, p \in Providers, who \in Persons, challenge \in BOOLEAN :
              \/ ExternalProviderRedirect(f, p, who, challenge)
              \/ SingleSignOn(f, p, who, challenge)
              \/ \E u \in Users : LinkIdentity(f, p, who, u, challenge)
    BY <1>2
  <2>2. Starts(f) /\ StaysSaid /\ UNCHANGED <<user, ident, prov, req>>
    BY <2>1, FlowActions
  <2> QED
    BY <1>0, <2>2 DEF Passes
<1>3. CASE \E f \in Flows : Expire(f) \/ ExchangeCode(f)
  BY <1>0, <1>3, ExpireActions, ExchangeActions DEF Passes
<1>4. CASE \E r \in Requests :
              \/ \E f \in Flows : LoadExternalState(r, f) \/ LoadRelayState(r, f)
              \/ \E p \in Providers, who \in Persons : LoadAssertion(r, p, who)
              \/ \E p \in Providers, who \in Persons, target \in Users \cup {None} : IdTokenGrant(r, p, who, target)
              \/ \E u \in Users, k \in Keys : DeleteIdentity(r, u, k)
  <2>1. PICK r \in Requests :
              /\ FlowsKept /\ StaysSaid /\ UNCHANGED <<user, ident, prov>>
              /\ req' = req \/ \E q : Arrives(r, q)
    BY <1>4, LoadActions
  <2> QED
    BY <1>0, <2>1 DEF Passes
<1>5. CASE \E r \in Requests : Decide(r) \/ Rollback(r)
  <2>1. PICK r \in Requests :
              /\ FlowsKept /\ StaysSaid /\ UNCHANGED <<user, ident, prov>>
              /\ GivesUp(r) \/ \E d : Decides(r, d)
    BY <1>5, DecideActions
  <2> QED
    BY <1>0, <2>1 DEF Passes
<1>6. CASE \E r \in Requests : Commit(r)
  <2>1. PICK r \in Requests : Commit(r)
    BY <1>6
  <2>2. /\ CommitStep(req[r]) /\ Overtakes(r) /\ user' \in UserType /\ ident' \in IdentType /\ Blank(ident')
        /\ req' \in [Requests -> RequestType]
        /\ flow' = flow \/ \E f \in Flows, u \in Users : FlowSpent(r, f, u)
    BY <2>1, CommitSteps, CommitRequests, CommitFlow
  <2>3. req[r].pc = "decided" /\ StaysSaid /\ UNCHANGED prov
    BY <2>1 DEF Commit, StaysSaid
  <2> QED
    BY <2>2, <2>3 DEF Commits
<1>7. CASE \E u \in Users : PasswordGrant(u)
  BY <1>0, <1>7, PasswordActions DEF Passes
<1>8. CASE \E u \in Users : \/ SignupVerify(u) \/ SoftDeleteUser(u)
                            \/ \E who \in Persons : SignupAnonymously(u, who) \/ \E m \in Mails : Signup(u, m, who)
  <2>1. PICK u \in Users : /\ AccountStep(u) /\ user' \in UserType /\ ident' \in IdentType /\ Blank(ident')
                           /\ UNCHANGED <<conf, subject, flow, prov, said, req>>
    BY <1>8, AccountActions
  <2> QED
    BY <2>1 DEF Enters
<1>9. CASE \E p \in Providers : \/ \E on, pkce \in BOOLEAN :
                                      AdminUpdateCustomProvider(p, on, pkce) \/ AdminUpdateSSOProvider(p, on)
                                \/ DeleteProvider(p)
                                \/ \E who \in Persons : Drift(p, who)
  <2>1. Switches
    BY <1>9, ProviderActions
  <2> QED
    BY <1>0, <2>1 DEF Passes, Switches
<1> QED
  BY <1>1, <1>2, <1>3, <1>4, <1>5, <1>6, <1>7, <1>8, <1>9 DEF Next

-----------------------------------------------------------------------------
LEMMA InitTyped == ASSUME Init PROVE TypeOK
<1>1. conf \in ConfigType /\ subject \in [Persons -> Users \cup {None}]
      /\ (conf.bySubject # {} => subject \in [Persons -> Users])
  BY IdentityAssumption DEF Init, ConfigType
<1>2. user \in UserType /\ ident \in IdentType /\ Blank(ident)
  <2>1. \A m \in Mails : Registered(m) \in AccountType
    BY IdentityAssumption DEF Registered, InsertUser, NoUser, AccountType, ProviderNames
  <2>2. CASE user = [u \in Users |-> NoUser] /\ ident = [k \in Keys |-> NoIdentity]
    BY <2>2, BlankTypes DEF UserType, IdentType, Blank, NoIdentity
  <2>3. ASSUME NEW u \in Users, NEW m \in Mails,
               user = [v \in Users |-> IF v = u THEN Registered(m) ELSE NoUser],
               ident = [k \in Keys |-> IF k = EmailKey(u) THEN [user |-> u, mail |-> m, verified |-> TRUE]
                                       ELSE NoIdentity]
        PROVE  user \in UserType /\ ident \in IdentType /\ Blank(ident)
    <3>1. user \in UserType
      BY <2>1, <2>3, BlankTypes DEF UserType
    <3>2. [user |-> u, mail |-> m, verified |-> TRUE] \in IdentityType
      BY DEF IdentityType
    <3>3. ident \in IdentType
      BY <2>3, <3>2, BlankTypes DEF IdentType
    <3> QED
      BY <2>3, <3>1, <3>3, NoneApart DEF Blank, NoIdentity
  <2> QED
    BY <2>2, <2>3 DEF Init
<1>3. flow \in [Flows -> FlowType] /\ \A f \in Flows : FlowOK(flow[f])
  BY BlankTypes, NoneApart, IdentityAssumption DEF Init, FlowOK, NoFlow
<1>4. prov \in [Providers -> [there : BOOLEAN, enabled : BOOLEAN, pkce : BOOLEAN]]
  <2>1. conf.pkce \in BOOLEAN
    BY <1>1 DEF ConfigType
  <2>2. \A p \in Providers : (p \in External /\ conf.pkce) \in BOOLEAN
    OBVIOUS
  <2> QED
    BY <2>2 DEF Init
<1>5. said \in [Providers -> [Persons -> ClaimType]]
  BY DEF Init, ClaimType
<1>6. req \in [Requests -> RequestType] /\ \A r \in Requests : LoadedOK(req[r])
  BY BlankTypes DEF Init
<1> QED
  BY <1>1, <1>2, <1>3, <1>4, <1>5, <1>6 DEF TypeOK, Blank

LEMMA TypeStep == ASSUME TypeOK, [Next]_vars PROVE TypeOK'
<1> DEFINE Frame == /\ conf' \in ConfigType /\ subject' \in [Persons -> Users \cup {None}]
                    /\ (conf'.bySubject # {} => subject' \in [Persons -> Users])
                    /\ prov' \in [Providers -> [there : BOOLEAN, enabled : BOOLEAN, pkce : BOOLEAN]]
                    /\ said' \in [Providers -> [Persons -> ClaimType]]
                    /\ user' \in UserType /\ ident' \in IdentType /\ Blank(ident')
<1>1. Frame
  <2>1. CASE Passes
    BY <2>1 DEF Passes, StaysSaid, Quiet, Switches, TypeOK, Blank
  <2>2. CASE Enters
    BY <2>2 DEF Enters, TypeOK
  <2>3. CASE \E r \in Requests : Commits(r)
    BY <2>3 DEF Commits, StaysSaid, TypeOK
  <2> QED
    BY <2>1, <2>2, <2>3, NextSteps
<1>2. flow' \in [Flows -> FlowType] /\ \A f \in Flows : FlowOK(flow'[f])
  <2>1. CASE FlowsKept
    BY <2>1 DEF FlowsKept
  <2>2. ASSUME NEW f \in Flows, Starts(f) \/ \E r \in Requests, u \in Users : FlowSpent(r, f, u)
        PROVE  flow' \in [Flows -> FlowType] /\ \A g \in Flows : FlowOK(flow'[g])
    BY <2>2 DEF Starts, FlowSpent, TypeOK
  <2>3. CASE flow' = flow
    BY <2>3 DEF TypeOK
  <2> QED
    BY <2>1, <2>2, <2>3, NextSteps DEF Passes, Enters, Commits, Switches
<1>3. req' \in [Requests -> RequestType] /\ \A r \in Requests : LoadedOK(req'[r])
  <2>1. CASE req' = req
    BY <2>1 DEF TypeOK
  <2>2. ASSUME NEW r \in Requests, GivesUp(r) \/ (\E q : Arrives(r, q)) \/ (\E d : Decides(r, d))
        PROVE  req' \in [Requests -> RequestType] /\ \A s \in Requests : LoadedOK(req'[s])
    <3>1. \E q \in RequestType : LoadedOK(q) /\ req' = [req EXCEPT ![r] = q]
      <4>1. CASE GivesUp(r)
        BY <4>1, BlankTypes DEF GivesUp
      <4>2. CASE \E q : Arrives(r, q)
        BY <4>2 DEF Arrives
      <4>3. CASE \E d : Decides(r, d)
        <5>1. PICK d : Decides(r, d)
          BY <4>3
        <5>2. req' = [req EXCEPT ![r] = req'[r]]
          BY <5>1 DEF Decides, TypeOK
        <5> QED
          BY <5>1, <5>2 DEF Decides
      <4> QED
        BY <2>2, <4>1, <4>2, <4>3
    <3> QED
      BY <3>1 DEF TypeOK
  <2>3. ASSUME NEW r \in Requests, Commits(r)
        PROVE  req' \in [Requests -> RequestType] /\ \A s \in Requests : LoadedOK(req'[s])
    <3>1. req' \in [Requests -> RequestType] /\ Overtakes(r)
      BY <2>3 DEF Commits
    <3>2. ASSUME NEW s \in Requests, s # r
          PROVE  LoadedOK(req'[s])
      <4>1. req'[s] = [req[s] EXCEPT !.raced = req'[s].raced] /\ req[s] \in RequestType /\ LoadedOK(req[s])
        BY <3>1, <3>2 DEF Overtakes, TypeOK
      <4>2. /\ req'[s].pc = req[s].pc /\ req'[s].key = req[s].key /\ req'[s].claim = req[s].claim
            /\ req'[s].target = req[s].target /\ req'[s].dec = req[s].dec
        BY <4>1 DEF RequestType
      <4> QED
        BY <4>1, <4>2 DEF LoadedOK
    <3> QED
      BY <3>1, <3>2, BlankTypes DEF Overtakes
  <2> QED
    BY <2>1, <2>2, <2>3, NextSteps DEF Passes, Enters, Switches
<1> QED
  BY <1>1, <1>2, <1>3 DEF TypeOK, Blank

\* Every state is typed: requests carry a provider's word about a person the
\* provider knows, and flows the provider that they were started with.
THEOREM TypeCorrect == Spec => []TypeOK
BY InitTyped, TypeStep, PTL DEF Spec

-----------------------------------------------------------------------------
(***************************************************************************)
(* A state buys one sign-in.                                               *)
(***************************************************************************)

\* A flow's state is with the flow, with one request, or spent.
FlowInv ==
    /\ \A f \in Flows :
          /\ flow[f].takers <= 1 /\ (flow[f].pkce => flow[f].grants <= 1)
          /\ flow[f].pkce /\ flow[f].user = None => flow[f].grants = 0
          /\ flow[f].state => flow[f].takers = 0
    /\ \A r \in Requests, f \in Flows :
          /\ req[r].f = f => flow[f].prov # None
          /\ req[r].f = f /\ req[r].took => ~flow[f].state /\ flow[f].takers = 0
    /\ \A r, s \in Requests :
          req[r].f # None /\ req[r].f = req[s].f /\ req[r].took /\ req[s].took => r = s

\* What a step of a request keeps of the flow it came with.
SameWay(q, p) == q.f = p.f /\ q.took = p.took

LEMMA FlowInvKept ==
    ASSUME TypeOK, FlowInv, FlowsKept,
           \A r \in Requests : SameWay(req'[r], req[r]) \/ (req'[r].f = None /\ ~req'[r].took)
    PROVE  FlowInv'
BY NoneApart DEF FlowInv, FlowsKept, SameFlow, SameWay

LEMMA FlowInvArrives ==
    ASSUME TypeOK, FlowInv, FlowsKept, NEW r \in Requests, NEW q, Arrives(r, q)
    PROVE  FlowInv'
<1>1. req'[r] = q /\ (\A s \in Requests : s # r => req'[s] = req[s]) /\ q.f \in Flows \cup {None}
  BY DEF Arrives, TypeOK, RequestType
<1>2. /\ q.f # None => flow[q.f].prov # None
      /\ q.took => q.f \in Flows /\ flow[q.f].state /\ ~flow'[q.f].state
  BY DEF Arrives
<1>3. \A f \in Flows : /\ flow'[f].prov = flow[f].prov /\ flow'[f].pkce = flow[f].pkce
                       /\ flow'[f].user = flow[f].user /\ flow'[f].grants = flow[f].grants
                       /\ flow'[f].takers = flow[f].takers
                       /\ flow'[f].state => flow[f].state
  BY DEF FlowsKept, SameFlow
<1>4. \A s \in Requests : q.took /\ req[s].f = q.f => ~req[s].took
  BY <1>2 DEF FlowInv
<1> QED
  BY <1>1, <1>2, <1>3, <1>4, NoneApart DEF FlowInv

LEMMA FlowInvStarts ==
    ASSUME TypeOK, FlowInv, NEW f \in Flows, Starts(f), UNCHANGED req
    PROVE  FlowInv'
<1>1. flow[f].prov = None
  BY DEF Starts, NoFlow
<1>2. \A r \in Requests : req[r].f # f
  BY <1>1 DEF FlowInv
<1>3. /\ \A g \in Flows : g # f => flow'[g] = flow[g]
      /\ flow'[f].prov # None /\ flow'[f].grants = 0 /\ flow'[f].takers = 0
  BY DEF Starts, TypeOK
<1> QED
  BY <1>2, <1>3 DEF FlowInv

LEMMA FlowInvCommits ==
    ASSUME TypeOK, FlowInv, NEW r \in Requests, Commits(r)
    PROVE  FlowInv'
<1>1. /\ req'[r].f = None /\ ~req'[r].took
      /\ \A s \in Requests : s # r => SameWay(req'[s], req[s])
  <2>1. ASSUME NEW s \in Requests, s # r
        PROVE  SameWay(req'[s], req[s])
    <3>1. req'[s] = [req[s] EXCEPT !.raced = req'[s].raced] /\ req[s] \in RequestType
      BY <2>1 DEF Commits, Overtakes, TypeOK
    <3> QED
      BY <3>1 DEF RequestType, SameWay
  <2> QED
    BY <2>1 DEF Commits, Overtakes, NoRequest
<1>2. CASE flow' = flow
  <2>1. FlowsKept
    BY <1>2 DEF FlowsKept, TypeOK, SameFlow
  <2> QED
    BY <1>1, <2>1, FlowInvKept
<1>3. ASSUME NEW f \in Flows, NEW u \in Users, FlowSpent(r, f, u)
      PROVE  FlowInv'
  <2>1. /\ f = req[r].f /\ flow[f] \in FlowType
        /\ flow[f].pkce => flow[f].user = None
        /\ flow'[f].grants = flow[f].grants + 1
        /\ flow'[f].takers = IF req[r].took THEN flow[f].takers + 1 ELSE flow[f].takers
        /\ flow'[f].user = IF flow[f].pkce THEN u ELSE flow[f].user
        /\ flow'[f].pkce = flow[f].pkce /\ flow'[f].state = flow[f].state /\ flow'[f].prov = flow[f].prov
    BY <1>3 DEF FlowSpent, TypeOK
  <2>2. \A g \in Flows : g # f => flow'[g] = flow[g]
    BY <1>3 DEF FlowSpent, TypeOK
  <2>3. flow[f].takers \in Nat /\ flow[f].grants \in Nat
    BY <2>1 DEF FlowType
  <2>4. /\ flow'[f].takers <= 1 /\ (flow'[f].pkce => flow'[f].grants <= 1)
        /\ flow'[f].pkce /\ flow'[f].user = None => flow'[f].grants = 0
        /\ flow'[f].state => flow'[f].takers = 0
    BY <2>1, <2>3, NoneApart DEF FlowInv
  <2>5. ASSUME NEW s \in Requests, req'[s].f = f, req'[s].took
        PROVE  ~flow'[f].state /\ flow'[f].takers = 0
    <3>1. s # r /\ req[s].f = f /\ req[s].took
      BY <1>1, <2>5, NoneApart DEF SameWay
    <3>2. ~req[r].took
      BY <2>1, <3>1, NoneApart DEF FlowInv
    <3> QED
      BY <2>1, <3>1, <3>2 DEF FlowInv
  <2>6. /\ \A s \in Requests, g \in Flows :
              /\ req'[s].f = g => flow'[g].prov # None
              /\ req'[s].f = g /\ req'[s].took => ~flow'[g].state /\ flow'[g].takers = 0
    BY <1>1, <2>1, <2>2, <2>5, NoneApart DEF FlowInv, SameWay
  <2>7. \A s, t \in Requests :
          req'[s].f # None /\ req'[s].f = req'[t].f /\ req'[s].took /\ req'[t].took => s = t
    BY <1>1 DEF FlowInv, SameWay
  <2> QED
    BY <2>2, <2>4, <2>6, <2>7 DEF FlowInv
<1> QED
  BY <1>2, <1>3 DEF Commits

LEMMA FlowInvStep == ASSUME TypeOK, FlowInv, [Next]_vars PROVE FlowInv'
<1>1. ASSUME FlowsKept, \A r \in Requests : req'[r] = req[r]
      PROVE  FlowInv'
  BY <1>1, FlowInvKept DEF SameWay
<1>2. CASE \E f \in Flows : Starts(f) /\ UNCHANGED req
  BY <1>2, FlowInvStarts
<1>3. ASSUME FlowsKept, NEW r \in Requests, GivesUp(r)
      PROVE  FlowInv'
  <2>1. \A s \in Requests : req'[s] = IF s = r THEN NoRequest ELSE req[s]
    BY <1>3 DEF GivesUp, TypeOK
  <2> QED
    BY <1>3, <2>1, FlowInvKept DEF SameWay, NoRequest
<1>4. ASSUME FlowsKept, NEW r \in Requests, NEW q, Arrives(r, q)
      PROVE  FlowInv'
  BY <1>4, FlowInvArrives
<1>5. ASSUME FlowsKept, NEW r \in Requests, NEW d, Decides(r, d)
      PROVE  FlowInv'
  <2> DEFINE q == [req[r] EXCEPT !.pc = "decided", !.dec = d]
  <2>1. SameWay(q, req[r])
    BY DEF SameWay, TypeOK, RequestType
  <2>2. req' = [req EXCEPT ![r] = q]
    BY <1>5 DEF Decides
  <2> HIDE DEF q
  <2>3. \A s \in Requests : req'[s] = IF s = r THEN q ELSE req[s]
    BY <2>2 DEF TypeOK
  <2> QED
    BY <1>5, <2>1, <2>3, FlowInvKept DEF SameWay
<1>6. CASE \E r \in Requests : Commits(r)
  BY <1>6, FlowInvCommits
<1>7. CASE Enters
  <2>1. FlowsKept /\ req' = req
    BY <1>7 DEF Enters, FlowsKept, TypeOK, SameFlow
  <2> QED
    BY <1>1, <2>1
<1> QED
  BY <1>1, <1>2, <1>3, <1>4, <1>5, <1>6, <1>7, NextSteps DEF Passes, Switches

LEMMA InitFlow == ASSUME Init PROVE FlowInv
BY NoneApart DEF Init, FlowInv, NoFlow, NoRequest

\* A state buys at most one sign-in when it carries a code challenge, and at
\* most one of those that took the provider's verifier (claimOAuthFlowState,
\* takeOAuthClientState), whatever the callbacks and the administrator do.
THEOREM StatesAreSpentOnce == Spec => []OneStateOneSignIn
<1>1. FlowInv => OneStateOneSignIn
  BY DEF FlowInv, OneStateOneSignIn
<1> QED
  BY <1>1, TypeCorrect, FlowInvStep, InitFlow, PTL DEF Spec

-----------------------------------------------------------------------------
(***************************************************************************)
(* What a step may do to one request and to one account.                   *)
(***************************************************************************)

DecidedTo(q, how) == q.pc = "decided" /\ q.dec.do \in how

Carries(r) ==
    /\ req'[r].pc = req[r].pc /\ req'[r].key = req[r].key /\ req'[r].claim = req[r].claim
    /\ req'[r].dec = req[r].dec /\ (req[r].raced => req'[r].raced)
    /\ \A k \in Keys :
          req[r].pc = "decided" /\ ident[k].user = req[r].dec.u /\ ident'[k].user # ident[k].user
              => req'[r].raced \/ Enters
Comes(r) ==
    /\ req'[r].pc \in {"idle", "loaded", "unlinking"}
    /\ req'[r].pc = "loaded" => req'[r].claim = said[req'[r].key[1]][req'[r].key[2]] /\ said' = said
Newly(r) ==
    /\ req[r].pc \in {"loaded", "unlinking"} /\ req'[r].pc = "decided"
    /\ req'[r].key = req[r].key /\ req'[r].claim = req[r].claim
    /\ req'[r].dec.do # "refuse" /\ RequestDecided(req[r], req'[r].dec)
    /\ Quiet /\ StaysSaid

LEMMA RequestSteps ==
    ASSUME TypeOK, [Next]_vars, NEW r \in Requests
    PROVE  Carries(r) \/ Comes(r) \/ Newly(r)
<1>1. ASSUME req'[r] = req[r], ident' = ident \/ Enters
      PROVE  Carries(r)
  BY <1>1 DEF Carries
<1>2. ASSUME NEW s \in Requests, GivesUp(s), ident' = ident
      PROVE  Carries(r) \/ Comes(r)
  <2>1. req'[r] = IF r = s THEN NoRequest ELSE req[r]
    BY <1>2 DEF GivesUp, TypeOK
  <2> QED
    BY <1>1, <1>2, <2>1 DEF Comes, NoRequest
<1>3. ASSUME NEW s \in Requests, NEW q, Arrives(s, q), ident' = ident, said' = said
      PROVE  Carries(r) \/ Comes(r)
  <2>1. req'[r] = IF r = s THEN q ELSE req[r]
    BY <1>3 DEF Arrives, TypeOK
  <2>2. q.pc \in {"loaded", "unlinking"} /\ (q.pc = "loaded" => q.claim = said[q.key[1]][q.key[2]])
    BY <1>3 DEF Arrives
  <2> QED
    BY <1>1, <1>3, <2>1, <2>2 DEF Comes
<1>4. ASSUME NEW s \in Requests, NEW d, Decides(s, d), Quiet, StaysSaid
      PROVE  Carries(r) \/ Newly(r)
  <2> DEFINE q == [req[s] EXCEPT !.pc = "decided", !.dec = d]
  <2>1. q.pc = "decided" /\ q.dec = d /\ q.key = req[s].key /\ q.claim = req[s].claim
    BY DEF TypeOK, RequestType
  <2>2. req' = [req EXCEPT ![s] = q]
    BY <1>4 DEF Decides
  <2> HIDE DEF q
  <2>3. req'[r] = IF r = s THEN q ELSE req[r]
    BY <2>2 DEF TypeOK
  <2>4. ident' = ident
    BY <1>4 DEF Quiet
  <2> QED
    BY <1>1, <1>4, <2>1, <2>3, <2>4 DEF Decides, Newly
<1>5. ASSUME NEW s \in Requests, Commits(s)
      PROVE  Carries(r) \/ Comes(r)
  <2>1. Overtakes(s)
    BY <1>5 DEF Commits
  <2>2. CASE r = s
    BY <2>1, <2>2 DEF Overtakes, Comes, NoRequest
  <2>3. CASE r # s
    <3>1. req'[r] = [req[r] EXCEPT !.raced = req'[r].raced] /\ req[r] \in RequestType
      BY <2>1, <2>3 DEF Overtakes, TypeOK
    <3>2. /\ req'[r].pc = req[r].pc /\ req'[r].key = req[r].key /\ req'[r].claim = req[r].claim
          /\ req'[r].dec = req[r].dec
      BY <3>1 DEF RequestType
    <3> QED
      BY <2>1, <2>3, <3>2 DEF Overtakes, Carries
  <2> QED
    BY <2>2, <2>3
<1>6. CASE Passes
  <2>1. ident' = ident /\ Quiet
    BY <1>6 DEF Passes, Quiet
  <2> QED
    BY <1>1, <1>2, <1>3, <1>4, <1>6, <2>1 DEF Passes, Switches, StaysSaid
<1>7. CASE Enters
  BY <1>1, <1>7 DEF Enters
<1> QED
  BY <1>5, <1>6, <1>7, NextSteps

AccountSteps == Quiet \/ Enters \/ \E r \in Requests : Commits(r)

LEMMA AccountsSteps == ASSUME TypeOK, [Next]_vars PROVE AccountSteps /\ conf' = conf
BY NextSteps DEF AccountSteps, Passes, Enters, Commits, Switches, StaysSaid

\* Nobody has linked anything to the account on purpose.
Plain(a) == a.linked = {} /\ ~a.named

\* An account that is there stays there, of the kind that it is, and what is
\* linked on purpose stays counted.
StillStands(b, a) ==
    /\ b.there /\ b.sso = a.sso
    /\ a.deleted => b.deleted
    /\ Plain(b) => Plain(a)

LEMMA StandsStill ==
    ASSUME TypeOK, AccountSteps, NEW u \in Users, user[u].there
    PROVE  StillStands(user'[u], user[u])
<1>0. ASSUME SameStanding(user'[u], user[u])
      PROVE  StillStands(user'[u], user[u])
  BY <1>0 DEF SameStanding, StillStands, Plain
<1>1. CASE Quiet
  BY <1>0, <1>1 DEF Quiet, SameButSessions
<1>2. CASE Enters
  BY <1>2 DEF StillStands, Plain, Enters, AccountStep, SignsUp, ComesAnonymously, Begins, Confirms, Ends, Alone,
              SameButSessions, SameStanding
<1>3. ASSUME NEW r \in Requests, Commits(r)
      PROVE  StillStands(user'[u], user[u])
  <2>0. ASSUME NEW v \in Users, Alone(v), v # u
        PROVE  StillStands(user'[u], user[u])
    BY <1>0, <2>0 DEF Alone, SameButSessions
  <2> DEFINE q == req[r]
  <2>1. ASSUME ExistsStep(q.dec.u, q.key, q.claim), q.dec.u \in Users
        PROVE  StillStands(user'[u], user[u])
    BY <1>0, <2>0, <2>1 DEF ExistsStep
  <2>2. ASSUME LinkStep(q.dec.u, q.key, q.claim), q.dec.u \in Users
        PROVE  StillStands(user'[u], user[u])
    BY <2>0, <2>2 DEF LinkStep, StillStands, Plain
  <2>3. ASSUME NEW v \in Users, CreateStep(v, q.key, q.claim, q.dec.mail)
        PROVE  StillStands(user'[u], user[u])
    BY <2>0, <2>3 DEF CreateStep
  <2>4. ASSUME AttachStep(q.dec.u, q.key, q.claim), q.dec.u \in Users
        PROVE  StillStands(user'[u], user[u])
    BY <2>0, <2>4 DEF AttachStep, StillStands, Plain
  <2>5. ASSUME UnlinkStep(q.dec.u, q.key), q.dec.u \in Users
        PROVE  StillStands(user'[u], user[u])
    BY <2>0, <2>5 DEF UnlinkStep, StillStands, Plain
  <2>6. CommitStep(q) /\ (q.dec.do # "create" => q.dec.u \in Users)
    BY <1>3 DEF Commits, TypeOK, LoadedOK
  <2> HIDE DEF q
  <2> QED
    BY <2>1, <2>2, <2>3, <2>4, <2>5, <2>6 DEF CommitStep
<1> QED
  BY <1>1, <1>2, <1>3 DEF AccountSteps

-----------------------------------------------------------------------------
(***************************************************************************)
(* Owners, and the last identity of an account.                            *)
(***************************************************************************)

OldAccount == {"exists", "link", "attach", "unlink", "promote"}

\* Owners exist, an account's e-mail identity is its own.
OwnersInv ==
    /\ \A k \in Keys, u \in Users : ident[k].user = u => user[u].there
    /\ \A r \in Requests : DecidedTo(req[r], OldAccount) => user[req[r].dec.u].there
    /\ \A u \in Users : ident[EmailKey(u)].user \in {u, None}

\* What an unlink or a sign-in decided on is there while nobody overtakes it.
KeepInv ==
    \A r \in Requests :
        LET u == req[r].dec.u
        IN  /\ DecidedTo(req[r], {"exists"}) /\ ~req[r].raced =>
                  user[u].deleted \/ ident[req[r].key].user = u
            /\ DecidedTo(req[r], {"unlink", "promote"}) /\ ~req[r].raced =>
                  user[u].deleted \/ \E j \in Keys : j # req[r].key /\ ident[j].user = u

LEMMA DecidedTypes ==
    ASSUME TypeOK, NEW r \in Requests, req[r].pc = "decided"
    PROVE  /\ req[r].key \in Keys /\ req[r].dec \in DecisionType
           /\ req[r].dec.do # "create" => req[r].dec.u \in Users
           /\ req[r].dec.do \in {"exists", "link", "create", "attach"} =>
                 req[r].key \in ProviderKeys /\ req[r].claim \in ClaimType
           /\ req[r].dec.do \in {"exists", "link", "create", "attach", "unlink", "promote"}
BY DEF TypeOK, LoadedOK, RequestType, DecisionType

Gains(k, u) == user'[u].there /\ (k = EmailKey(u) \/ k \in ProviderKeys)

LEMMA IdentitiesMove ==
    ASSUME TypeOK, OwnersInv, AccountSteps, NEW k \in Keys, NEW u \in Users, ident'[k].user = u
    PROVE  ident[k].user = u \/ Gains(k, u)
<1>0. None # u
  BY NoneApart
<1>1. CASE Quiet
  BY <1>1 DEF Quiet
<1>2. CASE Enters
  BY <1>0, <1>2 DEF Enters, AccountStep, SignsUp, ComesAnonymously, Begins, Confirms, Ends, NoIdentity, Gains,
                    SameStanding
<1>3. ASSUME NEW r \in Requests, Commits(r)
      PROVE  ident[k].user = u \/ Gains(k, u)
  <2> DEFINE q == req[r]
  <2>1. CommitStep(q) /\ q.pc = "decided"
    BY <1>3 DEF Commits
  <2>2. /\ q.key \in Keys /\ (q.dec.do # "create" => q.dec.u \in Users)
        /\ q.dec.do \in {"exists", "link", "create", "attach"} => q.key \in ProviderKeys
    BY <2>1, DecidedTypes
  <2>3. q.dec.do \in OldAccount => user[q.dec.u].there
    BY <2>1 DEF OwnersInv, DecidedTo
  <2>4. CASE q.dec.do = "exists"
    BY <1>0, <2>1, <2>4 DEF CommitStep, ExistsStep, NoIdentity, IdentityRow
  <2>5. CASE q.dec.do = "link"
    BY <1>0, <2>1, <2>2, <2>3, <2>5
       DEF CommitStep, LinkStep, NewIdentity, NoIdentity, IdentityRow, OldAccount, Gains
  <2>6. CASE q.dec.do = "create"
    <3>1. PICK v \in Users : CreateStep(v, q.key, q.claim, q.dec.mail)
      BY <2>1, <2>6 DEF CommitStep
    <3>2. user'[v].there /\ NewIdentity(v, q.key, q.claim) /\ q.key \in ProviderKeys
      BY <2>2, <2>6, <3>1 DEF CreateStep
    <3> QED
      BY <1>0, <3>2 DEF NewIdentity, NoIdentity, IdentityRow, Gains
  <2>7. CASE q.dec.do = "attach"
    BY <1>0, <2>1, <2>2, <2>3, <2>7
       DEF CommitStep, AttachStep, NoIdentity, IdentityRow, OldAccount, Gains, TypeOK, IdentType
  <2>8. CASE q.dec.do \in {"unlink", "promote"}
    <3>1. UnlinkStep(q.dec.u, q.key)
      BY <2>1, <2>8 DEF CommitStep
    <3>2. ident'[k] = NoIdentity \/ ident'[k] = ident[k]
      BY <3>1 DEF UnlinkStep
    <3> QED
      BY <1>0, <3>2 DEF NoIdentity
  <2> QED
    BY <2>1, <2>4, <2>5, <2>6, <2>7, <2>8, DecidedTypes
<1> QED
  BY <1>1, <1>2, <1>3 DEF AccountSteps

LEMMA InitOwners == ASSUME Init PROVE OwnersInv /\ KeepInv
<1>1. \A r \in Requests : req[r].pc = "idle"
  BY DEF Init, NoRequest
<1>2. CASE user = [u \in Users |-> NoUser] /\ ident = [k \in Keys |-> NoIdentity]
  BY <1>1, <1>2, NoneApart, KeyShapes DEF OwnersInv, KeepInv, NoIdentity, DecidedTo
<1>3. ASSUME NEW u \in Users, NEW m \in Mails,
             user = [v \in Users |-> IF v = u THEN Registered(m) ELSE NoUser],
             ident = [k \in Keys |-> IF k = EmailKey(u) THEN [user |-> u, mail |-> m, verified |-> TRUE]
                                     ELSE NoIdentity]
      PROVE  OwnersInv /\ KeepInv
  <2>1. Registered(m).there
    BY DEF Registered, InsertUser, NoUser
  <2>2. \A v \in Users : EmailKey(v) = EmailKey(u) => v = u
    BY DEF EmailKey
  <2> QED
    BY <1>1, <1>3, <2>1, <2>2, NoneApart, KeyShapes DEF OwnersInv, KeepInv, NoIdentity, DecidedTo
<1> QED
  BY <1>2, <1>3 DEF Init

LEMMA OwnersStep == ASSUME TypeOK, OwnersInv, [Next]_vars PROVE OwnersInv'
<1>0. AccountSteps
  BY AccountsSteps
<1>1. \A u \in Users : user[u].there => user'[u].there
  BY <1>0, StandsStill DEF StillStands
<1>2. \A k \in Keys, u \in Users : ident'[k].user = u => user'[u].there
  BY <1>0, <1>1, IdentitiesMove DEF OwnersInv, Gains
<1>3. ASSUME NEW r \in Requests, DecidedTo(req'[r], OldAccount)
      PROVE  user'[req'[r].dec.u].there
  <2>1. CASE Carries(r)
    <3>1. DecidedTo(req[r], OldAccount) /\ req'[r].dec = req[r].dec
      BY <1>3, <2>1 DEF Carries, DecidedTo
    <3>2. req[r].dec.u \in Users
      BY <3>1, DecidedTypes DEF DecidedTo, OldAccount
    <3> QED
      BY <1>1, <3>1, <3>2 DEF OwnersInv
  <2>2. CASE Comes(r)
    BY <1>3, <2>2 DEF Comes, DecidedTo
  <2>3. CASE Newly(r)
    <3> DEFINE d == req'[r].dec
    <3> DEFINE q == req[r]
    <3>1. RequestDecided(q, d) /\ q.pc \in {"loaded", "unlinking"} /\ d.do \in OldAccount
          /\ d.do # "refuse"
      BY <1>3, <2>3 DEF Newly, DecidedTo
    <3>2. q.key \in ProviderKeys => q.key \in Keys
      BY KeyShapes
    <3> HIDE DEF d, q
    <3>3. d.u \in Users /\ user[d.u].there
      <4>1. CASE q.pc = "loaded"
        BY <3>1, <3>2, <4>1 DEF RequestDecided, SignInDecided, LinkDecided, OldAccount, OwnersInv
      <4>2. CASE q.pc = "unlinking"
        BY <3>1, <4>2 DEF RequestDecided, UnlinkDecided, OwnersInv
      <4> QED
        BY <3>1, <4>1, <4>2
    <3> QED
      BY <1>1, <3>3 DEF d
  <2> QED
    BY <2>1, <2>2, <2>3, RequestSteps
<1>4. ASSUME NEW u \in Users
      PROVE  ident'[EmailKey(u)].user \in {u, None}
  <2>1. EmailKey(u) \in Keys /\ EmailKey(u) \notin ProviderKeys
    BY KeyShapes
  <2>2. ident'[EmailKey(u)].user \in Users \cup {None}
    BY <2>1, TypeStep DEF TypeOK, IdentType, IdentityType
  <2>3. ASSUME NEW v \in Users, ident'[EmailKey(u)].user = v
        PROVE  v = u
    <3>1. ident[EmailKey(u)].user = v \/ Gains(EmailKey(u), v)
      BY <1>0, <2>1, <2>3, IdentitiesMove
    <3> QED
      BY <2>1, <3>1, NoneApart DEF Gains, OwnersInv, EmailKey
  <2> QED
    BY <2>2, <2>3
<1> QED
  BY <1>2, <1>3, <1>4 DEF OwnersInv

\* Whatever happens outside a request takes identities only with the account.
LEMMA EntersKeeps ==
    ASSUME TypeOK, OwnersInv, Enters, NEW k \in Keys, NEW u \in Users, ident[k].user = u, ident'[k].user # u
    PROVE  user'[u].deleted
<1>1. PICK v \in Users : AccountStep(v)
  BY DEF Enters
<1>2. user[u].there
  BY DEF OwnersInv
<1>3. k = EmailKey(v) => u = v
  BY NoneApart DEF OwnersInv
<1> QED
  BY <1>1, <1>2, <1>3 DEF AccountStep, SignsUp, ComesAnonymously, Begins, Confirms, Ends

LEMMA KeepStep == ASSUME TypeOK, OwnersInv, KeepInv, [Next]_vars PROVE KeepInv'
<1>0. AccountSteps
  BY AccountsSteps
<1> SUFFICES ASSUME NEW r \in Requests
             PROVE  LET u == req'[r].dec.u
                    IN  /\ DecidedTo(req'[r], {"exists"}) /\ ~req'[r].raced =>
                              user'[u].deleted \/ ident'[req'[r].key].user = u
                        /\ DecidedTo(req'[r], {"unlink", "promote"}) /\ ~req'[r].raced =>
                              user'[u].deleted \/ \E j \in Keys : j # req'[r].key /\ ident'[j].user = u
  BY DEF KeepInv
<1> DEFINE u == req'[r].dec.u
<1> DEFINE k == req'[r].key
<1>1. CASE Carries(r) /\ DecidedTo(req'[r], {"exists", "unlink", "promote"}) /\ ~req'[r].raced
  <2>1. /\ req[r].pc = "decided" /\ req[r].dec = req'[r].dec /\ req[r].key = k /\ ~req[r].raced
        /\ req[r].dec.u = u
    BY <1>1 DEF Carries, DecidedTo
  <2>2. u \in Users /\ k \in Keys
    BY <1>1, <2>1, DecidedTypes DEF DecidedTo
  <2>3. user[u].there
    BY <1>1, <2>1 DEF OwnersInv, DecidedTo, OldAccount
  <2>4. user[u].deleted => user'[u].deleted
    BY <1>0, <2>2, <2>3, StandsStill DEF StillStands
  <2>5. ASSUME NEW j \in Keys, ident[j].user = u
        PROVE  user'[u].deleted \/ ident'[j].user = u
    <3>1. ident'[j].user # u => Enters
      BY <1>1, <2>1, <2>5 DEF Carries
    <3> QED
      BY <2>2, <2>5, <3>1, EntersKeeps
  <2>6. /\ DecidedTo(req[r], {"exists"}) => user[u].deleted \/ ident[k].user = u
        /\ DecidedTo(req[r], {"unlink", "promote"}) =>
              user[u].deleted \/ \E j \in Keys : j # k /\ ident[j].user = u
    BY <2>1 DEF KeepInv
  <2>7. \A how : DecidedTo(req[r], how) <=> DecidedTo(req'[r], how)
    BY <1>1 DEF Carries, DecidedTo
  <2> HIDE DEF u, k
  <2>8. /\ DecidedTo(req'[r], {"exists"}) => user'[u].deleted \/ ident'[k].user = u
        /\ DecidedTo(req'[r], {"unlink", "promote"}) =>
              user'[u].deleted \/ \E j \in Keys : j # k /\ ident'[j].user = u
    BY <2>2, <2>4, <2>5, <2>6, <2>7
  <2> QED
    BY <2>8 DEF u, k
<1>2. CASE Comes(r)
  BY <1>2 DEF Comes, DecidedTo
<1>3. CASE Newly(r)
  <2> DEFINE d == req'[r].dec
  <2> DEFINE q == req[r]
  <2>1. RequestDecided(q, d) /\ q.pc \in {"loaded", "unlinking"} /\ d.do # "refuse" /\ k = q.key
        /\ ident' = ident
    BY <1>3 DEF Newly, Quiet
  <2>2. DecidedTo(req'[r], {"exists"}) => d.do = "exists"
    BY DEF DecidedTo
  <2>3. DecidedTo(req'[r], {"unlink", "promote"}) => d.do \in {"unlink", "promote"}
    BY DEF DecidedTo
  <2>4. u = d.u
    OBVIOUS
  <2> HIDE DEF d, q, k, u
  <2>5. d.do = "exists" => ident[k].user = u
    BY <2>1, <2>4 DEF RequestDecided, SignInDecided, LinkDecided, UnlinkDecided
  <2>6. d.do \in {"unlink", "promote"} => \E j \in Keys : j # k /\ ident[j].user = u
    BY <2>1, <2>4 DEF RequestDecided, SignInDecided, LinkDecided, UnlinkDecided
  <2> QED
    BY <2>1, <2>2, <2>3, <2>5, <2>6 DEF u, k
<1>4. CASE Carries(r) /\ ~(DecidedTo(req'[r], {"exists", "unlink", "promote"}) /\ ~req'[r].raced)
  BY <1>4 DEF DecidedTo
<1> QED
  BY <1>1, <1>2, <1>3, <1>4, RequestSteps

\* The relation of LastIdentityStays.
LastStays ==
    \A u \in Users :
        user[u].there /\ ~user'[u].deleted /\ IdentitiesOf(ident, u) # {} /\ IdentitiesOf(ident', u) = {}
            => \E r \in Requests : req[r].pc = "decided" /\ req'[r].pc = "idle" /\ req[r].raced

LEMMA LastStep == ASSUME TypeOK, OwnersInv, KeepInv, [Next]_vars PROVE LastStays
<1> SUFFICES ASSUME NEW u \in Users, user[u].there, ~user'[u].deleted, NEW i \in Keys, ident[i].user = u,
                    \A j \in Keys : ident'[j].user # u
             PROVE  \E r \in Requests : req[r].pc = "decided" /\ req'[r].pc = "idle" /\ req[r].raced
  BY DEF LastStays, IdentitiesOf
<1>0. AccountSteps
  BY AccountsSteps
<1>1. ~user[u].deleted
  BY <1>0, StandsStill DEF StillStands
<1>2. ~Quiet
  BY DEF Quiet
<1>3. ~Enters
  BY EntersKeeps
<1>4. PICK r \in Requests : Commits(r)
  BY <1>0, <1>2, <1>3 DEF AccountSteps
<1> DEFINE q == req[r]
<1> DEFINE k == req[r].key
<1> DEFINE v == req[r].dec.u
<1>5. q.pc = "decided" /\ req'[r].pc = "idle" /\ CommitStep(q)
  BY <1>4 DEF Commits, Overtakes, NoRequest
<1>6. /\ k \in Keys /\ (q.dec.do # "create" => v \in Users)
      /\ q.dec.do \in {"exists", "link", "create", "attach", "unlink", "promote"}
  BY <1>5, DecidedTypes
<1>7. ident[k].user = u => FindLiveIdentity(k)
  BY <1>1, NoneApart DEF FindLiveIdentity
<1>8. SUFFICES ASSUME ~q.raced PROVE FALSE
  BY <1>5
<1>9. CASE q.dec.do = "exists"
  <2>1. ExistsStep(v, k, q.claim)
    BY <1>5, <1>9 DEF CommitStep
  <2>2. u = v
    BY <2>1, NoneApart DEF ExistsStep
  <2>3. ident[k].user = v
    BY <1>1, <1>5, <1>8, <1>9, <2>2 DEF KeepInv, DecidedTo
  <2> QED
    BY <1>6, <2>1, <2>2, <2>3 DEF ExistsStep, IdentityRow
<1>10. CASE q.dec.do = "link"
  <2>1. NewIdentity(v, k, q.claim)
    BY <1>5, <1>10 DEF CommitStep, LinkStep
  <2> QED
    BY <1>6, <1>7, <2>1 DEF NewIdentity, IdentityRow
<1>11. CASE q.dec.do = "create"
  <2>1. PICK w \in Users : NewIdentity(w, k, q.claim)
    BY <1>5, <1>11 DEF CommitStep, CreateStep
  <2> QED
    BY <1>6, <1>7, <2>1 DEF NewIdentity, IdentityRow
<1>12. CASE q.dec.do = "attach"
  <2>1. ~FindLiveIdentity(k) /\ ident' = [ident EXCEPT ![k] = IdentityRow(v, q.claim)]
    BY <1>5, <1>12 DEF CommitStep, AttachStep
  <2> QED
    BY <1>6, <1>7, <2>1 DEF TypeOK, IdentType
<1>13. CASE q.dec.do \in {"unlink", "promote"}
  <2>1. UnlinkStep(v, k)
    BY <1>5, <1>13 DEF CommitStep
  <2>2. u = v
    BY <2>1 DEF UnlinkStep
  <2>3. PICK j \in Keys : j # k /\ ident[j].user = u
    BY <1>1, <1>5, <1>8, <1>13, <2>2 DEF KeepInv, DecidedTo
  <2> QED
    BY <2>1, <2>3 DEF UnlinkStep
<1> QED
  BY <1>6, <1>9, <1>10, <1>11, <1>12, <1>13

\* An account keeps an identity to sign in with (deleteIdentity counts them):
\* only a request that decided before another's removal committed takes the
\* last one.
THEOREM LastIdentityIsKept == Spec => LastIdentityStays
<1>1. Spec => [](TypeOK /\ OwnersInv /\ KeepInv)
  BY InitTyped, TypeStep, InitOwners, OwnersStep, KeepStep, PTL DEF Spec
<1>2. ASSUME TypeOK, OwnersInv, KeepInv, [Next]_vars
      PROVE  [LastStays]_vars
  BY <1>2, LastStep
<1> QED
  BY <1>1, <1>2, PTL DEF Spec, LastIdentityStays, LastStays

-----------------------------------------------------------------------------
(***************************************************************************)
(* Single sign-on stays apart.                                             *)
(***************************************************************************)

SignInWays == {"exists", "link", "create", "attach"}
SignsIn(q) == q.pc = "loaded" \/ DecidedTo(q, SignInWays)

\* A provider vouches for its person's own mailbox, SAML for whatever it says.
VouchedFor(k, c) ==
    /\ k[1] \in External /\ c.verified => OwnerOf[c.mail] = k[2]
    /\ k[1] \in SSO => c.verified

WordInv ==
    /\ \A p \in Providers, a \in Persons : VouchedFor(<<p, a>>, said[p][a])
    /\ \A r \in Requests : SignsIn(req[r]) => VouchedFor(req[r].key, req[r].claim)
    /\ \A k \in Keys : ident[k].user # None /\ k[1] \in SSO => ident[k].mail # None /\ ident[k].verified

LEMMA ClaimsVouched ==
    ASSUME NEW p \in Providers, NEW a \in Persons, NEW c \in Claims(p, a)
    PROVE  VouchedFor(<<p, a>>, c)
<1>1. PICK m \in Mails : c = [mail |-> m, verified |-> OwnerOf[m] = a \/ p \in SSO]
  BY DEF Claims
<1>2. c.mail = m /\ (c.verified <=> OwnerOf[m] = a \/ p \in SSO)
  BY <1>1
<1>3. p \in External => p \notin SSO
  BY IdentityAssumption
<1> QED
  BY <1>2, <1>3 DEF VouchedFor

LEMMA InitWord == ASSUME Init PROVE WordInv
<1>1. \A p \in Providers, a \in Persons : said[p][a] \in Claims(p, a)
  BY DEF Init
<1>2. \A r \in Requests : ~SignsIn(req[r])
  BY DEF Init, NoRequest, SignsIn, DecidedTo
<1>3. \A k \in Keys : k[1] \in SSO => ident[k].user = None
  <2>1. \A u \in Users : EmailKey(u)[1] \notin SSO
    BY IdentityAssumption DEF EmailKey, Providers
  <2> QED
    BY <2>1 DEF Init, NoIdentity
<1> QED
  BY <1>1, <1>2, <1>3, ClaimsVouched DEF WordInv

\* An identity's row is as it was, or states what a request was told, or is
\* the e-mail identity.
LEMMA RowsMove ==
    ASSUME TypeOK, AccountSteps, NEW k \in ProviderKeys, ident'[k].user # None
    PROVE  \/ ident'[k] = ident[k]
           \/ \E r \in Requests :
                 /\ SignsIn(req[r]) /\ req[r].key = k /\ req[r].claim \in ClaimType
                 /\ ident'[k].mail = req[r].claim.mail /\ ident'[k].verified = req[r].claim.verified
<1>0. k \in Keys /\ \A u \in Users : EmailKey(u) # k
  BY KeyShapes
<1>1. CASE Quiet
  BY <1>1 DEF Quiet
<1>2. CASE Enters
  BY <1>0, <1>2 DEF Enters, AccountStep, SignsUp, ComesAnonymously, Confirms, Ends, NoIdentity
<1>3. ASSUME NEW r \in Requests, Commits(r)
      PROVE  \/ ident'[k] = ident[k]
             \/ /\ SignsIn(req[r]) /\ req[r].key = k /\ req[r].claim \in ClaimType
                /\ ident'[k].mail = req[r].claim.mail /\ ident'[k].verified = req[r].claim.verified
  <2> DEFINE q == req[r]
  <2>1. CommitStep(q) /\ q.pc = "decided"
    BY <1>3 DEF Commits
  <2>2. q.dec.do \in SignInWays => SignsIn(q) /\ q.claim \in ClaimType /\ q.key \in Keys
    BY <2>1, DecidedTypes DEF SignsIn, DecidedTo, SignInWays
  <2>3. ident'[k] # NoIdentity
    BY DEF NoIdentity
  <2>4. \A u : IdentityRow(u, q.claim).mail = q.claim.mail /\ IdentityRow(u, q.claim).verified = q.claim.verified
    BY DEF IdentityRow
  <2>5. \/ ident'[k] = ident[k]
        \/ q.dec.do \in SignInWays /\ k = q.key /\ \E u : ident'[k] = IdentityRow(u, q.claim)
    <3>1. CASE q.dec.do = "exists"
      BY <1>0, <2>1, <2>3, <3>1 DEF CommitStep, ExistsStep, SignInWays
    <3>2. ASSUME NEW u, NewIdentity(u, q.key, q.claim), q.dec.do \in SignInWays
          PROVE  \/ ident'[k] = ident[k]
                 \/ q.dec.do \in SignInWays /\ k = q.key /\ \E v : ident'[k] = IdentityRow(v, q.claim)
      BY <1>0, <2>3, <3>2 DEF NewIdentity
    <3>3. CASE q.dec.do \in {"link", "create"}
      BY <2>1, <3>2, <3>3 DEF CommitStep, LinkStep, CreateStep, SignInWays
    <3>4. CASE q.dec.do = "attach"
      BY <1>0, <2>1, <3>4 DEF CommitStep, AttachStep, SignInWays, TypeOK, IdentType
    <3>5. CASE q.dec.do \in {"unlink", "promote"}
      <4>1. UnlinkStep(q.dec.u, q.key)
        BY <2>1, <3>5 DEF CommitStep
      <4> QED
        BY <1>0, <2>3, <4>1 DEF UnlinkStep
    <3> QED
      BY <2>1, <3>1, <3>3, <3>4, <3>5, DecidedTypes
  <2> QED
    BY <2>2, <2>4, <2>5
<1> QED
  BY <1>1, <1>2, <1>3 DEF AccountSteps

LEMMA WordStep == ASSUME TypeOK, WordInv, [Next]_vars PROVE WordInv'
<1>0. AccountSteps
  BY AccountsSteps
<1>1. \A p \in Providers, a \in Persons : VouchedFor(<<p, a>>, said'[p][a])
  <2>1. CASE said' = said
    BY <2>1 DEF WordInv
  <2>2. CASE Switches
    BY <2>2, ClaimsVouched DEF Switches, WordInv
  <2> QED
    BY <2>1, <2>2, NextSteps DEF Passes, Enters, Commits, StaysSaid
<1>2. ASSUME NEW r \in Requests, SignsIn(req'[r])
      PROVE  VouchedFor(req'[r].key, req'[r].claim)
  <2>1. CASE Carries(r)
    BY <1>2, <2>1 DEF Carries, WordInv, SignsIn, DecidedTo
  <2>2. CASE Comes(r)
    <3>1. req'[r].pc = "loaded" /\ req'[r].claim = said[req'[r].key[1]][req'[r].key[2]]
      BY <1>2, <2>2 DEF Comes, SignsIn, DecidedTo
    <3>2. req'[r].key \in ProviderKeys
      BY <3>1, TypeStep DEF TypeOK, LoadedOK
    <3>3. VouchedFor(<<req'[r].key[1], req'[r].key[2]>>, req'[r].claim)
      BY <3>1, <3>2, KeyShapes DEF WordInv
    <3> QED
      BY <3>2, <3>3, KeyShapes
  <2>3. CASE Newly(r)
    <3>1. req[r].pc = "loaded"
      <4>1. req'[r].dec.do \in SignInWays /\ RequestDecided(req[r], req'[r].dec)
            /\ req[r].pc \in {"loaded", "unlinking"}
        BY <1>2, <2>3 DEF Newly, SignsIn, DecidedTo
      <4> QED
        BY <4>1 DEF RequestDecided, UnlinkDecided, SignInWays
    <3> QED
      BY <2>3, <3>1 DEF Newly, WordInv, SignsIn
  <2> QED
    BY <2>1, <2>2, <2>3, RequestSteps
<1>3. ASSUME NEW k \in Keys, ident'[k].user # None, k[1] \in SSO
      PROVE  ident'[k].mail # None /\ ident'[k].verified
  <2>1. k \in ProviderKeys
    BY <1>3, KeyShapes, IdentityAssumption DEF Providers
  <2>2. CASE ident'[k] = ident[k]
    BY <1>3, <2>2 DEF WordInv
  <2>3. ASSUME NEW r \in Requests, SignsIn(req[r]), req[r].key = k, req[r].claim \in ClaimType,
               ident'[k].mail = req[r].claim.mail, ident'[k].verified = req[r].claim.verified
        PROVE  ident'[k].mail # None /\ ident'[k].verified
    BY <1>3, <2>3, NoneApart DEF WordInv, VouchedFor, ClaimType
  <2> QED
    BY <1>0, <1>3, <2>1, <2>2, <2>3, RowsMove
<1> QED
  BY <1>1, <1>2, <1>3 DEF WordInv

\* A sign-in that is let into an account by its address or its identity.
ByAddress(q) == DecidedTo(q, {"exists"}) \/ (DecidedTo(q, {"link"}) /\ q.key[1] \notin conf.bySubject)

ApartInv ==
    /\ SSOStaysApart
    /\ \A u \in Users : user[u].sso /\ Plain(user[u]) => user[u].ok
    /\ \A r \in Requests :
          LET q == req[r]
          IN  ByAddress(q) /\ Plain(user[q.dec.u]) => ((q.key[1] \in SSO) = user[q.dec.u].sso)

\* How an account comes by an identity.
FoundBy(r, k, u) ==
    LET q == req[r]
    IN  /\ Commits(r) /\ k = q.key /\ k \in ProviderKeys /\ q.claim \in ClaimType
        /\ ident'[k] = IdentityRow(u, q.claim)
        /\ \/ q.dec.do = "link" /\ q.dec.u = u /\ LinkStep(u, k, q.claim)
           \/ q.dec.do = "create" /\ CreateStep(u, k, q.claim, q.dec.mail)
           \/ q.dec.do = "attach" /\ q.dec.u = u /\ AttachStep(u, k, q.claim)

LEMMA IdentitiesFound ==
    ASSUME TypeOK, OwnersInv, AccountSteps, NEW k \in Keys, NEW u \in Users, ident'[k].user = u, ident[k].user # u
    PROVE  \/ k = EmailKey(u) /\ (Confirms(u) \/ \E m \in Mails : SignsUp(u, m))
           \/ \E r \in Requests : FoundBy(r, k, u)
<1>0. None # u
  BY NoneApart
<1>1. ~Quiet
  BY DEF Quiet
<1>2. CASE Enters
  <2>1. PICK v \in Users : AccountStep(v)
    BY <1>2 DEF Enters
  <2>2. k = EmailKey(v) /\ ident'[k].user = v /\ (Confirms(v) \/ \E m \in Mails : SignsUp(v, m))
    BY <1>0, <2>1 DEF AccountStep, SignsUp, ComesAnonymously, Confirms, Ends, NoIdentity
  <2> QED
    BY <2>2
<1>3. ASSUME NEW r \in Requests, Commits(r)
      PROVE  FoundBy(r, k, u)
  <2> DEFINE q == req[r]
  <2>1. CommitStep(q) /\ q.pc = "decided"
    BY <1>3 DEF Commits
  <2>2. q.dec.do \in SignInWays => q.key \in ProviderKeys /\ q.claim \in ClaimType /\ q.key \in Keys
    BY <2>1, DecidedTypes DEF SignInWays
  <2>3. \A i : i.user = u => i # NoIdentity
    BY <1>0 DEF NoIdentity
  <2>4. \A v : IdentityRow(v, q.claim).user = v
    BY DEF IdentityRow
  <2>5. ASSUME NEW v, NewIdentity(v, q.key, q.claim)
        PROVE  k = q.key /\ v = u /\ ident'[k] = IdentityRow(u, q.claim)
    BY <2>3, <2>4, <2>5 DEF NewIdentity
  <2>6. q.dec.do # "exists"
    <3>1. q.dec.do = "exists" => ExistsStep(q.dec.u, q.key, q.claim)
      BY <2>1 DEF CommitStep
    <3> QED
      BY <2>3, <2>4, <3>1 DEF ExistsStep
  <2>7. q.dec.do \notin {"unlink", "promote"}
    <3>1. q.dec.do \in {"unlink", "promote"} => UnlinkStep(q.dec.u, q.key)
      BY <2>1 DEF CommitStep
    <3> QED
      BY <2>3, <3>1 DEF UnlinkStep
  <2>8. CASE q.dec.do = "link"
    <3>1. LinkStep(q.dec.u, q.key, q.claim)
      BY <2>1, <2>8 DEF CommitStep
    <3>2. k = q.key /\ q.dec.u = u /\ ident'[k] = IdentityRow(u, q.claim)
      BY <2>5, <3>1 DEF LinkStep
    <3> QED
      BY <1>3, <2>2, <2>8, <3>1, <3>2 DEF FoundBy, SignInWays
  <2>9. CASE q.dec.do = "create"
    <3>1. PICK v \in Users : CreateStep(v, q.key, q.claim, q.dec.mail)
      BY <2>1, <2>9 DEF CommitStep
    <3>2. k = q.key /\ v = u /\ ident'[k] = IdentityRow(u, q.claim)
      BY <2>5, <3>1 DEF CreateStep
    <3> QED
      BY <1>3, <2>2, <2>9, <3>1, <3>2 DEF FoundBy, SignInWays
  <2>10. CASE q.dec.do = "attach"
    <3>1. AttachStep(q.dec.u, q.key, q.claim)
      BY <2>1, <2>10 DEF CommitStep
    <3>2. /\ ident'[q.key] = IdentityRow(q.dec.u, q.claim)
          /\ \A i \in Keys : i # q.key => ident'[i] = ident[i]
      BY <2>2, <2>10, <3>1 DEF AttachStep, TypeOK, IdentType, SignInWays
    <3>3. k = q.key /\ q.dec.u = u /\ ident'[k] = IdentityRow(u, q.claim)
      BY <2>4, <3>2
    <3> QED
      BY <1>3, <2>2, <2>10, <3>1, <3>3 DEF FoundBy, SignInWays
  <2> QED
    BY <2>1, <2>6, <2>7, <2>8, <2>9, <2>10, DecidedTypes
<1> QED
  BY <1>1, <1>2, <1>3 DEF AccountSteps

LEMMA InitApart == ASSUME Init PROVE ApartInv
<1>1. \A r \in Requests : ~ByAddress(req[r])
  BY DEF Init, NoRequest, ByAddress, DecidedTo
<1>2. \A m : ~Registered(m).sso
  BY DEF Registered, InsertUser, NoUser
<1>3. \A u \in Users : ~user[u].sso /\ user[u].sso \in BOOLEAN
  <2>1. \A u \in Users : ~user[u].sso
    BY <1>2 DEF Init, NoUser
  <2> QED
    BY <2>1, InitTyped DEF TypeOK, UserType, AccountType
<1>4. \A k \in Keys, u \in Users : ident[k].user = u => k[1] \notin SSO
  BY NoneApart, KeyShapes, IdentityAssumption DEF Init, NoIdentity, EmailKey, Providers
<1> QED
  BY <1>1, <1>3, <1>4 DEF ApartInv, SSOStaysApart

LEMMA ApartStep == ASSUME TypeOK, OwnersInv, WordInv, ApartInv, [Next]_vars PROVE ApartInv'
<1>0. AccountSteps /\ conf' = conf
  BY AccountsSteps
<1>1. \A u \in Users : user[u].there => StillStands(user'[u], user[u])
  BY <1>0, StandsStill
<1>2. \A u \in Users : EmailKey(u)[1] \notin SSO
  BY KeyShapes, IdentityAssumption DEF Providers
<1>3. ASSUME NEW u \in Users, NEW k \in Keys, ident'[k].user = u, Plain(user'[u])
      PROVE  (k[1] \in SSO) = user'[u].sso
  <2>1. CASE ident[k].user = u
    BY <1>1, <1>3, <2>1 DEF OwnersInv, StillStands, ApartInv, SSOStaysApart, Plain
  <2>2. CASE k = EmailKey(u) /\ Confirms(u)
    <3>1. ~user[u].sso /\ StillStands(user'[u], user[u])
      BY <1>1, <1>3, <2>2 DEF Confirms, ApartInv, StillStands
    <3> QED
      BY <1>2, <2>2, <3>1, TypeStep DEF StillStands, TypeOK, UserType, AccountType
  <2>3. ASSUME NEW m \in Mails, k = EmailKey(u), SignsUp(u, m)
        PROVE  (k[1] \in SSO) = user'[u].sso
    <3>1. user'[u].sso \in BOOLEAN /\ ~user'[u].sso
      BY <2>3, TypeStep DEF SignsUp, Begins, TypeOK, UserType, AccountType
    <3>2. k[1] \notin SSO
      BY <1>2, <2>3
    <3> QED
      BY <3>1, <3>2
  <2>4. ASSUME NEW r \in Requests, FoundBy(r, k, u)
        PROVE  (k[1] \in SSO) = user'[u].sso
    <3> DEFINE q == req[r]
    <3>1. q.pc = "decided" /\ k = q.key
      BY <2>4 DEF FoundBy, Commits
    <3>2. CASE q.dec.do = "link" /\ q.dec.u = u /\ LinkStep(u, k, q.claim)
      <4>1. user[u].there
        BY <3>1, <3>2 DEF OwnersInv, DecidedTo, OldAccount
      <4>2. k[1] \notin conf.bySubject /\ Plain(user[u]) /\ user'[u].sso = user[u].sso
        BY <1>1, <1>3, <3>2, <4>1 DEF LinkStep, StillStands, Plain
      <4>3. ByAddress(q)
        BY <3>1, <3>2, <4>2 DEF ByAddress, DecidedTo
      <4> QED
        BY <3>1, <3>2, <4>2, <4>3 DEF ApartInv
    <3>3. CASE CreateStep(u, k, q.claim, q.dec.mail)
      <4>1. user'[u].sso \in BOOLEAN
        BY TypeStep DEF TypeOK, UserType, AccountType
      <4> QED
        BY <3>3, <4>1 DEF CreateStep
    <3>4. ~AttachStep(u, k, q.claim)
      BY <1>3 DEF AttachStep, Plain
    <3> QED
      BY <2>4, <3>2, <3>3, <3>4 DEF FoundBy
  <2> QED
    BY <1>0, <1>3, <2>1, <2>2, <2>3, <2>4, IdentitiesFound
<1>4. ASSUME NEW u \in Users, user'[u].sso, Plain(user'[u])
      PROVE  user'[u].ok
  <2>1. user[u].there => user[u].sso /\ Plain(user[u]) /\ user[u].ok
    BY <1>1, <1>4 DEF StillStands, ApartInv
  <2>2. ASSUME SameButSessions(user'[u], user[u])
        PROVE  user'[u].ok
    BY <1>4, <2>2 DEF SameButSessions, SameStanding, ApartInv, Plain
  <2>3. CASE Enters
    <3>1. PICK v \in Users : AccountStep(v)
      BY <2>3 DEF Enters
    <3>2. CASE \E m : Begins(v, m)
      BY <1>4, <2>2, <3>2 DEF Begins, Alone
    <3>3. CASE Confirms(v)
      BY <2>2, <3>3 DEF Confirms, Alone
    <3>4. CASE Ends(v)
      <4>1. v = u => user'[u].ok
        BY <1>4, <3>4 DEF Ends, ApartInv, Plain
      <4> QED
        BY <2>2, <3>4, <4>1 DEF Ends, Alone
    <3> QED
      BY <3>1, <3>2, <3>3, <3>4 DEF AccountStep, SignsUp, ComesAnonymously
  <2>4. ASSUME NEW r \in Requests, Commits(r)
        PROVE  user'[u].ok
    <3> DEFINE q == req[r]
    <3>1. CommitStep(q) /\ q.pc = "decided"
      BY <2>4 DEF Commits
    <3>2. q.dec.do \in OldAccount => q.dec.u \in Users /\ user[q.dec.u].there
      BY <3>1, DecidedTypes DEF OwnersInv, DecidedTo, OldAccount
    <3>3. ASSUME NEW v \in Users, Alone(v), v # u
          PROVE  user'[u].ok
      BY <2>2, <3>3 DEF Alone
    <3>4. ASSUME ExistsStep(q.dec.u, q.key, q.claim), q.dec.do = "exists"
          PROVE  user'[u].ok
      BY <2>1, <3>2, <3>3, <3>4 DEF ExistsStep, OldAccount
    <3>5. ASSUME LinkStep(q.dec.u, q.key, q.claim), q.dec.do = "link"
          PROVE  user'[u].ok
      BY <2>1, <3>2, <3>3, <3>5 DEF LinkStep, OldAccount
    <3>6. ASSUME NEW v \in Users, CreateStep(v, q.key, q.claim, q.dec.mail)
          PROVE  user'[u].ok
      BY <1>4, <3>3, <3>6 DEF CreateStep
    <3>7. ASSUME AttachStep(q.dec.u, q.key, q.claim), q.dec.do = "attach"
          PROVE  user'[u].ok
      BY <1>4, <3>2, <3>3, <3>7 DEF AttachStep, OldAccount, Plain
    <3>8. ASSUME UnlinkStep(q.dec.u, q.key), q.dec.do \in {"unlink", "promote"}
          PROVE  user'[u].ok
      <4>1. CASE q.dec.u = u
        <5>1. user[u].ok /\ user[u].sso /\ Plain(user[u])
          BY <2>1, <3>2, <3>8, <4>1 DEF OldAccount
        <5>2. ASSUME NEW i \in Keys, ident'[i].user = u
              PROVE  ident'[i].mail # None /\ ident'[i].verified
          <6>1. ident'[i] = ident[i]
            BY <3>8, <5>2, NoneApart DEF UnlinkStep, NoIdentity
          <6>2. i[1] \in SSO
            BY <5>1, <5>2, <6>1 DEF ApartInv, SSOStaysApart, Plain
          <6> QED
            BY <5>2, <6>1, <6>2, NoneApart DEF WordInv
        <5> QED
          BY <3>8, <4>1, <5>1, <5>2 DEF UnlinkStep
      <4>2. CASE q.dec.u # u
        BY <3>2, <3>3, <3>8, <4>2 DEF UnlinkStep, OldAccount
      <4> QED
        BY <4>1, <4>2
    <3> HIDE DEF q
    <3> QED
      BY <3>1, <3>4, <3>5, <3>6, <3>7, <3>8 DEF CommitStep
  <2> QED
    BY <1>0, <2>2, <2>3, <2>4 DEF AccountSteps, Quiet
<1>5. ASSUME NEW r \in Requests, ByAddress(req'[r]), Plain(user'[req'[r].dec.u])
      PROVE  (req'[r].key[1] \in SSO) = user'[req'[r].dec.u].sso
  <2> DEFINE u == req'[r].dec.u
  <2> DEFINE k == req'[r].key
  <2>1. ByAddress(req'[r])
    BY <1>5
  <2>2. CASE Carries(r)
    <3>1. ByAddress(req[r]) /\ req[r].dec.u = u /\ req[r].key = k
      BY <2>1, <2>2 DEF Carries, ByAddress, DecidedTo
    <3>2. u \in Users /\ user[u].there
      BY <3>1, DecidedTypes DEF ByAddress, DecidedTo, OwnersInv, OldAccount
    <3> QED
      BY <1>1, <1>5, <3>1, <3>2 DEF StillStands, ApartInv
  <2>3. ~Comes(r)
    BY <2>1 DEF Comes, ByAddress, DecidedTo
  <2>4. CASE Newly(r)
    <3> DEFINE d == req'[r].dec
    <3> DEFINE q == req[r]
    <3>1. RequestDecided(q, d) /\ q.pc \in {"loaded", "unlinking"} /\ d.do # "refuse" /\ k = q.key
          /\ d.u = u
      BY <2>4 DEF Newly
    <3>2. d.do = "exists" \/ (d.do = "link" /\ k[1] \notin conf.bySubject)
      BY <2>1 DEF ByAddress, DecidedTo
    <3> HIDE DEF d, q, u, k
    <3>3. q.pc = "loaded" /\ SignInDecided(d, k, q.claim) /\ k \in ProviderKeys
      BY <3>1, <3>2 DEF RequestDecided, LinkDecided, UnlinkDecided
    <3>4. /\ u \in Users /\ k \in Keys
          /\ \/ \E i \in Keys : ident[i].user = u /\ (i[1] \in SSO <=> k[1] \in SSO)
             \/ k[1] \notin SSO /\ ~user[u].sso
      BY <3>1, <3>2, <3>3, KeyShapes DEF SignInDecided
    <3>5. Plain(user[u]) /\ user'[u].sso = user[u].sso
      <4>1. SameStanding(user'[u], user[u])
        BY <2>4, <3>4 DEF Newly, Quiet, SameButSessions
      <4> QED
        BY <1>5, <4>1 DEF SameStanding, Plain, u
    <3>6. user[u].sso \in BOOLEAN
      BY <3>4 DEF TypeOK, UserType, AccountType
    <3>7. (k[1] \in SSO) = user[u].sso
      BY <3>4, <3>5, <3>6 DEF ApartInv, SSOStaysApart, Plain
    <3> QED
      BY <3>5, <3>7 DEF k, u
  <2> QED
    BY <2>2, <2>3, <2>4, RequestSteps
<1>6. ASSUME NEW r \in Requests
      PROVE  ByAddress(req[r])' <=> ByAddress(req'[r])
  BY <1>0 DEF ByAddress, DecidedTo
<1> QED
  BY <1>3, <1>4, <1>5, <1>6 DEF ApartInv, SSOStaysApart, Plain

\* Single sign-on stays apart (findIdentitiesByEmails and
\* findSSOIdentitiesByEmails each look in their own world): an account that
\* nobody linked anything to on purpose has identities of one kind.
THEOREM SingleSignOnIsApart == Spec => []SSOStaysApart
<1>1. Spec => [](TypeOK /\ OwnersInv /\ WordInv /\ ApartInv)
  BY InitTyped, TypeStep, InitOwners, OwnersStep, InitWord, WordStep, InitApart, ApartStep, PTL DEF Spec
<1>2. ApartInv => SSOStaysApart
  BY DEF ApartInv
<1> QED
  BY <1>1, <1>2, PTL

-----------------------------------------------------------------------------
(***************************************************************************)
(* Nobody stays in an account that a provider's sign-in confirmed.  While  *)
(* providers do not change what they say, all the addresses around such an *)
(* account are one: its own, its identities', and those of the sign-ins    *)
(* about to be let in by their address.                                    *)
(***************************************************************************)

Calm == ~conf.drifts /\ ~conf.autoconfirm

\* Providers say what they said.
SameWords ==
    Calm =>
        /\ \A r \in Requests : SignsIn(req[r]) => req[r].claim = said[req[r].key[1]][req[r].key[2]]
        /\ \A k \in ProviderKeys : ident[k].user # None => ident[k].mail = said[k[1]][k[2]].mail

\* What is left of a decision when it is carried out.
DecisionInv ==
    /\ \A r \in Requests :
          DecidedTo(req[r], {"link"}) /\ ByAddress(req[r]) => req[r].claim.verified \/ conf.autoconfirm
    /\ \A r \in Requests : DecidedTo(req[r], {"create"}) => req[r].dec.mail \in {req[r].claim.mail, None}
    /\ \A u \in Users : ~user[u].there => user[u].mail = None

Around(m, u) ==
    \/ \E k \in Keys : ident[k].user = u /\ ident[k].mail = m
    \/ m # None /\ user[u].mail = m
    \/ \E r \in Requests : ByAddress(req[r]) /\ req[r].dec.u = u /\ req[r].claim.mail = m

Closed(u) ==
    /\ user[u].there /\ ~user[u].sso /\ user[u].password = None
    /\ \A m : Around(m, u) => OwnerOf[m] = user[u].via
    /\ \A k \in Keys : ident[k].user = u /\ k[1] # "email" => k[2] = user[u].via

StrangerInv ==
    Calm =>
        /\ \A u \in Users : Plain(user[u]) => \A m, n : Around(m, u) /\ Around(n, u) => m = n
        /\ \A u \in Users : Plain(user[u]) /\ user[u].via # None => Closed(u)

LEMMA SaidStays ==
    ASSUME TypeOK, [Next]_vars PROVE conf' = conf /\ (Calm => said' = said)
BY NextSteps DEF Passes, Enters, Commits, Switches, StaysSaid, Calm

LEMMA InitWords == ASSUME Init PROVE SameWords /\ DecisionInv
<1>1. \A r \in Requests : req[r].pc = "idle"
  BY DEF Init, NoRequest
<1>2. \A u \in Users : EmailKey(u) \notin ProviderKeys
  BY KeyShapes
<1>3. ProviderKeys \subseteq Keys
  BY KeyShapes
<1>4. \A k \in ProviderKeys : ident[k].user = None
  BY <1>2, <1>3 DEF Init, NoIdentity
<1>5. \A u \in Users : ~user[u].there => user[u].mail = None
  <2>1. \A m : Registered(m).there
    BY DEF Registered, InsertUser, NoUser
  <2> QED
    BY <2>1 DEF Init, NoUser
<1> QED
  BY <1>1, <1>4, <1>5 DEF SameWords, DecisionInv, SignsIn, DecidedTo

LEMMA WordsStep == ASSUME TypeOK, SameWords, [Next]_vars PROVE SameWords'
<1>0. conf' = conf /\ (Calm => said' = said) /\ AccountSteps
  BY SaidStays, AccountsSteps
<1> SUFFICES ASSUME Calm
             PROVE  /\ \A r \in Requests : SignsIn(req'[r]) =>
                          req'[r].claim = said'[req'[r].key[1]][req'[r].key[2]]
                    /\ \A k \in ProviderKeys : ident'[k].user # None => ident'[k].mail = said'[k[1]][k[2]].mail
  BY <1>0 DEF SameWords, Calm, SignsIn, DecidedTo
<1>1. ASSUME NEW r \in Requests, SignsIn(req'[r])
      PROVE  req'[r].claim = said[req'[r].key[1]][req'[r].key[2]]
  <2>1. CASE Carries(r)
    BY <1>1, <2>1 DEF Carries, SameWords, SignsIn, DecidedTo
  <2>2. CASE Comes(r)
    BY <1>1, <2>2 DEF Comes, SignsIn, DecidedTo
  <2>3. CASE Newly(r)
    <3>1. req'[r].dec.do \in SignInWays /\ RequestDecided(req[r], req'[r].dec)
          /\ req[r].pc \in {"loaded", "unlinking"}
      BY <1>1, <2>3 DEF Newly, SignsIn, DecidedTo
    <3>2. req[r].pc = "loaded"
      BY <3>1 DEF RequestDecided, UnlinkDecided, SignInWays
    <3> QED
      BY <2>3, <3>2 DEF Newly, SameWords, SignsIn
  <2> QED
    BY <2>1, <2>2, <2>3, RequestSteps
<1>2. ASSUME NEW k \in ProviderKeys, ident'[k].user # None
      PROVE  ident'[k].mail = said[k[1]][k[2]].mail
  BY <1>0, <1>2, RowsMove DEF SameWords
<1> QED
  BY <1>0, <1>1, <1>2

LEMMA DecisionStep == ASSUME TypeOK, OwnersInv, DecisionInv, [Next]_vars PROVE DecisionInv'
<1>0. conf' = conf /\ AccountSteps
  BY AccountsSteps
<1>1. ASSUME NEW r \in Requests, DecidedTo(req'[r], {"link"}), ByAddress(req'[r])
      PROVE  req'[r].claim.verified \/ conf.autoconfirm
  <2>1. CASE Carries(r)
    BY <1>1, <2>1 DEF Carries, DecisionInv, DecidedTo, ByAddress
  <2>2. ~Comes(r)
    BY <1>1 DEF Comes, DecidedTo
  <2>3. CASE Newly(r)
    <3> DEFINE d == req'[r].dec
    <3> DEFINE q == req[r]
    <3>1. /\ RequestDecided(q, d) /\ q.pc \in {"loaded", "unlinking"} /\ d.do = "link"
          /\ q.key[1] \notin conf.bySubject /\ req'[r].claim = q.claim
      BY <1>1, <2>3 DEF Newly, DecidedTo, ByAddress
    <3> HIDE DEF d, q
    <3>2. q.claim.verified \/ conf.autoconfirm
      BY <3>1 DEF RequestDecided, SignInDecided, LinkDecided, UnlinkDecided
    <3> QED
      BY <3>1, <3>2
  <2> QED
    BY <2>1, <2>2, <2>3, RequestSteps
<1>2. ASSUME NEW r \in Requests, DecidedTo(req'[r], {"create"})
      PROVE  req'[r].dec.mail \in {req'[r].claim.mail, None}
  <2>1. CASE Carries(r)
    BY <1>2, <2>1 DEF Carries, DecisionInv, DecidedTo
  <2>2. ~Comes(r)
    BY <1>2 DEF Comes, DecidedTo
  <2>3. CASE Newly(r)
    <3> DEFINE d == req'[r].dec
    <3> DEFINE q == req[r]
    <3>1. /\ RequestDecided(q, d) /\ q.pc \in {"loaded", "unlinking"} /\ d.do = "create"
          /\ req'[r].claim = q.claim
      BY <1>2, <2>3 DEF Newly, DecidedTo
    <3> HIDE DEF d, q
    <3>2. d.mail \in {q.claim.mail, None}
      BY <3>1 DEF RequestDecided, SignInDecided, LinkDecided, UnlinkDecided
    <3> QED
      BY <3>1, <3>2 DEF d
  <2> QED
    BY <2>1, <2>2, <2>3, RequestSteps
<1>3. ASSUME NEW u \in Users, ~user'[u].there
      PROVE  user'[u].mail = None
  <2>0. ~user[u].there
    BY <1>0, <1>3, StandsStill DEF StillStands
  <2>1. ASSUME SameButSessions(user'[u], user[u])
        PROVE  user'[u].mail = None
    BY <1>3, <2>1 DEF DecisionInv, SameButSessions, SameStanding
  <2>2. CASE Enters
    <3>1. PICK v \in Users : AccountStep(v)
      BY <2>2 DEF Enters
    <3>2. Alone(v) /\ (v = u => user'[u].there \/ user'[u].mail = None)
      BY <3>1 DEF AccountStep, SignsUp, ComesAnonymously, Begins, Confirms, Ends, SameStanding
    <3> QED
      BY <1>3, <2>1, <3>2 DEF Alone
  <2>3. ASSUME NEW r \in Requests, Commits(r)
        PROVE  user'[u].mail = None
    <3> DEFINE q == req[r]
    <3>1. CommitStep(q) /\ q.pc = "decided"
      BY <2>3 DEF Commits
    <3>2. q.dec.do \in OldAccount => q.dec.u # u
      BY <2>0, <3>1 DEF OwnersInv, DecidedTo
    <3>3. \E v : Alone(v) /\ v # u
      <4>1. CASE q.dec.do \in OldAccount
        BY <3>1, <3>2, <4>1 DEF CommitStep, ExistsStep, LinkStep, AttachStep, UnlinkStep, OldAccount
      <4>2. CASE q.dec.do = "create"
        BY <1>3, <3>1, <4>2 DEF CommitStep, CreateStep
      <4> QED
        BY <3>1, <4>1, <4>2, DecidedTypes DEF OldAccount
    <3> QED
      BY <2>1, <3>3 DEF Alone
  <2> QED
    BY <1>0, <2>1, <2>2, <2>3 DEF AccountSteps, Quiet
<1>4. \A r \in Requests : ByAddress(req[r])' <=> ByAddress(req'[r])
  BY <1>0 DEF ByAddress, DecidedTo
<1> QED
  BY <1>0, <1>1, <1>2, <1>3, <1>4 DEF DecisionInv, DecidedTo

\* The one address of a new account.
NewMail(u, x) ==
    /\ ~user[u].there
    /\ \/ x \in Mails /\ SignsUp(u, x)
       \/ \E r \in Requests :
             /\ Commits(r) /\ req[r].dec.do = "create" /\ x = req[r].claim.mail
             /\ CreateStep(u, req[r].key, req[r].claim, req[r].dec.mail)

LEMMA AroundThere ==
    ASSUME TypeOK, OwnersInv, DecisionInv, NEW u \in Users, NEW m, Around(m, u)
    PROVE  user[u].there
BY DEF Around, OwnersInv, DecisionInv, ByAddress, DecidedTo, OldAccount

\* What comes to be around an account was there, or is the new account's.
AroundNext(m, u) ==
    \/ \E k \in Keys : ident'[k].user = u /\ ident'[k].mail = m
    \/ m # None /\ user'[u].mail = m
    \/ \E r \in Requests : ByAddress(req'[r]) /\ req'[r].dec.u = u /\ req'[r].claim.mail = m

LEMMA AroundPrimed ==
    ASSUME TypeOK, [Next]_vars, NEW u, NEW m
    PROVE  Around(m, u)' <=> AroundNext(m, u)
<1>1. \A r \in Requests : ByAddress(req[r])' <=> ByAddress(req'[r])
  BY SaidStays DEF ByAddress, DecidedTo
<1> QED
  BY <1>1 DEF Around, AroundNext

\* The account that a commit is about.
LEMMA CommitAbout ==
    ASSUME TypeOK, OwnersInv, NEW r \in Requests, Commits(r), NEW u \in Users, Plain(user'[u])
    PROVE  \/ SameButSessions(user'[u], user[u]) /\ \A k \in Keys : ident'[k].user = u => ident'[k] = ident[k]
           \/ req[r].dec.do = "exists" /\ req[r].dec.u = u /\ ExistsStep(u, req[r].key, req[r].claim)
           \/ /\ req[r].dec.do = "link" /\ req[r].dec.u = u /\ LinkStep(u, req[r].key, req[r].claim)
              /\ ByAddress(req[r])
           \/ req[r].dec.do = "create" /\ CreateStep(u, req[r].key, req[r].claim, req[r].dec.mail)
           \/ req[r].dec.do \in {"unlink", "promote"} /\ req[r].dec.u = u /\ UnlinkStep(u, req[r].key)
<1> DEFINE q == req[r]
<1>1. CommitStep(q) /\ q.pc = "decided" /\ q.key \in Keys
  BY DecidedTypes DEF Commits
<1>2. None # u
  BY NoneApart
<1>3. \A i : i.user = u => i # NoIdentity
  BY <1>2 DEF NoIdentity
<1>4. \A v : IdentityRow(v, q.claim).user = v
  BY DEF IdentityRow
<1>5. ASSUME NEW v \in Users, v # u, NewIdentity(v, q.key, q.claim)
      PROVE  \A k \in Keys : ident'[k].user = u => ident'[k] = ident[k]
  BY <1>3, <1>4, <1>5 DEF NewIdentity
<1>6. CASE q.dec.do = "exists"
  BY <1>1, <1>3, <1>4, <1>6 DEF CommitStep, ExistsStep, Alone
<1>7. CASE q.dec.do = "link"
  <2>1. LinkStep(q.dec.u, q.key, q.claim) /\ q.dec.u \in Users
    BY <1>1, <1>7, DecidedTypes DEF CommitStep
  <2>2. CASE q.dec.u = u
    <3>1. q.key[1] \notin conf.bySubject
      BY <2>1, <2>2 DEF LinkStep, Plain
    <3> QED
      BY <1>1, <1>7, <2>1, <2>2, <3>1 DEF ByAddress, DecidedTo
  <2>3. CASE q.dec.u # u
    BY <1>5, <2>1, <2>3 DEF LinkStep, Alone
  <2> QED
    BY <2>2, <2>3
<1>8. CASE q.dec.do = "create"
  <2>1. PICK v \in Users : CreateStep(v, q.key, q.claim, q.dec.mail)
    BY <1>1, <1>8 DEF CommitStep
  <2>2. CASE v = u
    BY <1>8, <2>1, <2>2
  <2>3. CASE v # u
    BY <1>5, <2>1, <2>3 DEF CreateStep, Alone
  <2> QED
    BY <2>2, <2>3
<1>9. CASE q.dec.do = "attach"
  <2>1. AttachStep(q.dec.u, q.key, q.claim) /\ q.dec.u \in Users
    BY <1>1, <1>9, DecidedTypes DEF CommitStep
  <2>2. q.dec.u # u
    BY <2>1 DEF AttachStep, Plain
  <2>3. ident'[q.key] = IdentityRow(q.dec.u, q.claim) /\ \A i \in Keys : i # q.key => ident'[i] = ident[i]
    BY <1>1, <2>1 DEF AttachStep, TypeOK, IdentType
  <2> QED
    BY <1>4, <2>1, <2>2, <2>3 DEF AttachStep, Alone
<1>10. CASE q.dec.do \in {"unlink", "promote"}
  <2>1. UnlinkStep(q.dec.u, q.key) /\ q.dec.u \in Users
    BY <1>1, <1>10, DecidedTypes DEF CommitStep
  <2>2. \A i \in Keys : ident'[i] = NoIdentity \/ ident'[i] = ident[i]
    BY <2>1 DEF UnlinkStep
  <2> QED
    BY <1>3, <1>10, <2>1, <2>2 DEF UnlinkStep, Alone
<1> QED
  BY <1>1, <1>6, <1>7, <1>8, <1>9, <1>10, DecidedTypes

LEMMA AroundMoves ==
    ASSUME TypeOK, OwnersInv, DecisionInv, SameWords, Calm, [Next]_vars,
           NEW u \in Users, Plain(user'[u]), NEW m, AroundNext(m, u)
    PROVE  Around(m, u) \/ NewMail(u, m)
<1>0. AccountSteps /\ None # u /\ EmailKey(u) \in Keys
  BY AccountsSteps, NoneApart, KeyShapes
<1>1. \A k \in Keys : ident[k].user = u => Around(ident[k].mail, u)
  BY DEF Around
<1>2. ASSUME NEW r \in Requests, Commits(r), ByAddress(req[r]), req[r].dec.u = u
      PROVE  Around(req[r].claim.mail, u)
  BY <1>2 DEF Around
<1>3. ASSUME NEW r \in Requests, ByAddress(req'[r]), req'[r].dec.u = u, req'[r].claim.mail = m
      PROVE  Around(m, u)
  <2>1. CASE Carries(r)
    BY <1>3, <2>1 DEF Carries, ByAddress, DecidedTo, Around
  <2>2. ~Comes(r)
    BY <1>3 DEF Comes, ByAddress, DecidedTo
  <2>3. CASE Newly(r)
    <3> DEFINE d == req'[r].dec
    <3> DEFINE q == req[r]
    <3>1. /\ RequestDecided(q, d) /\ q.pc \in {"loaded", "unlinking"} /\ d.do # "refuse" /\ d.u = u
          /\ q.claim.mail = m /\ q.key = req'[r].key
      BY <1>3, <2>3 DEF Newly
    <3>2. d.do = "exists" \/ (d.do = "link" /\ q.key[1] \notin conf.bySubject)
      BY <1>3, <3>1 DEF ByAddress, DecidedTo
    <3>3. q.pc = "loaded" => q.claim = said[q.key[1]][q.key[2]]
      BY DEF SameWords, SignsIn
    <3> HIDE DEF d, q
    <3>4. q.pc = "loaded" /\ SignInDecided(d, q.key, q.claim) /\ q.key \in ProviderKeys /\ q.claim \in ClaimType
      BY <3>1, <3>2 DEF RequestDecided, LinkDecided, UnlinkDecided
    <3>5. q.key \in Keys /\ m # None
      BY <3>1, <3>4, KeyShapes, NoneApart DEF ClaimType
    <3>6. CASE d.do = "exists"
      <4>1. ident[q.key].user = u
        BY <3>1, <3>4, <3>6 DEF SignInDecided
      <4>2. ident[q.key].mail = m
        BY <1>0, <3>1, <3>3, <3>4, <4>1 DEF SameWords
      <4> QED
        BY <3>5, <4>1, <4>2 DEF Around
    <3>7. CASE d.do = "link" /\ q.key[1] \notin conf.bySubject
      BY <3>1, <3>4, <3>5, <3>7 DEF SignInDecided, Around
    <3> QED
      BY <3>2, <3>6, <3>7
  <2> QED
    BY <2>1, <2>2, <2>3, RequestSteps
<1>4. CASE Quiet
  <2>1. user'[u].mail = user[u].mail /\ ident' = ident
    BY <1>4 DEF Quiet, SameButSessions, SameStanding
  <2> QED
    BY <1>3, <2>1 DEF AroundNext, Around
<1>5. CASE Enters
  <2>1. PICK v \in Users : AccountStep(v)
    BY <1>5 DEF Enters
  <2>2. ASSUME SameStanding(user'[u], user[u]), \A k \in Keys : ident'[k].user = u => ident'[k] = ident[k]
        PROVE  Around(m, u)
    BY <1>3, <2>2 DEF AroundNext, Around, SameStanding
  <2>3. ASSUME NEW x \in Mails, SignsUp(v, x)
        PROVE  Around(m, u) \/ NewMail(u, m)
    <3>1. CASE v = u
      <4>1. ~user[u].there /\ user'[u].mail = x
        BY <2>3, <3>1 DEF SignsUp, Begins
      <4>2. \A k \in Keys : ident'[k].user = u => ident'[k].mail = x
        BY <2>3, <3>1, <4>1 DEF SignsUp, OwnersInv
      <4>3. m = x \/ Around(m, u)
        BY <1>3, <4>1, <4>2 DEF AroundNext
      <4> QED
        BY <2>3, <3>1, <4>1, <4>3 DEF NewMail
    <3>2. CASE v # u
      BY <2>2, <2>3, <3>2 DEF SignsUp, Begins, Alone, SameButSessions
    <3> QED
      BY <3>1, <3>2
  <2>4. CASE ComesAnonymously(v)
    <3>1. CASE v = u
      <4>1. user'[u].mail = None /\ ident' = ident
        BY <2>4, <3>1 DEF ComesAnonymously, Begins
      <4> QED
        BY <1>3, <4>1 DEF AroundNext, Around
    <3>2. CASE v # u
      BY <2>2, <2>4, <3>2 DEF ComesAnonymously, Begins, Alone, SameButSessions
    <3> QED
      BY <3>1, <3>2
  <2>5. CASE Confirms(v)
    <3>1. CASE v = u
      <4>1. /\ user'[u].mail = user[u].mail /\ user[u].mail # None /\ ident'[EmailKey(u)].mail = user[u].mail
            /\ \A k \in Keys : k # EmailKey(u) => ident'[k] = ident[k]
        BY <2>5, <3>1 DEF Confirms, SameStanding
      <4> QED
        BY <1>3, <4>1 DEF AroundNext, Around
    <3>2. CASE v # u
      BY <2>2, <2>5, <3>2 DEF Confirms, Alone, SameButSessions
    <3> QED
      BY <3>1, <3>2
  <2>6. CASE Ends(v)
    <3>1. CASE v = u
      <4>1. user'[u].mail = None /\ \A k \in Keys : ident'[k].user # u
        BY <1>0, <2>6, <3>1 DEF Ends, NoIdentity
      <4> QED
        BY <1>3, <4>1 DEF AroundNext
    <3>2. CASE v # u
      BY <1>0, <2>2, <2>6, <3>2 DEF Ends, Alone, SameButSessions, NoIdentity
    <3> QED
      BY <3>1, <3>2
  <2> QED
    BY <2>1, <2>3, <2>4, <2>5, <2>6 DEF AccountStep
<1>6. ASSUME NEW r \in Requests, Commits(r)
      PROVE  Around(m, u) \/ NewMail(u, m)
  <2> DEFINE q == req[r]
  <2>0. q.pc = "decided" /\ q.key \in Keys
    BY <1>6, DecidedTypes DEF Commits
  <2>1. CASE SameButSessions(user'[u], user[u]) /\ \A k \in Keys : ident'[k].user = u => ident'[k] = ident[k]
    BY <1>3, <2>1 DEF AroundNext, Around, SameButSessions, SameStanding
  <2>2. ASSUME \A k \in Keys : ident'[k].user = u => ident'[k] = ident[k] \/ ident'[k].mail = q.claim.mail,
               user'[u].mail = user[u].mail, Around(q.claim.mail, u)
        PROVE  Around(m, u)
    BY <1>3, <2>2 DEF AroundNext, Around
  <2>3. CASE q.dec.do = "exists" /\ q.dec.u = u /\ ExistsStep(u, q.key, q.claim)
    <3>1. Around(q.claim.mail, u)
      BY <1>2, <1>6, <2>0, <2>3 DEF ByAddress, DecidedTo
    <3> QED
      BY <1>0, <2>2, <2>3, <3>1 DEF ExistsStep, SameStanding, NoIdentity, IdentityRow
  <2>4. CASE q.dec.do = "link" /\ q.dec.u = u /\ LinkStep(u, q.key, q.claim) /\ ByAddress(q)
    <3>1. Around(q.claim.mail, u)
      BY <1>2, <1>6, <2>4
    <3> QED
      BY <1>0, <2>2, <2>4, <3>1 DEF LinkStep, NewIdentity, NoIdentity, IdentityRow
  <2>5. CASE q.dec.do = "create" /\ CreateStep(u, q.key, q.claim, q.dec.mail)
    <3>1. ~user[u].there /\ NewMail(u, q.claim.mail)
      BY <1>6, <2>5 DEF CreateStep, NewMail
    <3>2. \A k \in Keys : ident'[k].user = u => ident'[k].mail = q.claim.mail
      BY <1>0, <2>5, <3>1 DEF CreateStep, NewIdentity, IdentityRow, NoIdentity, OwnersInv
    <3>3. user'[u].mail \in {q.claim.mail, None}
      BY <2>0, <2>5 DEF CreateStep, DecisionInv, DecidedTo
    <3> QED
      BY <1>3, <3>1, <3>2, <3>3 DEF AroundNext
  <2>6. CASE q.dec.do \in {"unlink", "promote"} /\ q.dec.u = u /\ UnlinkStep(u, q.key)
    <3>1. \A k \in Keys : ident'[k].user = u => ident'[k] = ident[k]
      BY <1>0, <2>6 DEF UnlinkStep, NoIdentity
    <3>2. user'[u].mail = user[u].mail \/ \E i \in Keys : ident'[i].user = u /\ user'[u].mail = ident'[i].mail
      BY <2>6 DEF UnlinkStep
    <3> QED
      BY <1>3, <3>1, <3>2 DEF AroundNext, Around
  <2> QED
    BY <1>6, <2>1, <2>3, <2>4, <2>5, <2>6, CommitAbout
<1> QED
  BY <1>0, <1>4, <1>5, <1>6 DEF AccountSteps

LEMMA NewMailOnly ==
    ASSUME TypeOK, OwnersInv, DecisionInv, [Next]_vars, NEW u \in Users, NEW x, NewMail(u, x),
           NEW m, AroundNext(m, u)
    PROVE  m = x
<1>0. None # u /\ EmailKey(u) \in Keys /\ ~user[u].there
  BY NoneApart, KeyShapes DEF NewMail
<1>1. \A k \in Keys : ident[k].user # u
  BY <1>0 DEF OwnersInv
<1>2. \A v \in Users : v = u => ~SameButSessions(user'[u], user[u])
  BY <1>0 DEF NewMail, SignsUp, Begins, CreateStep, SameButSessions, SameStanding
<1>3. ASSUME NEW r \in Requests, ByAddress(req'[r]), req'[r].dec.u = u
      PROVE  FALSE
  <2>1. ~Carries(r)
    BY <1>0, <1>3 DEF Carries, OwnersInv, ByAddress, DecidedTo, OldAccount
  <2>2. ~Comes(r)
    BY <1>3 DEF Comes, ByAddress, DecidedTo
  <2>3. ~Newly(r)
    BY <1>2 DEF Newly, Quiet
  <2> QED
    BY <2>1, <2>2, <2>3, RequestSteps
<1>4. CASE x \in Mails /\ SignsUp(u, x)
  <2>1. user'[u].mail = x /\ \A k \in Keys : ident'[k].user = u => ident'[k].mail = x
    BY <1>1, <1>4 DEF SignsUp, Begins
  <2> QED
    BY <1>3, <2>1 DEF AroundNext
<1>5. ASSUME NEW r \in Requests, Commits(r), req[r].dec.do = "create", x = req[r].claim.mail,
             CreateStep(u, req[r].key, req[r].claim, req[r].dec.mail)
      PROVE  m = x
  <2> DEFINE q == req[r]
  <2>1. q.pc = "decided"
    BY <1>5 DEF Commits
  <2>2. user'[u].mail \in {x, None}
    BY <1>5, <2>1 DEF CreateStep, DecisionInv, DecidedTo
  <2>3. \A k \in Keys : ident'[k].user = u => ident'[k].mail = x
    BY <1>0, <1>1, <1>5 DEF CreateStep, NewIdentity, IdentityRow, NoIdentity
  <2> QED
    BY <1>3, <2>2, <2>3 DEF AroundNext
<1> QED
  BY <1>4, <1>5 DEF NewMail

\* How an account comes by whom it is confirmed for.
KeepsVia(u) ==
    /\ Plain(user[u]) /\ user'[u].via = user[u].via
    /\ user'[u].password \in {user[u].password, None}
ClosedBy(r, u) ==
    LET q == req[r]
    IN  /\ Commits(r) /\ q.key \in ProviderKeys /\ q.key[1] \notin SSO
        /\ q.claim.verified \/ conf.autoconfirm
        /\ user'[u].via = q.key[2] /\ user'[u].password = None
        /\ \A i \in Keys : i # q.key => ident'[i].user # u
        /\ \/ ByAddress(q) /\ q.dec.u = u
           \/ q.dec.do = "create" /\ CreateStep(u, q.key, q.claim, q.dec.mail)

LEMMA ViaMoves ==
    ASSUME TypeOK, OwnersInv, [Next]_vars, NEW u \in Users, Plain(user'[u]), user'[u].via # None
    PROVE  KeepsVia(u) \/ \E r \in Requests : ClosedBy(r, u)
<1>0. ASSUME SameButSessions(user'[u], user[u])
      PROVE  KeepsVia(u)
  BY <1>0 DEF SameButSessions, SameStanding, KeepsVia, Plain
<1>1. CASE Quiet
  BY <1>0, <1>1 DEF Quiet
<1>2. CASE Enters
  <2>1. PICK v \in Users : AccountStep(v)
    BY <1>2 DEF Enters
  <2>2. Alone(v)
    BY <2>1 DEF AccountStep, SignsUp, ComesAnonymously, Begins, Confirms, Ends
  <2>3. CASE v # u
    BY <1>0, <2>2, <2>3 DEF Alone
  <2>4. CASE v = u
    BY <2>1, <2>4 DEF AccountStep, SignsUp, ComesAnonymously, Begins, Confirms, Ends, SameStanding, KeepsVia, Plain
  <2> QED
    BY <2>3, <2>4
<1>3. ASSUME NEW r \in Requests, Commits(r)
      PROVE  KeepsVia(u) \/ ClosedBy(r, u)
  <2> DEFINE q == req[r]
  <2>1. /\ q.pc = "decided"
        /\ q.dec.do \in {"exists", "link", "create", "attach"} => q.key \in ProviderKeys
    BY <1>3, DecidedTypes DEF Commits
  <2>2. CASE SameButSessions(user'[u], user[u])
    BY <1>0, <2>2
  <2>3. CASE q.dec.do = "exists" /\ q.dec.u = u /\ ExistsStep(u, q.key, q.claim)
    <3>1. ByAddress(q) /\ Plain(user[u])
      BY <2>1, <2>3 DEF ByAddress, DecidedTo, ExistsStep, SameStanding, Plain
    <3>2. CASE user'[u].via = user[u].via
      BY <2>3, <3>1, <3>2 DEF ExistsStep, KeepsVia
    <3>3. CASE user'[u].via # user[u].via
      BY <1>3, <2>1, <2>3, <3>1, <3>3 DEF ExistsStep, Closes, ClosedBy
    <3> QED
      BY <3>2, <3>3
  <2>4. CASE q.dec.do = "link" /\ q.dec.u = u /\ LinkStep(u, q.key, q.claim) /\ ByAddress(q)
    <3>1. Plain(user[u])
      BY <2>4 DEF LinkStep, Plain
    <3>2. CASE user'[u].via = user[u].via
      BY <2>4, <3>1, <3>2 DEF LinkStep, KeepsVia
    <3>3. CASE user'[u].via # user[u].via
      BY <1>3, <2>1, <2>4, <3>3 DEF LinkStep, Closes, ClosedBy
    <3> QED
      BY <3>2, <3>3
  <2>5. CASE q.dec.do = "create" /\ CreateStep(u, q.key, q.claim, q.dec.mail)
    BY <1>3, <2>1, <2>5 DEF CreateStep, Closes, ClosedBy
  <2>6. CASE q.dec.do \in {"unlink", "promote"} /\ q.dec.u = u /\ UnlinkStep(u, q.key)
    BY <2>6 DEF UnlinkStep, KeepsVia, Plain
  <2> QED
    BY <1>3, <2>2, <2>3, <2>4, <2>5, <2>6, CommitAbout
<1> QED
  BY <1>1, <1>2, <1>3, AccountsSteps DEF AccountSteps

LEMMA StrangerStep ==
    ASSUME TypeOK, OwnersInv, WordInv, ApartInv, DecisionInv, SameWords, StrangerInv, [Next]_vars
    PROVE  StrangerInv'
<1>0. AccountSteps /\ conf' = conf
  BY AccountsSteps
<1> SUFFICES ASSUME Calm
             PROVE  /\ \A u \in Users : Plain(user'[u]) => \A m, n : Around(m, u)' /\ Around(n, u)' => m = n
                    /\ \A u \in Users : Plain(user'[u]) /\ user'[u].via # None => Closed(u)'
  BY <1>0 DEF StrangerInv, Calm, Plain
<1>1. /\ \A u \in Users : Plain(user[u]) => \A m, n : Around(m, u) /\ Around(n, u) => m = n
      /\ \A u \in Users : Plain(user[u]) /\ user[u].via # None => Closed(u)
  BY DEF StrangerInv
<1>2. ASSUME NEW u \in Users, user[u].there
      PROVE  user'[u].there /\ user'[u].sso = user[u].sso /\ (Plain(user'[u]) => Plain(user[u]))
  BY <1>0, <1>2, StandsStill DEF StillStands
<1>3. ASSUME NEW u \in Users, Plain(user'[u]), NEW m, NEW n, AroundNext(m, u), AroundNext(n, u)
      PROVE  m = n
  <2>1. CASE NewMail(u, m)
    BY <1>3, <2>1, NewMailOnly
  <2>2. CASE NewMail(u, n)
    BY <1>3, <2>2, NewMailOnly
  <2>3. CASE Around(m, u) /\ Around(n, u)
    <3>1. user[u].there
      BY <2>3, AroundThere
    <3> QED
      BY <1>1, <1>2, <1>3, <2>3, <3>1
  <2> QED
    BY <1>3, <2>1, <2>2, <2>3, AroundMoves
<1>4. ASSUME NEW r \in Requests, NEW u \in Users, req[r].pc = "decided", req[r].key \in ProviderKeys,
             req[r].key[1] \notin SSO, req[r].claim.verified, req[r].dec.do \in SignInWays
      PROVE  OwnerOf[req[r].claim.mail] = req[r].key[2]
  <2>1. VouchedFor(req[r].key, req[r].claim)
    BY <1>4 DEF WordInv, SignsIn, DecidedTo
  <2>2. req[r].key[1] \in External
    BY <1>4, KeyShapes DEF Providers
  <2> QED
    BY <1>4, <2>1, <2>2 DEF VouchedFor
<1>5. ASSUME NEW r \in Requests, NEW u \in Users, ByAddress(req[r]), req[r].dec.u = u, Plain(user[u])
      PROVE  (req[r].key[1] \in SSO) = user[u].sso
  BY <1>5 DEF ApartInv
<1>6. ASSUME NEW u \in Users, Plain(user'[u]), user'[u].via # None, KeepsVia(u)
      PROVE  Closed(u)'
  <2>1. /\ user[u].there /\ ~user[u].sso /\ user[u].password = None /\ Plain(user[u])
        /\ \A m : Around(m, u) => OwnerOf[m] = user[u].via
        /\ \A k \in Keys : ident[k].user = u /\ k[1] # "email" => k[2] = user[u].via
        /\ user'[u].via = user[u].via /\ user'[u].password = None
    BY <1>1, <1>6 DEF Closed, KeepsVia
  <2>2. ASSUME NEW m, AroundNext(m, u)
        PROVE  OwnerOf[m] = user'[u].via
    <3>1. ~NewMail(u, m)
      BY <2>1 DEF NewMail
    <3> QED
      BY <1>6, <2>1, <2>2, <3>1, AroundMoves
  <2>3. ASSUME NEW k \in Keys, ident'[k].user = u, k[1] # "email"
        PROVE  k[2] = user'[u].via
    <3>1. CASE ident[k].user = u
      BY <2>1, <2>3, <3>1
    <3>2. CASE ident[k].user # u
      <4>1. PICK r \in Requests : FoundBy(r, k, u)
        <5>1. k # EmailKey(u)
          BY <2>3, KeyShapes
        <5> QED
          BY <1>0, <2>3, <3>2, <5>1, IdentitiesFound
      <4>2. req[r].dec.do = "link" /\ req[r].dec.u = u /\ LinkStep(u, k, req[r].claim)
            /\ req[r].pc = "decided" /\ k = req[r].key /\ k \in ProviderKeys
        BY <1>6, <2>1, <4>1 DEF FoundBy, CreateStep, AttachStep, Plain, Commits
      <4>3. ByAddress(req[r])
        BY <1>6, <4>2 DEF LinkStep, Plain, ByAddress, DecidedTo
      <4>4. req[r].claim.verified
        BY <4>2, <4>3 DEF DecisionInv, DecidedTo, Calm
      <4>5. k[1] \notin SSO
        BY <1>5, <2>1, <4>2, <4>3
      <4>6. OwnerOf[req[r].claim.mail] = k[2]
        BY <1>4, <4>2, <4>4, <4>5 DEF SignInWays
      <4>7. Around(req[r].claim.mail, u)
        BY <4>2, <4>3 DEF Around
      <4> QED
        BY <2>1, <4>6, <4>7
    <3> QED
      BY <3>1, <3>2
  <2>4. user'[u].there /\ ~user'[u].sso
    BY <1>2, <2>1
  <2>5. ASSUME NEW m, Around(m, u)'
        PROVE  OwnerOf[m] = user'[u].via
    BY <2>2, <2>5, AroundPrimed
  <2> QED
    BY <2>1, <2>3, <2>4, <2>5 DEF Closed
<1>7. ASSUME NEW u \in Users, Plain(user'[u]), NEW r \in Requests, ClosedBy(r, u)
      PROVE  Closed(u)'
  <2> DEFINE q == req[r]
  <2>1. /\ q.pc = "decided" /\ q.key \in ProviderKeys /\ q.key[1] \notin SSO /\ q.claim.verified
        /\ user'[u].via = q.key[2] /\ user'[u].password = None
        /\ \A i \in Keys : i # q.key => ident'[i].user # u
    BY <1>7 DEF ClosedBy, Commits, Calm
  <2>2. CASE ByAddress(q) /\ q.dec.u = u
    <3>1. Around(q.claim.mail, u)
      BY <2>2 DEF Around
    <3>2. user[u].there
      BY <3>1, AroundThere
    <3>3. Plain(user[u]) /\ user'[u].there /\ user'[u].sso = user[u].sso
      BY <1>2, <1>7, <3>2
    <3>4. user[u].sso \in BOOLEAN
      BY DEF TypeOK, UserType, AccountType
    <3>5. ~user'[u].sso
      BY <1>5, <2>1, <2>2, <3>3, <3>4
    <3>6. OwnerOf[q.claim.mail] = q.key[2]
      BY <1>4, <2>1, <2>2 DEF ByAddress, DecidedTo, SignInWays
    <3>7. ASSUME NEW m, AroundNext(m, u)
          PROVE  OwnerOf[m] = user'[u].via
      <4>1. Around(m, u)
        BY <1>7, <3>2, <3>7, AroundMoves DEF NewMail
      <4> QED
        BY <1>1, <2>1, <3>1, <3>3, <3>6, <4>1
    <3>8. ASSUME NEW m, Around(m, u)'
          PROVE  OwnerOf[m] = user'[u].via
      BY <3>7, <3>8, AroundPrimed
    <3> QED
      BY <2>1, <3>3, <3>5, <3>8 DEF Closed
  <2>3. CASE q.dec.do = "create" /\ CreateStep(u, q.key, q.claim, q.dec.mail)
    <3>1. NewMail(u, q.claim.mail)
      BY <1>7, <2>3 DEF NewMail, CreateStep, ClosedBy
    <3>2. user'[u].there /\ ~user'[u].sso
      BY <2>1, <2>3 DEF CreateStep
    <3>3. OwnerOf[q.claim.mail] = q.key[2]
      BY <1>4, <2>1, <2>3 DEF SignInWays
    <3>4. ASSUME NEW m, Around(m, u)'
          PROVE  OwnerOf[m] = user'[u].via
      BY <2>1, <3>1, <3>3, <3>4, AroundPrimed, NewMailOnly
    <3> QED
      BY <2>1, <3>2, <3>4 DEF Closed
  <2> QED
    BY <1>7, <2>2, <2>3 DEF ClosedBy
<1>8. ASSUME NEW u \in Users, Plain(user'[u]), user'[u].via # None
      PROVE  Closed(u)'
  BY <1>6, <1>7, <1>8, ViaMoves
<1> QED
  BY <1>3, <1>8, AroundPrimed

LEMMA InitStranger == ASSUME Init PROVE StrangerInv
<1>1. \A r \in Requests : ~ByAddress(req[r])
  BY DEF Init, NoRequest, ByAddress, DecidedTo
<1>2. \A m : Registered(m).via = None /\ Registered(m).mail = m
  BY DEF Registered, InsertUser, NoUser
<1>3. \A u \in Users : user[u].via = None
  BY <1>2 DEF Init, NoUser
<1>4. ASSUME NEW u \in Users, NEW m, NEW n, Around(m, u), Around(n, u)
      PROVE  m = n
  <2>1. CASE user = [v \in Users |-> NoUser] /\ ident = [k \in Keys |-> NoIdentity]
    BY <1>1, <1>4, <2>1, NoneApart DEF Around, NoUser, NoIdentity
  <2>2. ASSUME NEW w \in Users, NEW x \in Mails,
               user = [v \in Users |-> IF v = w THEN Registered(x) ELSE NoUser],
               ident = [k \in Keys |-> IF k = EmailKey(w) THEN [user |-> w, mail |-> x, verified |-> TRUE]
                                       ELSE NoIdentity]
        PROVE  m = n
    <3>1. user[u].mail \in {x, None}
      BY <1>2, <2>2 DEF NoUser
    <3>2. \A k \in Keys : ident[k].user = u => ident[k].mail = x
      BY <2>2, NoneApart DEF NoIdentity
    <3> QED
      BY <1>1, <1>4, <3>1, <3>2 DEF Around
  <2> QED
    BY <2>1, <2>2 DEF Init
<1> QED
  BY <1>3, <1>4 DEF StrangerInv

\* Nobody stays in an account that a provider's sign-in confirmed
\* (RemoveUnconfirmedIdentities, and DetermineAccountLinking, which lets a
\* provider in by a verified address only): while no provider changes what it
\* says and nobody links anything on purpose, whoever had the account before
\* keeps neither a password nor an identity.
THEOREM StrangersAreOut == Spec => []NoStrangerInside
<1>1. Spec => [](TypeOK /\ OwnersInv /\ WordInv /\ ApartInv /\ SameWords /\ DecisionInv /\ StrangerInv)
  BY InitTyped, TypeStep, InitOwners, OwnersStep, InitWord, WordStep, InitApart, ApartStep, InitWords, WordsStep,
     DecisionStep, InitStranger, StrangerStep, PTL DEF Spec
<1>2. StrangerInv => NoStrangerInside
  BY DEF StrangerInv, NoStrangerInside, ClosesTakeover, Calm, Closed, Plain, IdentitiesOf
<1> QED
  BY <1>1, <1>2, PTL
=============================================================================
