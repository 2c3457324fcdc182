------------------------ MODULE SecondFactorsProofs ------------------------
(***************************************************************************)
(* Guessing is bounded, aal2 has its claim, a passkey challenge signs in   *)
(* once and nothing races OPAQUE, for any number of sessions, factors,     *)
(* challenges, passkeys, handshakes and requests.                          *)
(***************************************************************************)
EXTENDS SecondFactors, FiniteSetTheorems, TLAPS

AccountRows == [st : {"none", "live", "deleted"}, ok : BOOLEAN, updated : Nat, era : Nat,
                version : Nat, cred : Nat, by : Handshakes \cup {None}]

SessionRows == [st : {"none", "live", "gone"}, aal : {1, 2}, factor : Factors \cup {None},
                claims : SUBSET FactorTypes, fresh : BOOLEAN]

FactorRows == [st : {"none", "unverified", "verified", "gone"}, type : FactorTypes \cup {None},
               num : {0, 1}, old : BOOLEAN, recent : BOOLEAN]

ChallengeRows == [st : {"none", "open", "used", "gone"},
                  kind : {None, "create", "request", "registration", "authentication"},
                  f : Factors \cup {None}, num : {0, 1}, old : BOOLEAN, grants : Nat]

Counts == [open : BOOLEAN, n : Nat, wrong : Nat]

HandshakeRows == [st : {"none", "open", "gone"}, kind : {None, "registration", "signup", "login"},
                  s : Sessions \cup {None}, updated : Nat, version : Nat, era : Nat, old : BOOLEAN]

Standings == [pc : {"idle", "enrolling", "failed", "verified", "clearing", "unenrolling", "marked",
                    "attested", "counted", "asserted", "registration", "signup", "login"},
              s : Sessions \cup {None}, f : Factors \cup {None}, c : Challenges \cup {None},
              h : Handshakes \cup {None}, type : FactorTypes \cup {None},
              marks : SUBSET Sessions, recorded : BOOLEAN]

\* What a request under way names.
Named(q) ==
    /\ q.pc = "enrolling" => q.type \in FactorTypes
    /\ q.pc \in {"failed", "verified", "clearing"} =>
          q.s \in Sessions /\ q.f \in Factors /\ q.c \in Challenges /\ fac[q.f].st # "none"
    /\ q.pc \in {"unenrolling", "marked"} => q.f \in Factors /\ fac[q.f].st # "none"
    /\ q.pc = "asserted" => q.c \in Challenges
    /\ q.pc \in {"registration", "signup", "login"} =>
          q.h \in Handshakes /\ hand[q.h].st # "none" /\ hand[q.h].kind = q.pc

TypeOK ==
    /\ conf \in Configs
    /\ acct \in AccountRows
    /\ sess \in [Sessions -> SessionRows]
    /\ fac \in [Factors -> FactorRows]
    /\ \A f \in Factors : fac[f].st # "none" => fac[f].type \in FactorTypes
    /\ chal \in [Challenges -> ChallengeRows]
    /\ tries \in [Factors -> Counts]
    /\ pass \in SUBSET Passkeys
    /\ hand \in [Handshakes -> HandshakeRows]
    /\ spray \in Nat
    /\ keys \in SUBSET [s : Sessions, version : Nat, h : Handshakes]
    /\ req \in [Requests -> Standings]
    /\ \A r \in Requests : Named(req[r])
    /\ events \in Nat

-----------------------------------------------------------------------------
\* A wrong code that was compared is counted, or its request is about to
\* count it.
Failing(f) == {r \in Requests : req[r].pc = "failed" /\ req[r].f = f}
Counted(f) == IF tries[f].open THEN tries[f].n ELSE 0

GuessInv == \A f \in Factors : tries[f].wrong <= Counted(f) + Cardinality(Failing(f))

\* The claim of the factor that a session verified last is there, and no
\* removal of another factor is about to take it away.
Backed(s) ==
    /\ sess[s].factor \in Factors /\ fac[sess[s].factor].st # "none"
    /\ fac[sess[s].factor].type \in sess[s].claims
    /\ \A q \in Requests : req[q].pc = "marked" /\ s \in req[q].marks /\ req[q].f # sess[s].factor =>
          fac[req[q].f].type # fac[sess[s].factor].type

ClaimInv == \A s \in Sessions : Live(s) /\ sess[s].aal = 2 => Backed(s)

\* A challenge that was answered is gone, and one request has the answer.
AnswerInv ==
    /\ \A c \in Challenges : chal[c].st \in {"none", "open"} => chal[c].grants = 0
    /\ \A r \in Requests : req[r].pc = "asserted" =>
          chal[req[r].c].st = "gone" /\ chal[req[r].c].grants = 0
    /\ \A q, r \in Requests : req[q].pc = "asserted" /\ req[r].pc = "asserted" /\ req[q].c = req[r].c => q = r

\* A handshake is of an era that has been; one that started from what is
\* there now is of this era.
Current(h) ==
    hand[h].st # "none" =>
        /\ hand[h].era <= acct.era
        /\ hand[h].kind = "registration" =>
              hand[h].updated <= acct.updated /\ (hand[h].updated = acct.updated => hand[h].era = acct.era)
        /\ hand[h].kind = "login" /\ hand[h].version # 0 =>
              hand[h].version <= acct.version /\ (hand[h].version = acct.cred => hand[h].era = acct.era)

OpaqueInv ==
    /\ acct.st = "none" => acct.era = 0 /\ acct.version = 0
    /\ acct.cred # 0 => /\ acct.st = "live" /\ acct.cred = acct.version
                        /\ acct.by \in Handshakes /\ hand[acct.by].st # "none" /\ hand[acct.by].era = acct.era
    /\ \A h \in Handshakes : Current(h)
    /\ \A r \in Requests : req[r].pc = "login" => hand[req[r].h].version # 0
    /\ \A k \in keys : /\ k.version = acct.cred /\ k.version # 0
                       /\ hand[k.h].st # "none" /\ hand[k.h].era = acct.era
-----------------------------------------------------------------------------
(***************************************************************************)
(* Types.  A change of a row leaves it well formed; a request that begins, *)
(* goes on or ends leaves the others as they are.                          *)
(***************************************************************************)

\* Of the rows of f only the one of x may differ in g.
Only(f, g, D, x) == \A y \in D : y # x => g[y] = f[y]

LEMMA IdleTyped == Idle \in Standings /\ Idle.pc = "idle" /\ Named(Idle)
BY DEF Idle, Standings, Named

LEMMA RowsTyped ==
    /\ NoSession \in SessionRows /\ NoFactor \in FactorRows /\ NoChallenge \in ChallengeRows
    /\ NoHandshake \in HandshakeRows
BY DEF NoSession, NoFactor, NoChallenge, NoHandshake, SessionRows, FactorRows, ChallengeRows, HandshakeRows

LEMMA Moved ==
    ASSUME req \in [Requests -> Standings], NEW r \in Requests, NEW q \in Standings,
           req' = [req EXCEPT ![r] = q]
    PROVE  req' \in [Requests -> Standings] /\ req'[r] = q /\ Only(req, req', Requests, r)
BY DEF Only

LEMMA Finished ==
    ASSUME req \in [Requests -> Standings], NEW r \in Requests, Finish(r)
    PROVE  /\ req' \in [Requests -> Standings] /\ req'[r] = Idle /\ req'[r].pc = "idle"
           /\ Only(req, req', Requests, r)
BY IdleTyped, Moved DEF Finish

LEMMA Gone ==
    ASSUME req \in [Requests -> Standings], NEW r \in Requests,
           NEW p \in {"marked", "clearing", "counted"}, Go(r, p)
    PROVE  /\ req' \in [Requests -> Standings] /\ Only(req, req', Requests, r)
           /\ req'[r] = [req[r] EXCEPT !.pc = p]
BY DEF Go, Only, Standings

\* Factors and handshakes that are there stay there, with their types and kinds.
Stay ==
    /\ \A f \in Factors : fac[f].st # "none" => fac'[f].st # "none" /\ fac'[f].type = fac[f].type
    /\ \A h \in Handshakes : hand[h].st # "none" => hand'[h].st # "none" /\ hand'[h].kind = hand[h].kind

LEMMA NamedStay ==
    ASSUME NEW q \in Standings, Named(q), Stay
    PROVE  Named(q)'
BY DEF Named, Stay

\* A request that moves names what it has to; the others still do.
LEMMA AllNamed ==
    ASSUME TypeOK, NEW r \in Requests, req' \in [Requests -> Standings], Only(req, req', Requests, r),
           Stay, Named(req[r])'
    PROVE  \A x \in Requests : Named(req[x])'
<1> SUFFICES ASSUME NEW x \in Requests, x # r PROVE Named(req[x])'
  OBVIOUS
<1>1. PICK q \in Standings : q = req[x]
  BY DEF TypeOK
<1>2. Named(q)'
  BY <1>1, NamedStay DEF TypeOK
<1>3. req'[x] = q
  BY <1>1 DEF Only
<1> QED
  BY <1>2, <1>3 DEF Named

LEMMA NobodyMoves ==
    ASSUME TypeOK, Stay, req' = req
    PROVE  \A x \in Requests : Named(req[x])'
BY NamedStay DEF TypeOK, Named

LEMMA EventTyped == ASSUME TypeOK, NEW feature, Event(feature) PROVE events' \in Nat
BY DEF TypeOK, Event

\* A session that is granted is new and at aal1; the others are as they were.
LEMMA Granted ==
    ASSUME TypeOK, NEW s \in Sessions, sess' = GrantSession(sess, s)
    PROVE  /\ sess' \in [Sessions -> SessionRows] /\ Only(sess, sess', Sessions, s)
           /\ sess'[s].st = "live" /\ sess'[s].aal = 1
<1> DEFINE n == [NoSession EXCEPT !.st = "live", !.fresh = TRUE]
<1>1. n \in SessionRows /\ n.st = "live" /\ n.aal = 1
  BY RowsTyped DEF SessionRows, NoSession
<1>2. sess' = [sess EXCEPT ![s] = n]
  BY DEF GrantSession
<1> HIDE DEF n
<1> QED
  BY <1>1, <1>2 DEF TypeOK, Only

\* An account that somebody writes to keeps everything but the time of it.
LEMMA TouchedTyped ==
    ASSUME TypeOK
    PROVE  /\ Touched(acct) \in AccountRows /\ Touched(acct).st = acct.st /\ Touched(acct).ok = acct.ok
           /\ Touched(acct).updated = acct.updated + 1
           /\ Touched(acct).era = acct.era /\ Touched(acct).version = acct.version
           /\ Touched(acct).cred = acct.cred /\ Touched(acct).by = acct.by
BY DEF TypeOK, Touched, AccountRows

\* What a new password and the deletion of the account leave.
LEMMA NewEra ==
    ASSUME TypeOK, NEW st \in {"live", "deleted"},
           acct' = [[Touched(acct) EXCEPT !.st = st] EXCEPT !.era = acct.era + 1, !.cred = 0]
    PROVE  /\ acct' \in AccountRows /\ acct'.st = st /\ acct'.updated = acct.updated + 1
           /\ acct'.era = acct.era + 1 /\ acct'.version = acct.version /\ acct'.cred = 0
<1>1. acct \in AccountRows /\ acct.era + 1 \in Nat
  BY DEF TypeOK, AccountRows
<1>2. PICK a \in AccountRows : /\ a = Touched(acct) /\ a.updated = acct.updated + 1 /\ a.era = acct.era
                               /\ a.version = acct.version
  BY TouchedTyped
<1>3. PICK b : b = [a EXCEPT !.st = st]
  OBVIOUS
<1>4. b \in AccountRows /\ b.st = st /\ b.updated = a.updated /\ b.version = a.version
  BY <1>3 DEF AccountRows
<1>5. PICK e \in Nat : e = acct.era + 1
  BY <1>1
<1>6. PICK d : d = [b EXCEPT !.era = e, !.cred = 0]
  OBVIOUS
<1>7. /\ d \in AccountRows /\ d.st = b.st /\ d.updated = b.updated /\ d.version = b.version
      /\ d.era = e /\ d.cred = 0
  BY <1>4, <1>6 DEF AccountRows
<1>8. acct' = d
  BY <1>2, <1>3, <1>5, <1>6
<1> QED
  BY <1>2, <1>4, <1>5, <1>7, <1>8

LEMMA NewPassword ==
    ASSUME TypeOK, UpdatePassword
    PROVE  acct' = [[Touched(acct) EXCEPT !.st = "live"] EXCEPT !.era = acct.era + 1, !.cred = 0]
<1>1. acct.st = "live" /\ acct' = [Touched(acct) EXCEPT !.era = @ + 1, !.cred = 0]
  BY DEF UpdatePassword
<1>2. PICK a \in AccountRows : a = Touched(acct) /\ a.st = "live" /\ a.era = acct.era
  BY <1>1, TouchedTyped
<1>3. [a EXCEPT !.st = "live"] = a
  BY <1>2 DEF AccountRows
<1>4. acct' = [a EXCEPT !.era = acct.era + 1, !.cred = 0]
  BY <1>1, <1>2
<1> QED
  BY <1>2, <1>3, <1>4

LEMMA AccountDeleted ==
    ASSUME TypeOK, SoftDeleteUser
    PROVE  acct' = [[Touched(acct) EXCEPT !.st = "deleted"] EXCEPT !.era = acct.era + 1, !.cred = 0]
<1>1. acct' = [Touched(acct) EXCEPT !.st = "deleted", !.era = @ + 1, !.cred = 0]
  BY DEF SoftDeleteUser
<1>2. PICK a \in AccountRows : a = Touched(acct) /\ a.era = acct.era
  BY TouchedTyped
<1> QED
  BY <1>1, <1>2 DEF AccountRows

LEMMA TypeStart == Init => TypeOK
<1> SUFFICES ASSUME Init PROVE TypeOK
  OBVIOUS
<1>0. acct \in AccountRows
  <2>1. PICK st \in {"none", "live"} :
           acct = [st |-> st, ok |-> st = "live", updated |-> 0, era |-> 0, version |-> 0, cred |-> 0, by |-> None]
    BY DEF Init
  <2>2. PICK ok \in BOOLEAN : ok = (st = "live")
    OBVIOUS
  <2>3. acct = [st |-> st, ok |-> ok, updated |-> 0, era |-> 0, version |-> 0, cred |-> 0, by |-> None]
    BY <2>1, <2>2
  <2> QED
    BY <2>3 DEF AccountRows
<1>1. /\ sess \in [Sessions -> SessionRows] /\ fac \in [Factors -> FactorRows]
      /\ chal \in [Challenges -> ChallengeRows] /\ hand \in [Handshakes -> HandshakeRows]
  BY RowsTyped DEF Init
<1>2. tries \in [Factors -> Counts] /\ pass \in SUBSET Passkeys
  BY DEF Init, Counts
<1>3. \A f \in Factors : fac[f].st = "none"
  BY DEF Init, NoFactor
<1>4. req \in [Requests -> Standings] /\ \A r \in Requests : Named(req[r])
  BY IdleTyped DEF Init
<1> QED
  BY <1>0, <1>1, <1>2, <1>3, <1>4 DEF Init, TypeOK

LEMMA NothingGoes == fac' = fac /\ hand' = hand => Stay
BY DEF Stay

Typed == TypeOK' /\ Stay

\* What a step has to show of its types when it moves one request, or none.
LEMMA TypeMoves ==
    ASSUME TypeOK, Stay, conf' = conf, acct' \in AccountRows, sess' \in [Sessions -> SessionRows],
           fac' \in [Factors -> FactorRows], \A f \in Factors : fac'[f].st # "none" => fac'[f].type \in FactorTypes,
           chal' \in [Challenges -> ChallengeRows], tries' \in [Factors -> Counts], pass' \in SUBSET Passkeys,
           hand' \in [Handshakes -> HandshakeRows], spray' \in Nat,
           keys' \in SUBSET [s : Sessions, version : Nat, h : Handshakes], events' \in Nat,
           \/ req' = req
           \/ \E r \in Requests : /\ req' \in [Requests -> Standings] /\ Only(req, req', Requests, r)
                                  /\ Named(req[r])'
    PROVE  Typed
<1>1. req' \in [Requests -> Standings] /\ \A x \in Requests : Named(req[x])'
  BY AllNamed, NobodyMoves DEF TypeOK
<1> QED
  BY <1>1 DEF TypeOK, Typed

LEMMA AccountTypes ==
    ASSUME TypeOK, (\E s \in Sessions : SignIn(s)) \/ UpdatePassword \/ SoftDeleteUser \/ Confirm
    PROVE  Typed
<1>1. ASSUME NEW s \in Sessions, SignIn(s) PROVE Typed
  <2>1. acct' \in AccountRows /\ sess' \in [Sessions -> SessionRows] /\ events' \in Nat
    <3>1. acct' = Touched(acct) /\ sess' = GrantSession(sess, s) /\ events' = events + 1
      BY <1>1 DEF SignIn
    <3> QED
      BY <3>1, TouchedTyped, Granted DEF TypeOK
  <2> QED
    BY <1>1, <2>1, NothingGoes, TypeMoves DEF SignIn, TypeOK
<1>2. ASSUME UpdatePassword PROVE Typed
  <2>1. acct' \in AccountRows /\ events' \in Nat
    BY <1>2, NewPassword, NewEra, EventTyped DEF UpdatePassword
  <2>2. keys' \in SUBSET [s : Sessions, version : Nat, h : Handshakes]
    BY <1>2 DEF UpdatePassword
  <2> QED
    BY <1>2, <2>1, <2>2, NothingGoes, TypeMoves DEF UpdatePassword, TypeOK
<1>3. ASSUME SoftDeleteUser PROVE Typed
  <2>1. acct' \in AccountRows /\ events' \in Nat
    BY <1>3, AccountDeleted, NewEra DEF SoftDeleteUser, TypeOK
  <2>2. sess' \in [Sessions -> SessionRows]
    <3>1. [NoSession EXCEPT !.st = "gone"] \in SessionRows
      BY DEF NoSession, SessionRows
    <3> QED
      BY <1>3, <3>1 DEF SoftDeleteUser, TypeOK, End
  <2>3. fac' \in [Factors -> FactorRows]
        /\ \A f \in Factors : /\ fac'[f].type = fac[f].type
                              /\ fac[f].st # "none" <=> fac'[f].st # "none"
    BY <1>3 DEF SoftDeleteUser, TypeOK, FactorRows
  <2>4. Stay /\ \A f \in Factors : fac'[f].st # "none" => fac'[f].type \in FactorTypes
    BY <1>3, <2>3 DEF Stay, SoftDeleteUser, TypeOK
  <2>5. keys' \in SUBSET [s : Sessions, version : Nat, h : Handshakes] /\ pass' \in SUBSET Passkeys
    BY <1>3 DEF SoftDeleteUser
  <2> QED
    BY <1>3, <2>1, <2>2, <2>3, <2>4, <2>5, TypeMoves DEF SoftDeleteUser, TypeOK
<1>4. ASSUME Confirm PROVE Typed
  <2>1. PICK a \in AccountRows : a = Touched(acct)
    BY TouchedTyped
  <2>2. acct' \in AccountRows /\ events' \in Nat
    BY <1>4, <2>1, EventTyped DEF Confirm, AccountRows
  <2> QED
    BY <1>4, <2>2, NothingGoes, TypeMoves DEF Confirm, TypeOK
<1> QED
  BY <1>1, <1>2, <1>3, <1>4

LEMMA TimeTypes ==
    ASSUME TypeOK, NEW long \in BOOLEAN, TimePasses(long)
    PROVE  Typed
<1>1. chal' \in [Challenges -> ChallengeRows]
  <2>1. SUFFICES ASSUME NEW c \in Challenges
                 PROVE  [chal[c] EXCEPT !.old = chal[c].st # "none"] \in ChallengeRows
    BY DEF TimePasses
  <2>2. PICK old \in BOOLEAN : old = (chal[c].st # "none")
    OBVIOUS
  <2>3. chal[c] \in ChallengeRows
    BY DEF TypeOK
  <2>4. [chal[c] EXCEPT !.old = old] \in ChallengeRows
    BY <2>3 DEF ChallengeRows
  <2> QED
    BY <2>2, <2>4
<1>2. fac' \in [Factors -> FactorRows]
      /\ \A f \in Factors : fac'[f].type = fac[f].type /\ fac'[f].st = fac[f].st
  BY DEF TimePasses, TypeOK, FactorRows
<1>3. hand' \in [Handshakes -> HandshakeRows]
      /\ \A h \in Handshakes : hand'[h].kind = hand[h].kind /\ hand'[h].st = hand[h].st
  BY DEF TimePasses, TypeOK, HandshakeRows
<1>4. sess' \in [Sessions -> SessionRows]
  BY DEF TimePasses, TypeOK, SessionRows
<1>5. tries' \in [Factors -> Counts]
  BY DEF TimePasses, TypeOK, Counts
<1>6. keys' \in SUBSET [s : Sessions, version : Nat, h : Handshakes]
  BY DEF TimePasses, TypeOK
<1>7. spray' \in Nat /\ events' \in Nat
  <2>1. spray' = 0 /\ events' = events + 1
    BY DEF TimePasses
  <2> QED
    BY <2>1 DEF TypeOK
<1>8. Stay /\ \A f \in Factors : fac'[f].st # "none" => fac'[f].type \in FactorTypes
  BY <1>2, <1>3 DEF Stay, TypeOK
<1> QED
  BY <1>1, <1>2, <1>3, <1>4, <1>5, <1>6, <1>7, <1>8, TypeMoves DEF TimePasses, TypeOK

LEMMA Begun ==
    ASSUME TypeOK, NEW r \in Requests, NEW q \in Standings, Begin(r, q)
    PROVE  req' \in [Requests -> Standings] /\ req'[r] = q /\ Only(req, req', Requests, r)
BY Moved DEF Begin, TypeOK

LEMMA EnrollTypes ==
    ASSUME TypeOK, NEW r \in Requests, NEW s \in Sessions, NEW type \in FactorTypes, EnrollFactor(r, s, type)
    PROVE  Typed
<1> DEFINE left == {f \in Factors : Enrolled(f) /\ ~Replaced(f, type) /\ ~Expired(f)}
<1>1. /\ fac' = [f \in Factors |-> IF Enrolled(f) /\ f \notin left THEN [fac[f] EXCEPT !.st = "gone"] ELSE fac[f]]
      /\ Begin(r, [Idle EXCEPT !.pc = "enrolling", !.s = s, !.type = type])
      /\ UNCHANGED <<conf, acct, sess, chal, tries, pass, hand, spray, keys>>
  BY DEF EnrollFactor
<1> HIDE DEF left
<1>2. events' \in Nat
  BY EventTyped DEF EnrollFactor
<1>3. fac' \in [Factors -> FactorRows]
      /\ \A f \in Factors : /\ fac'[f].type = fac[f].type
                            /\ fac[f].st # "none" <=> fac'[f].st # "none"
  BY <1>1 DEF TypeOK, FactorRows, Enrolled
<1>4. Stay /\ \A f \in Factors : fac'[f].st # "none" => fac'[f].type \in FactorTypes
  BY <1>1, <1>3 DEF Stay, TypeOK
<1>5. PICK q : q = [Idle EXCEPT !.pc = "enrolling", !.s = s, !.type = type]
  OBVIOUS
<1>6. q \in Standings /\ q.pc = "enrolling" /\ q.type = type
  BY <1>5 DEF Idle, Standings
<1>7. req' \in [Requests -> Standings] /\ req'[r] = q /\ Only(req, req', Requests, r)
  BY <1>1, <1>5, <1>6, Begun
<1>8. Named(req[r])'
  BY <1>6, <1>7 DEF Named
<1> QED
  BY <1>1, <1>2, <1>3, <1>4, <1>7, <1>8, TypeMoves DEF TypeOK

LEMMA InsertTypes ==
    ASSUME TypeOK, NEW r \in Requests, NEW f \in Factors, InsertFactor(r, f)
    PROVE  Typed
<1>1. req[r].type \in FactorTypes
  BY DEF InsertFactor, TypeOK, Named
<1>2. PICK n : n = [NoFactor EXCEPT !.st = "unverified", !.type = req[r].type]
  OBVIOUS
<1>3. n \in FactorRows /\ n.st = "unverified" /\ n.type \in FactorTypes
  BY <1>1, <1>2 DEF NoFactor, FactorRows
<1>4. fac' = fac \/ (fac[f].st = "none" /\ fac' = [fac EXCEPT ![f] = n])
  BY <1>2 DEF InsertFactor
<1>5. fac' \in [Factors -> FactorRows] /\ Stay
      /\ \A g \in Factors : fac'[g].st # "none" => fac'[g].type \in FactorTypes
  <2>1. hand' = hand
    BY DEF InsertFactor
  <2> QED
    BY <1>3, <1>4, <2>1 DEF TypeOK, Stay
<1>6. Finish(r) /\ UNCHANGED <<conf, acct, sess, chal, tries, pass, hand, spray, keys, events>>
  BY DEF InsertFactor
<1>7. req' \in [Requests -> Standings] /\ Only(req, req', Requests, r) /\ Named(req[r])'
  BY <1>6, Finished, IdleTyped DEF TypeOK, Named
<1> QED
  BY <1>5, <1>6, <1>7, TypeMoves DEF TypeOK

LEMMA ChallengeTypes ==
    ASSUME TypeOK, NEW s \in Sessions, NEW f \in Factors, NEW c \in Challenges, ChallengeFactor(s, f, c)
    PROVE  Typed
<1>1. PICK n : n = [NoChallenge EXCEPT !.st = "open", !.f = f, !.num = fac[f].num, !.kind = Ceremony(f)]
  OBVIOUS
<1>2. fac[f].num \in {0, 1} /\ Ceremony(f) \in {"create", "request"}
  BY DEF TypeOK, FactorRows, Ceremony
<1>3. n \in ChallengeRows
  BY <1>1, <1>2 DEF NoChallenge, ChallengeRows
<1>4. /\ chal' = [chal EXCEPT ![c] = n] /\ fac' = [fac EXCEPT ![f].recent = TRUE]
      /\ UNCHANGED <<conf, acct, sess, tries, pass, hand, spray, keys, req>>
  BY <1>1 DEF ChallengeFactor
<1>5. chal' \in [Challenges -> ChallengeRows]
  BY <1>3, <1>4 DEF TypeOK
<1>6. fac' \in [Factors -> FactorRows]
      /\ \A g \in Factors : fac'[g].st = fac[g].st /\ fac'[g].type = fac[g].type
  <2>1. PICK m : m = [fac[f] EXCEPT !.recent = TRUE]
    OBVIOUS
  <2>2. m \in FactorRows /\ m.st = fac[f].st /\ m.type = fac[f].type
    BY <2>1 DEF TypeOK, FactorRows
  <2>3. fac' = [fac EXCEPT ![f] = m]
    BY <1>4, <2>1
  <2> QED
    BY <2>2, <2>3 DEF TypeOK
<1>7. Stay /\ \A g \in Factors : fac'[g].st # "none" => fac'[g].type \in FactorTypes
  BY <1>4, <1>6 DEF Stay, TypeOK
<1>8. events' \in Nat
  BY EventTyped DEF ChallengeFactor
<1> QED
  BY <1>4, <1>5, <1>6, <1>7, <1>8, TypeMoves DEF TypeOK

LEMMA VerifyTypes ==
    ASSUME TypeOK, NEW r \in Requests, NEW s \in Sessions, NEW f \in Factors, NEW c \in Challenges,
           NEW right \in BOOLEAN, VerifyFactor(r, s, f, c, right)
    PROVE  Typed
<1>1. fac[f].st # "none" /\ events' \in Nat
  BY EventTyped DEF VerifyFactor, Enrolled
<1>2. UNCHANGED <<conf, acct, sess, fac, pass, hand, spray, keys>> /\ Stay
  BY NothingGoes DEF VerifyFactor
<1>3. CASE chal[c].old
  <2>1. chal' = [chal EXCEPT ![c].st = "gone"] /\ UNCHANGED <<req, tries>>
    BY <1>3 DEF VerifyFactor
  <2>2. chal' \in [Challenges -> ChallengeRows]
    BY <2>1 DEF TypeOK, ChallengeRows
  <2> QED
    BY <1>1, <1>2, <2>1, <2>2, TypeMoves DEF TypeOK
<1>4. CASE ~chal[c].old
  <2> DEFINE p == IF right THEN "verified" ELSE "failed"
  <2>1. PICK recorded \in BOOLEAN : recorded = (tries[f].n > 0)
    <3>1. (tries[f].n > 0) \in BOOLEAN
      BY SMT DEF TypeOK, Counts
    <3> QED
      BY <3>1
  <2>2. PICK q : q = [Idle EXCEPT !.pc = p, !.s = s, !.f = f, !.c = c, !.recorded = recorded]
    OBVIOUS
  <2>3. /\ Begin(r, q) /\ chal' = chal
        /\ tries' = IF right THEN tries ELSE [tries EXCEPT ![f].wrong = @ + 1]
    BY <1>4, <2>1, <2>2 DEF VerifyFactor
  <2>4. q \in Standings /\ q.pc \in {"verified", "failed"} /\ q.s = s /\ q.f = f /\ q.c = c
    BY <2>2 DEF Idle, Standings
  <2>5. req' \in [Requests -> Standings] /\ req'[r] = q /\ Only(req, req', Requests, r)
    BY <2>3, <2>4, Begun
  <2>6. Named(req[r])'
    BY <1>1, <1>2, <2>4, <2>5 DEF Named
  <2>7. tries' \in [Factors -> Counts]
    BY <2>3 DEF TypeOK, Counts
  <2> QED
    BY <1>1, <1>2, <2>3, <2>5, <2>6, <2>7, TypeMoves DEF TypeOK
<1> QED
  BY <1>3, <1>4

LEMMA CountTypes ==
    ASSUME TypeOK, NEW r \in Requests, RecordFailure(r) \/ ClearAttempts(r)
    PROVE  Typed
<1>1. PICK f \in Factors : f = req[r].f
  BY DEF RecordFailure, ClearAttempts, TypeOK, Named
<1>2. Finish(r) /\ UNCHANGED <<conf, acct, sess, fac, chal, pass, hand, spray, keys, events>>
  BY DEF RecordFailure, ClearAttempts
<1>3. PICK n \in Nat : n = IF tries[f].open THEN tries[f].n + 1 ELSE 1
  BY DEF TypeOK, Counts
<1>4. \/ tries' = [tries EXCEPT ![f].n = n, ![f].open = TRUE]
      \/ tries' = [tries EXCEPT ![f] = [open |-> FALSE, n |-> 0, wrong |-> 0]]
      \/ tries' = [tries EXCEPT ![f].wrong = 0]
  <2>1. CASE RecordFailure(r)
    BY <1>1, <1>3, <2>1 DEF RecordFailure, TypeOK, Counts
  <2>2. CASE ClearAttempts(r)
    BY <1>1, <2>2 DEF ClearAttempts
  <2> QED
    BY <2>1, <2>2
<1>5. tries' \in [Factors -> Counts]
  <2>1. PICK m : m = [tries[f] EXCEPT !.n = n, !.open = TRUE]
    OBVIOUS
  <2>2. PICK z : z = [open |-> FALSE, n |-> 0, wrong |-> 0]
    OBVIOUS
  <2>3. PICK w : w = [tries[f] EXCEPT !.wrong = 0]
    OBVIOUS
  <2>4. tries[f] \in Counts
    BY DEF TypeOK
  <2>5. m \in Counts /\ z \in Counts /\ w \in Counts
    BY <2>1, <2>2, <2>3, <2>4 DEF Counts
  <2>6. tries' = [tries EXCEPT ![f] = m] \/ tries' = [tries EXCEPT ![f] = z] \/ tries' = [tries EXCEPT ![f] = w]
    BY <1>4, <2>1, <2>2, <2>3 DEF TypeOK
  <2> QED
    BY <2>5, <2>6 DEF TypeOK
<1>6. req' \in [Requests -> Standings] /\ Only(req, req', Requests, r) /\ Named(req[r])'
  BY <1>2, Finished, IdleTyped DEF TypeOK, Named
<1> QED
  BY <1>2, <1>5, <1>6, NothingGoes, TypeMoves DEF TypeOK

\* What the verification of factor f does to its session and to the others.
LEMMA SessionUpgraded ==
    ASSUME TypeOK, NEW r \in Requests, NEW s \in Sessions, NEW f \in Factors, s = req[r].s, f = req[r].f,
           fac[f].type \in FactorTypes, Live(s), FinalizeFactorVerification(r)
    PROVE  /\ sess' \in [Sessions -> SessionRows]
           /\ sess'[s].factor = f /\ sess'[s].claims = sess[s].claims \cup {fac[f].type}
           /\ \A t \in Sessions : t # s => sess'[t] = sess[t] \/ sess'[t].st = "gone"
<1>1. sess' = [t \in Sessions |->
                  CASE t = s -> [sess[t] EXCEPT !.aal = 2, !.factor = f, !.claims = @ \cup {fac[f].type}]
                    [] t # s -> IF Live(t) /\ sess[t].aal < 2 THEN [NoSession EXCEPT !.st = "gone"]
                                ELSE sess[t]]
  BY DEF FinalizeFactorVerification
<1>2. PICK m : m = [sess[s] EXCEPT !.aal = 2, !.factor = f, !.claims = @ \cup {fac[f].type}]
  OBVIOUS
<1>3. m \in SessionRows /\ m.factor = f /\ m.claims = sess[s].claims \cup {fac[f].type}
  <2>1. sess[s] \in SessionRows
    BY DEF TypeOK
  <2>2. PICK claims \in SUBSET FactorTypes : claims = sess[s].claims \cup {fac[f].type}
    BY <2>1 DEF SessionRows
  <2>3. m = [sess[s] EXCEPT !.aal = 2, !.factor = f, !.claims = claims]
    BY <1>2, <2>2
  <2> QED
    BY <2>1, <2>2, <2>3 DEF SessionRows
<1>4. PICK n : n = [NoSession EXCEPT !.st = "gone"]
  OBVIOUS
<1>5. n \in SessionRows /\ n.st = "gone"
  BY <1>4 DEF NoSession, SessionRows
<1>6. \A t \in Sessions : t # s => sess'[t] = sess[t] \/ sess'[t] = n
  BY <1>1, <1>4
<1>7. sess'[s] = m
  BY <1>1, <1>2
<1>8. sess' = [t \in Sessions |-> sess'[t]]
  BY <1>1
<1>9. \A t \in Sessions : sess'[t] \in SessionRows
  BY <1>3, <1>5, <1>6, <1>7 DEF TypeOK
<1> HIDE DEF SessionRows
<1> QED
  BY <1>3, <1>5, <1>6, <1>7, <1>8, <1>9

\* ... and to the factors: none comes or goes from nothing, no type changes.
LEMMA FactorsVerified ==
    ASSUME TypeOK, NEW r \in Requests, NEW f \in Factors, f = req[r].f, Live(req[r].s),
           FinalizeFactorVerification(r)
    PROVE  fac' \in [Factors -> FactorRows]
           /\ \A g \in Factors : /\ fac'[g].type = fac[g].type
                                 /\ fac[g].st # "none" <=> fac'[g].st # "none"
<1> DEFINE now == [fac EXCEPT ![req[r].f].st = IF @ = "unverified" THEN "verified" ELSE @]
<1>2. fac' = [g \in Factors |-> IF Leftover(g, req[r].f, now) THEN [now[g] EXCEPT !.st = "gone"] ELSE now[g]]
  BY DEF FinalizeFactorVerification
<1>3. now \in [Factors -> FactorRows]
      /\ \A g \in Factors : /\ now[g].type = fac[g].type
                            /\ fac[g].st # "none" <=> now[g].st # "none"
  <2>1. fac[f] \in FactorRows /\ fac \in [Factors -> FactorRows]
    BY DEF TypeOK
  <2>2. PICK m : m = [fac[f] EXCEPT !.st = IF fac[f].st = "unverified" THEN "verified" ELSE fac[f].st]
    OBVIOUS
  <2>3. m \in FactorRows /\ m.type = fac[f].type /\ (fac[f].st # "none" <=> m.st # "none")
    BY <2>1, <2>2 DEF FactorRows
  <2>4. now = [fac EXCEPT ![f] = m]
    BY <2>2
  <2> QED
    BY <2>1, <2>3, <2>4
<1> HIDE DEF now
<1>4. \A g \in Factors : Leftover(g, req[r].f, now) => now[g].st # "none"
  BY DEF Leftover
<1>5. \A g \in Factors :
         LET n == [now[g] EXCEPT !.st = "gone"]
         IN  n \in FactorRows /\ n.st = "gone" /\ n.type = now[g].type
  BY <1>3 DEF FactorRows
<1> QED
  BY <1>2, <1>3, <1>4, <1>5

LEMMA FinalizeTypes ==
    ASSUME TypeOK, NEW r \in Requests, FinalizeFactorVerification(r)
    PROVE  Typed
<1>1. req[r].pc = "verified" /\ UNCHANGED <<conf, acct, tries, pass, hand, spray, events>>
  BY DEF FinalizeFactorVerification
<1>2. PICK s \in Sessions, f \in Factors, c \in Challenges : s = req[r].s /\ f = req[r].f /\ c = req[r].c
  BY <1>1 DEF TypeOK, Named
<1>3. fac[f].st # "none" /\ fac[f].type \in FactorTypes
  BY <1>1, <1>2 DEF TypeOK, Named
<1>4. CASE Live(s)
  <2>1. sess' \in [Sessions -> SessionRows]
    BY <1>2, <1>3, <1>4, SessionUpgraded
  <2>2. fac' \in [Factors -> FactorRows]
        /\ \A g \in Factors : /\ fac'[g].type = fac[g].type
                              /\ fac[g].st # "none" <=> fac'[g].st # "none"
    BY <1>2, <1>4, FactorsVerified
  <2>3. Stay /\ \A g \in Factors : fac'[g].st # "none" => fac'[g].type \in FactorTypes
    BY <1>1, <2>2 DEF Stay, TypeOK
  <2>4. chal' \in [Challenges -> ChallengeRows]
    <3>1. PICK n : n = [chal[c] EXCEPT !.st = IF chal[c].st = "gone" THEN chal[c].st ELSE "used"]
      OBVIOUS
    <3>2. n \in ChallengeRows
      BY <3>1 DEF TypeOK, ChallengeRows
    <3>3. chal' = [chal EXCEPT ![c] = n]
      BY <1>2, <1>4, <3>1 DEF FinalizeFactorVerification
    <3> QED
      BY <3>2, <3>3 DEF TypeOK
  <2>5. keys' \in SUBSET [s : Sessions, version : Nat, h : Handshakes]
    BY <1>2, <1>4 DEF FinalizeFactorVerification, TypeOK
  <2>6. req' \in [Requests -> Standings] /\ Only(req, req', Requests, r)
        /\ req'[r] = [req[r] EXCEPT !.pc = "clearing"]
    BY <1>2, <1>4, Gone DEF FinalizeFactorVerification, TypeOK
  <2>7. Named(req[r])'
    BY <1>1, <1>2, <1>3, <2>3, <2>6 DEF Named, TypeOK, Standings, Stay
  <2> QED
    BY <1>1, <2>1, <2>2, <2>3, <2>4, <2>5, <2>6, <2>7, TypeMoves DEF TypeOK
<1>5. CASE ~Live(s)
  <2>1. Finish(r) /\ UNCHANGED <<sess, fac, chal, keys>>
    BY <1>2, <1>5 DEF FinalizeFactorVerification
  <2>2. req' \in [Requests -> Standings] /\ Only(req, req', Requests, r) /\ Named(req[r])'
    BY <2>1, Finished, IdleTyped DEF TypeOK, Named
  <2> QED
    BY <1>1, <2>1, <2>2, NothingGoes, TypeMoves DEF TypeOK
<1> QED
  BY <1>4, <1>5

LEMMA UnenrollTypes ==
    ASSUME TypeOK, NEW r \in Requests, NEW s \in Sessions \cup {None}, NEW f \in Factors,
           UnenrollFactor(r, s, f)
    PROVE  Typed
<1>1. PICK q : q = [Idle EXCEPT !.pc = "unenrolling", !.s = s, !.f = f]
  OBVIOUS
<1>2. q \in Standings /\ q.pc = "unenrolling" /\ q.f = f
  BY <1>1 DEF Idle, Standings
<1>3. /\ Begin(r, q) /\ fac[f].st # "none" /\ events' \in Nat
      /\ UNCHANGED <<conf, acct, sess, fac, chal, tries, pass, hand, spray, keys>>
  BY <1>1, EventTyped DEF UnenrollFactor, Enrolled
<1>4. req' \in [Requests -> Standings] /\ req'[r] = q /\ Only(req, req', Requests, r)
  BY <1>2, <1>3, Begun
<1>5. Named(req[r])'
  BY <1>2, <1>3, <1>4 DEF Named
<1> QED
  BY <1>3, <1>4, <1>5, NothingGoes, TypeMoves DEF TypeOK

LEMMA MarkTypes ==
    ASSUME TypeOK, NEW r \in Requests, DeleteAMRClaims(r)
    PROVE  Typed
<1>1. PICK marks : marks = {s \in Sessions : Live(s) /\ sess[s].factor = req[r].f}
  OBVIOUS
<1>2. PICK q : q = [req[r] EXCEPT !.pc = "marked", !.marks = marks]
  OBVIOUS
<1>3. req[r] \in Standings /\ req[r].pc = "unenrolling" /\ marks \in SUBSET Sessions
  BY <1>1 DEF DeleteAMRClaims, TypeOK
<1>4. q \in Standings /\ q.pc = "marked" /\ q.f = req[r].f
  BY <1>2, <1>3 DEF Standings
<1>5. req' = [req EXCEPT ![r] = q]
  BY <1>1, <1>2 DEF DeleteAMRClaims, TypeOK
<1>6. req' \in [Requests -> Standings] /\ req'[r] = q /\ Only(req, req', Requests, r)
  BY <1>4, <1>5, Moved DEF TypeOK
<1>7. UNCHANGED <<conf, acct, sess, fac, chal, tries, pass, hand, spray, keys, events>>
  BY DEF DeleteAMRClaims
<1>8. Named(req[r])'
  BY <1>3, <1>4, <1>6, <1>7 DEF Named, TypeOK
<1> QED
  BY <1>6, <1>7, <1>8, NothingGoes, TypeMoves DEF TypeOK

\* What the removal of factor f does to a session.
LEMMA SessionsDowngraded ==
    ASSUME TypeOK, NEW r \in Requests, NEW f \in Factors, f = req[r].f, fac[f].type \in FactorTypes,
           sess' = Downgraded(r)
    PROVE  /\ sess' \in [Sessions -> SessionRows]
           /\ \A s \in Sessions :
                 /\ sess'[s].st = sess[s].st
                 /\ sess'[s].claims = IF s \in req[r].marks /\ Live(s) THEN sess[s].claims \ {fac[f].type}
                                      ELSE sess[s].claims
                 /\ sess[s].factor = f => sess'[s].aal = 1
                 /\ sess[s].factor # f => sess'[s].factor = sess[s].factor /\ sess'[s].aal = sess[s].aal
<1>1. SUFFICES ASSUME NEW s \in Sessions
               PROVE  /\ sess'[s] \in SessionRows
                      /\ sess'[s].st = sess[s].st
                      /\ sess'[s].claims = IF s \in req[r].marks /\ Live(s)
                                           THEN sess[s].claims \ {fac[f].type} ELSE sess[s].claims
                      /\ sess[s].factor = f => sess'[s].aal = 1
                      /\ sess[s].factor # f => sess'[s].factor = sess[s].factor /\ sess'[s].aal = sess[s].aal
  BY DEF Downgraded
<1>2. sess[s] \in SessionRows
  BY DEF TypeOK
<1>3. PICK claims : claims = IF s \in req[r].marks /\ Live(s) THEN sess[s].claims \ {fac[f].type}
                             ELSE sess[s].claims
  OBVIOUS
<1>4. claims \in SUBSET FactorTypes
  BY <1>2, <1>3 DEF SessionRows
<1>5. PICK aal : aal = IF sess[s].factor = f THEN 1 ELSE sess[s].aal
  OBVIOUS
<1>6. PICK left : left = IF sess[s].factor = f THEN None ELSE sess[s].factor
  OBVIOUS
<1>7. aal \in {1, 2} /\ left \in Factors \cup {None}
  BY <1>2, <1>5, <1>6 DEF SessionRows
<1>8. PICK n : n = [sess[s] EXCEPT !.claims = claims, !.aal = aal, !.factor = left]
  OBVIOUS
<1>9. n \in SessionRows /\ n.st = sess[s].st /\ n.claims = claims /\ n.aal = aal /\ n.factor = left
  BY <1>2, <1>4, <1>7, <1>8 DEF SessionRows
<1>10. sess'[s] = n
  BY <1>3, <1>5, <1>6, <1>8 DEF Downgraded
<1> HIDE DEF SessionRows
<1> QED
  BY <1>3, <1>5, <1>6, <1>9, <1>10

LEMMA RemovalTypes ==
    ASSUME TypeOK, NEW r \in Requests, DowngradeAndDeleteFactor(r)
    PROVE  Typed
<1>1. PICK f \in Factors : f = req[r].f /\ fac[f].st # "none" /\ fac[f].type \in FactorTypes
  BY DEF DowngradeAndDeleteFactor, TypeOK, Named
<1>2. /\ sess' = Downgraded(r) /\ Finish(r)
      /\ fac' = [fac EXCEPT ![f].st = "gone"]
      /\ chal' = [c \in Challenges |-> IF chal[c].f = f THEN [chal[c] EXCEPT !.st = "gone"] ELSE chal[c]]
      /\ UNCHANGED <<conf, acct, tries, pass, hand, spray, keys, events>>
  BY <1>1 DEF DowngradeAndDeleteFactor
<1>3. sess' \in [Sessions -> SessionRows]
  BY <1>1, <1>2, SessionsDowngraded
<1>4. fac' \in [Factors -> FactorRows]
      /\ \A g \in Factors : fac'[g].type = fac[g].type /\ (fac[g].st # "none" <=> fac'[g].st # "none")
  <2>1. PICK n : n = [fac[f] EXCEPT !.st = "gone"]
    OBVIOUS
  <2>2. n \in FactorRows /\ n.st = "gone" /\ n.type = fac[f].type
    BY <2>1 DEF TypeOK, FactorRows
  <2>3. fac' = [fac EXCEPT ![f] = n]
    BY <1>2, <2>1
  <2> QED
    BY <1>1, <2>2, <2>3 DEF TypeOK
<1>5. chal' \in [Challenges -> ChallengeRows]
  BY <1>2 DEF TypeOK, ChallengeRows
<1>6. Stay /\ \A g \in Factors : fac'[g].st # "none" => fac'[g].type \in FactorTypes
  BY <1>2, <1>4 DEF Stay, TypeOK
<1>7. req' \in [Requests -> Standings] /\ Only(req, req', Requests, r) /\ Named(req[r])'
  BY <1>2, Finished, IdleTyped DEF TypeOK, Named
<1> QED
  BY <1>2, <1>3, <1>4, <1>5, <1>6, <1>7, TypeMoves DEF TypeOK

LEMMA NumberTypes ==
    ASSUME TypeOK, NEW f \in Factors, AdminUpdateFactor(f)
    PROVE  Typed
<1>1. /\ fac' = [fac EXCEPT ![f].num = 1 - fac[f].num]
      /\ UNCHANGED <<conf, acct, sess, chal, tries, pass, hand, spray, keys, req>>
  BY DEF AdminUpdateFactor
<1>2. fac[f] \in FactorRows /\ 1 - fac[f].num \in {0, 1}
  BY DEF TypeOK, FactorRows
<1>3. PICK n : n = [fac[f] EXCEPT !.num = 1 - fac[f].num]
  OBVIOUS
<1>4. n \in FactorRows /\ n.st = fac[f].st /\ n.type = fac[f].type
  BY <1>2, <1>3 DEF FactorRows
<1>5. fac' = [fac EXCEPT ![f] = n]
  BY <1>1, <1>3
<1>6. fac' \in [Factors -> FactorRows] /\ Stay
      /\ \A g \in Factors : fac'[g].st # "none" => fac'[g].type \in FactorTypes
  BY <1>1, <1>4, <1>5 DEF Stay, TypeOK
<1>7. events' \in Nat
  BY EventTyped DEF AdminUpdateFactor
<1> QED
  BY <1>1, <1>6, <1>7, TypeMoves DEF TypeOK

\* A challenge that is used up is there no more, nor are expired ones that
\* are purged.
LEMMA ChallengePut ==
    ASSUME TypeOK, NEW c \in Challenges, NEW kind \in {"registration", "authentication"},
           InsertPasskeyChallenge(c, kind)
    PROVE  /\ chal' \in [Challenges -> ChallengeRows]
           /\ chal'[c].st = "open" /\ chal'[c].grants = 0 /\ chal[c].st = "none"
           /\ \A d \in Challenges : d # c => /\ chal'[d].grants = chal[d].grants
                                             /\ chal'[d].st = chal[d].st \/ chal'[d].st = "gone"
<1>1. PICK n : n = [NoChallenge EXCEPT !.st = "open", !.kind = kind]
  OBVIOUS
<1>2. n \in ChallengeRows /\ n.st = "open" /\ n.grants = 0
  BY <1>1 DEF NoChallenge, ChallengeRows
<1>3. chal[c].st = "none"
      /\ chal' = [d \in Challenges |->
            IF d = c THEN n
            ELSE IF chal[d].f = None /\ chal[d].old THEN [chal[d] EXCEPT !.st = "gone"] ELSE chal[d]]
  BY <1>1 DEF InsertPasskeyChallenge
<1>4. \A d \in Challenges :
         LET m == [chal[d] EXCEPT !.st = "gone"]
         IN  m \in ChallengeRows /\ m.st = "gone" /\ m.grants = chal[d].grants
  BY DEF TypeOK, ChallengeRows
<1>5. chal \in [Challenges -> ChallengeRows]
  BY DEF TypeOK
<1> HIDE DEF ChallengeRows
<1> QED
  BY <1>2, <1>3, <1>4, <1>5

LEMMA ChallengeUsed ==
    ASSUME TypeOK, NEW c \in Challenges, NEW kind, ConsumePasskeyChallenge(c, kind)
    PROVE  /\ chal' \in [Challenges -> ChallengeRows] /\ Only(chal, chal', Challenges, c)
           /\ chal[c].st = "open" /\ chal'[c].st = "gone" /\ chal'[c].grants = chal[c].grants
<1>1. PICK n : n = [chal[c] EXCEPT !.st = "gone"]
  OBVIOUS
<1>2. n \in ChallengeRows /\ n.st = "gone" /\ n.grants = chal[c].grants
  BY <1>1 DEF TypeOK, ChallengeRows
<1>3. chal' = [chal EXCEPT ![c] = n] /\ chal[c].st = "open"
  BY <1>1 DEF ConsumePasskeyChallenge
<1> QED
  BY <1>2, <1>3 DEF TypeOK, Only

LEMMA SessionGranted ==
    ASSUME TypeOK, NEW r \in Requests, NEW s \in Sessions, GrantPasskeySession(r, s)
    PROVE  /\ req[r].c \in Challenges
           /\ chal' \in [Challenges -> ChallengeRows] /\ Only(chal, chal', Challenges, req[r].c)
           /\ chal'[req[r].c].grants = chal[req[r].c].grants + 1
           /\ chal'[req[r].c].st = chal[req[r].c].st
<1>1. PICK c \in Challenges : c = req[r].c
  BY DEF GrantPasskeySession, TypeOK, Named
<1>2. chal[c] \in ChallengeRows
  BY DEF TypeOK
<1>3. PICK n : n = [chal[c] EXCEPT !.grants = chal[c].grants + 1]
  OBVIOUS
<1>4. n \in ChallengeRows /\ n.st = chal[c].st /\ n.grants = chal[c].grants + 1
  BY <1>2, <1>3 DEF ChallengeRows
<1>5. chal' = [chal EXCEPT ![c] = n]
  BY <1>1, <1>3 DEF GrantPasskeySession
<1> QED
  BY <1>1, <1>4, <1>5 DEF TypeOK, Only

LEMMA PasskeyTypes ==
    ASSUME TypeOK,
           \/ \E r \in Requests : PasskeyStep(r)
           \/ \E c \in Challenges : PasskeyAuthenticationOptions(c)
           \/ \E c \in Challenges, s \in Sessions : PasskeyRegistrationOptions(s, c)
           \/ \E p \in Passkeys : AdminPasskeyDelete(p)
           \/ \E p \in Passkeys, s \in Sessions : PasskeyDelete(s, p)
    PROVE  Typed
<1>1. ASSUME NEW c \in Challenges,
             PasskeyAuthenticationOptions(c) \/ \E s \in Sessions : PasskeyRegistrationOptions(s, c)
      PROVE  Typed
  <2>1. /\ chal' \in [Challenges -> ChallengeRows] /\ events' \in Nat
        /\ UNCHANGED <<conf, acct, sess, fac, tries, pass, hand, spray, keys, req>>
    BY <1>1, ChallengePut, EventTyped DEF PasskeyAuthenticationOptions, PasskeyRegistrationOptions
  <2> QED
    BY <2>1, NothingGoes, TypeMoves DEF TypeOK
<1>2. ASSUME NEW r \in Requests, NEW c \in Challenges,
             \/ \E s \in Sessions : PasskeyRegistrationVerify(r, s, c)
             \/ \E p \in Passkeys : PasskeyAuthenticationVerify(r, c, p)
      PROVE  Typed
  <2>1. /\ chal' \in [Challenges -> ChallengeRows] /\ events' \in Nat
        /\ UNCHANGED <<conf, acct, sess, fac, tries, pass, hand, spray, keys>>
    BY <1>2, ChallengeUsed, EventTyped DEF PasskeyRegistrationVerify, PasskeyAuthenticationVerify
  <2>2. CASE req' = req
    BY <2>1, <2>2, NothingGoes, TypeMoves DEF TypeOK
  <2>3. CASE \E s \in Sessions : Begin(r, [Idle EXCEPT !.pc = "attested", !.s = s, !.c = c])
    <3>1. PICK s \in Sessions : Begin(r, [Idle EXCEPT !.pc = "attested", !.s = s, !.c = c])
      BY <2>3
    <3>2. PICK q : q = [Idle EXCEPT !.pc = "attested", !.s = s, !.c = c]
      OBVIOUS
    <3>3. q \in Standings /\ q.pc = "attested"
      BY <3>2 DEF Idle, Standings
    <3>4. req' \in [Requests -> Standings] /\ req'[r] = q /\ Only(req, req', Requests, r)
      BY <3>1, <3>2, <3>3, Begun
    <3>5. Named(req[r])'
      BY <3>3, <3>4 DEF Named
    <3> QED
      BY <2>1, <3>4, <3>5, NothingGoes, TypeMoves DEF TypeOK
  <2>4. CASE Begin(r, [Idle EXCEPT !.pc = "asserted", !.c = c])
    <3>2. PICK q : q = [Idle EXCEPT !.pc = "asserted", !.c = c]
      OBVIOUS
    <3>3. q \in Standings /\ q.pc = "asserted" /\ q.c = c
      BY <3>2 DEF Idle, Standings
    <3>4. req' \in [Requests -> Standings] /\ req'[r] = q /\ Only(req, req', Requests, r)
      BY <2>4, <3>2, <3>3, Begun
    <3>5. Named(req[r])'
      BY <3>3, <3>4 DEF Named
    <3> QED
      BY <2>1, <3>4, <3>5, NothingGoes, TypeMoves DEF TypeOK
  <2> QED
    BY <1>2, <2>2, <2>3, <2>4 DEF PasskeyRegistrationVerify, PasskeyAuthenticationVerify
<1>3. ASSUME NEW r \in Requests, CountPasskeys(r) PROVE Typed
  <2>1. UNCHANGED <<conf, acct, sess, fac, chal, tries, pass, hand, spray, keys, events>>
        /\ (Go(r, "counted") \/ Finish(r))
    BY <1>3 DEF CountPasskeys
  <2>2. CASE Go(r, "counted")
    <3>1. /\ req' \in [Requests -> Standings] /\ Only(req, req', Requests, r)
          /\ req'[r] = [req[r] EXCEPT !.pc = "counted"]
      BY <2>2, Gone DEF TypeOK
    <3>2. Named(req[r])'
      BY <3>1 DEF Named, TypeOK, Standings
    <3> QED
      BY <2>1, <3>1, <3>2, NothingGoes, TypeMoves DEF TypeOK
  <2>3. CASE Finish(r)
    <3>1. req' \in [Requests -> Standings] /\ Only(req, req', Requests, r) /\ Named(req[r])'
      BY <2>3, Finished, IdleTyped DEF TypeOK, Named
    <3> QED
      BY <2>1, <3>1, NothingGoes, TypeMoves DEF TypeOK
  <2> QED
    BY <2>1, <2>2, <2>3
<1>4. ASSUME NEW r \in Requests, NEW p \in Passkeys, InsertPasskey(r, p) PROVE Typed
  <2>1. /\ pass' \in SUBSET Passkeys /\ Finish(r)
        /\ UNCHANGED <<conf, acct, sess, fac, chal, tries, hand, spray, keys, events>>
    BY <1>4 DEF InsertPasskey, TypeOK
  <2>2. req' \in [Requests -> Standings] /\ Only(req, req', Requests, r) /\ Named(req[r])'
    BY <2>1, Finished, IdleTyped DEF TypeOK, Named
  <2> QED
    BY <2>1, <2>2, NothingGoes, TypeMoves DEF TypeOK
<1>5. ASSUME NEW r \in Requests, NEW s \in Sessions, GrantPasskeySession(r, s) PROVE Typed
  <2>1. /\ sess' = GrantSession(sess, s) /\ acct' = Touched(acct) /\ Finish(r)
        /\ UNCHANGED <<conf, fac, tries, pass, hand, spray, keys, events>>
    BY <1>5 DEF GrantPasskeySession
  <2>2. /\ sess' \in [Sessions -> SessionRows] /\ acct' \in AccountRows
        /\ chal' \in [Challenges -> ChallengeRows]
    BY <1>5, <2>1, Granted, TouchedTyped, SessionGranted
  <2>3. req' \in [Requests -> Standings] /\ Only(req, req', Requests, r) /\ Named(req[r])'
    BY <2>1, Finished, IdleTyped DEF TypeOK, Named
  <2> QED
    BY <2>1, <2>2, <2>3, NothingGoes, TypeMoves DEF TypeOK
<1>6. ASSUME NEW p \in Passkeys, NEW s \in Sessions \cup {None}, PasskeyDelete(s, p) PROVE Typed
  <2>1. /\ pass' \in SUBSET Passkeys /\ events' \in Nat
        /\ UNCHANGED <<conf, acct, sess, fac, chal, tries, hand, spray, keys, req>>
    BY <1>6, EventTyped DEF PasskeyDelete, TypeOK
  <2> QED
    BY <2>1, NothingGoes, TypeMoves DEF TypeOK
<1> QED
  BY <1>1, <1>2, <1>3, <1>4, <1>5, <1>6 DEF PasskeyStep, AdminPasskeyDelete

\* A handshake starts from a state, in the era of now.
LEMMA HandshakePut ==
    ASSUME TypeOK, NEW h \in Handshakes, NEW state \in HandshakeRows, PutOpaqueState(h, state)
    PROVE  /\ hand' \in [Handshakes -> HandshakeRows] /\ Only(hand, hand', Handshakes, h)
           /\ hand[h].st = "none" /\ hand'[h].st = "open" /\ hand'[h].era = acct.era
           /\ hand'[h].kind = state.kind /\ hand'[h].updated = state.updated /\ hand'[h].version = state.version
<1>1. PICK era \in Nat : era = acct.era
  BY DEF TypeOK, AccountRows
<1>2. PICK n : n = [state EXCEPT !.st = "open", !.era = era]
  OBVIOUS
<1>3. /\ n \in HandshakeRows /\ n.st = "open" /\ n.era = era /\ n.kind = state.kind
      /\ n.updated = state.updated /\ n.version = state.version
  BY <1>2 DEF HandshakeRows
<1>4. hand' = [hand EXCEPT ![h] = n] /\ hand[h].st = "none"
  BY <1>1, <1>2 DEF PutOpaqueState
<1> HIDE DEF HandshakeRows
<1> QED
  BY <1>1, <1>3, <1>4 DEF TypeOK, Only

\* A handshake that is taken is gone, and one request has it, if it was not too old.
LEMMA HandshakeTaken ==
    ASSUME TypeOK, NEW r \in Requests, NEW h \in Handshakes, NEW kind \in {"registration", "signup", "login"},
           TakeOpaqueState(r, h, kind)
    PROVE  /\ hand' \in [Handshakes -> HandshakeRows] /\ Only(hand, hand', Handshakes, h)
           /\ hand[h].st = "open" /\ hand[h].kind = kind /\ hand'[h].st = "gone"
           /\ hand'[h].kind = kind /\ hand'[h].era = hand[h].era /\ hand'[h].version = hand[h].version
           /\ hand'[h].updated = hand[h].updated
           /\ \/ req' = req
              \/ /\ req' \in [Requests -> Standings] /\ Only(req, req', Requests, r)
                 /\ req'[r].pc = kind /\ req'[r].h = h
<1>1. PICK n : n = [hand[h] EXCEPT !.st = "gone"]
  OBVIOUS
<1>2. hand[h].kind = kind /\ hand[h].st = "open" /\ hand' = [hand EXCEPT ![h] = n]
  BY <1>1 DEF TakeOpaqueState
<1>3. /\ n \in HandshakeRows /\ n.st = "gone" /\ n.kind = kind /\ n.era = hand[h].era
      /\ n.version = hand[h].version /\ n.updated = hand[h].updated
  BY <1>1, <1>2 DEF TypeOK, HandshakeRows
<1>4. hand' \in [Handshakes -> HandshakeRows] /\ Only(hand, hand', Handshakes, h) /\ hand'[h] = n
  BY <1>2, <1>3 DEF TypeOK, Only
<1>5. PICK q : q = [Idle EXCEPT !.pc = kind, !.h = h]
  OBVIOUS
<1>6. q \in Standings /\ q.pc = kind /\ q.h = h
  BY <1>5 DEF Idle, Standings
<1>7. req' = req \/ Begin(r, q)
  BY <1>5 DEF TakeOpaqueState
<1>8. \/ req' = req
      \/ /\ req' \in [Requests -> Standings] /\ Only(req, req', Requests, r)
         /\ req'[r].pc = kind /\ req'[r].h = h
  BY <1>6, <1>7, Begun
<1> HIDE DEF HandshakeRows
<1> QED
  BY <1>2, <1>3, <1>4, <1>8

LEMMA StartTypes ==
    ASSUME TypeOK, NEW h \in Handshakes,
           OpaqueSignupStart(h) \/ OpaqueLoginStart(h) \/ \E s \in Sessions : OpaqueRegistrationStart(s, h)
    PROVE  /\ Typed /\ Only(hand, hand', Handshakes, h)
           /\ UNCHANGED <<conf, acct, sess, fac, chal, tries, pass, keys, req>>
           /\ hand[h].st = "none" /\ hand'[h].era = acct.era
           /\ hand'[h].kind = "registration" => hand'[h].updated = acct.updated
           /\ hand'[h].kind = "login" => hand'[h].version = acct.cred
<1>1. acct \in AccountRows /\ spray \in Nat
  BY DEF TypeOK
<1>2. spray' \in Nat /\ events' \in Nat /\ UNCHANGED <<conf, acct, sess, fac, chal, tries, pass, keys, req>>
  <2>1. UNCHANGED <<conf, acct, sess, fac, chal, tries, pass, keys, req>> /\ Event("opaque")
    BY DEF OpaqueSignupStart, OpaqueLoginStart, OpaqueRegistrationStart
  <2>2. spray' = spray \/ spray' = spray + 1
    BY DEF OpaqueSignupStart, OpaqueLoginStart, OpaqueRegistrationStart, OpaqueAttempt
  <2> QED
    BY <1>1, <2>1, <2>2, EventTyped
<1>3. PICK state \in HandshakeRows :
         /\ PutOpaqueState(h, state)
         /\ state.kind = "registration" => state.updated = acct.updated
         /\ state.kind = "login" => state.version = acct.cred
  <2>1. CASE OpaqueSignupStart(h)
    <3>1. PICK n : n = [NoHandshake EXCEPT !.kind = "signup"]
      OBVIOUS
    <3>2. n \in HandshakeRows /\ n.kind = "signup"
      BY <3>1 DEF NoHandshake, HandshakeRows
    <3> QED
      BY <2>1, <3>1, <3>2 DEF OpaqueSignupStart
  <2>2. CASE OpaqueLoginStart(h)
    <3>1. PICK n : n = [NoHandshake EXCEPT !.kind = "login", !.version = acct.cred]
      OBVIOUS
    <3>2. n \in HandshakeRows /\ n.kind = "login" /\ n.version = acct.cred
      BY <1>1, <3>1 DEF NoHandshake, HandshakeRows, AccountRows
    <3> QED
      BY <2>2, <3>1, <3>2 DEF OpaqueLoginStart
  <2>3. ASSUME NEW s \in Sessions, OpaqueRegistrationStart(s, h)
        PROVE  \E n \in HandshakeRows : /\ PutOpaqueState(h, n) /\ n.kind = "registration"
                                        /\ n.updated = acct.updated
    <3>1. PICK n : n = [NoHandshake EXCEPT !.kind = "registration", !.s = s, !.updated = acct.updated,
                                           !.version = acct.cred]
      OBVIOUS
    <3>2. n \in HandshakeRows /\ n.kind = "registration" /\ n.updated = acct.updated
      BY <1>1, <3>1 DEF NoHandshake, HandshakeRows, AccountRows
    <3> QED
      BY <2>3, <3>1, <3>2 DEF OpaqueRegistrationStart
  <2> QED
    BY <2>1, <2>2, <2>3
<1>4. /\ hand' \in [Handshakes -> HandshakeRows] /\ Only(hand, hand', Handshakes, h)
      /\ hand[h].st = "none" /\ hand'[h].era = acct.era
      /\ hand'[h].kind = state.kind /\ hand'[h].updated = state.updated /\ hand'[h].version = state.version
  BY <1>3, HandshakePut
<1>5. Stay
  BY <1>2, <1>4 DEF Stay, Only
<1>6. Typed
  BY <1>2, <1>4, <1>5, TypeMoves DEF TypeOK
<1> QED
  BY <1>2, <1>3, <1>4, <1>6

LEMMA FinishTypes ==
    ASSUME TypeOK, NEW r \in Requests, NEW h \in Handshakes,
           OpaqueRegistrationFinish(r, h) \/ OpaqueSignupFinish(r, h) \/ OpaqueLoginFinish(r, h)
    PROVE  /\ Typed /\ UNCHANGED <<conf, acct, sess, fac, chal, tries, pass, spray, keys>>
           /\ hand[h].st = "open" /\ Only(hand, hand', Handshakes, h)
           /\ hand'[h].st = "gone" /\ hand'[h].kind = hand[h].kind /\ hand'[h].era = hand[h].era
           /\ hand'[h].version = hand[h].version /\ hand'[h].updated = hand[h].updated
           /\ \/ req' = req
              \/ /\ Only(req, req', Requests, r) /\ req'[r].h = h
                 /\ req'[r].pc \in {"registration", "signup", "login"}
                 /\ req'[r].pc = "login" => hand[h].version # 0
<1>1. UNCHANGED <<conf, acct, sess, fac, chal, tries, pass, spray, keys>> /\ events' \in Nat
  BY EventTyped DEF OpaqueRegistrationFinish, OpaqueSignupFinish, OpaqueLoginFinish
<1>2. PICK kind \in {"registration", "signup", "login"} :
         TakeOpaqueState(r, h, kind) /\ (kind = "login" => hand[h].version # 0)
  BY DEF OpaqueRegistrationFinish, OpaqueSignupFinish, OpaqueLoginFinish
<1>3. /\ hand' \in [Handshakes -> HandshakeRows] /\ Only(hand, hand', Handshakes, h)
      /\ hand[h].st = "open" /\ hand[h].kind = kind /\ hand'[h].st = "gone"
      /\ hand'[h].kind = kind /\ hand'[h].era = hand[h].era /\ hand'[h].version = hand[h].version
      /\ hand'[h].updated = hand[h].updated
      /\ \/ req' = req
         \/ /\ req' \in [Requests -> Standings] /\ Only(req, req', Requests, r)
            /\ req'[r].pc = kind /\ req'[r].h = h
  BY <1>2, HandshakeTaken
<1>4. Stay
  BY <1>1, <1>3 DEF Stay, Only
<1>5. req' # req => Named(req[r])'
  BY <1>3 DEF Named
<1>6. Typed
  BY <1>1, <1>3, <1>4, <1>5, TypeMoves DEF TypeOK
<1> QED
  BY <1>1, <1>2, <1>3, <1>6

LEMMA CommitTypes ==
    ASSUME TypeOK, NEW r \in Requests,
           CommitRegistration(r) \/ CommitSignup(r) \/ \E s \in Sessions : CommitLogin(r, s)
    PROVE  Typed
<1>1. Finish(r) /\ UNCHANGED <<conf, fac, chal, tries, pass, hand, spray, events>>
  BY DEF CommitRegistration, CommitSignup, CommitLogin
<1>2. PICK h \in Handshakes : h = req[r].h
  BY DEF CommitRegistration, CommitSignup, CommitLogin, TypeOK, Named
<1>3. acct \in AccountRows /\ conf.autoconfirm \in BOOLEAN
  BY FactorAssumption DEF TypeOK
<1>4. acct' \in AccountRows
  <2>1. CASE CommitRegistration(r)
    <3>1. PICK n : n = [acct EXCEPT !.version = acct.version + 1, !.cred = acct.version + 1, !.by = h]
      OBVIOUS
    <3>2. acct.version + 1 \in Nat
      BY <1>3 DEF AccountRows
    <3>3. n \in AccountRows
      BY <1>3, <3>1, <3>2 DEF AccountRows
    <3> QED
      BY <1>2, <1>3, <2>1, <3>1, <3>3 DEF CommitRegistration
  <2>2. CASE CommitSignup(r)
    <3>1. PICK n : n = [acct EXCEPT !.st = "live", !.ok = conf.autoconfirm, !.version = 1, !.cred = 1, !.by = h]
      OBVIOUS
    <3>2. n \in AccountRows
      BY <1>3, <3>1 DEF AccountRows
    <3> QED
      BY <1>2, <1>3, <2>2, <3>1, <3>2 DEF CommitSignup
  <2>3. CASE \E s \in Sessions : CommitLogin(r, s)
    <3>1. acct' = acct \/ acct' = Touched(acct)
      BY <2>3 DEF CommitLogin
    <3> QED
      BY <1>3, <3>1, TouchedTyped
  <2> QED
    BY <2>1, <2>2, <2>3
<1>5. sess' \in [Sessions -> SessionRows] /\ keys' \in SUBSET [s : Sessions, version : Nat, h : Handshakes]
  <2>1. CASE ~\E s \in Sessions : CommitLogin(r, s)
    BY <2>1 DEF CommitRegistration, CommitSignup, TypeOK
  <2>2. ASSUME NEW s \in Sessions, CommitLogin(r, s)
        PROVE  sess' \in [Sessions -> SessionRows] /\ keys' \in SUBSET [s : Sessions, version : Nat, h : Handshakes]
    <3>1. PICK k : k = [s |-> s, version |-> hand[h].version, h |-> h]
      OBVIOUS
    <3>2. hand[h].version \in Nat
      BY DEF TypeOK, HandshakeRows
    <3>3. k \in [s : Sessions, version : Nat, h : Handshakes]
      BY <3>1, <3>2
    <3>4. \/ sess' = GrantSession(sess, s) /\ keys' = keys \cup {k}
          \/ sess' = sess /\ keys' = keys
      BY <1>2, <2>2, <3>1 DEF CommitLogin
    <3> QED
      BY <3>3, <3>4, Granted DEF TypeOK
  <2> QED
    BY <2>1, <2>2
<1>6. req' \in [Requests -> Standings] /\ Only(req, req', Requests, r) /\ Named(req[r])'
  BY <1>1, Finished, IdleTyped DEF TypeOK, Named
<1> QED
  BY <1>1, <1>4, <1>5, <1>6, NothingGoes, TypeMoves DEF TypeOK

LEMMA TypeStep ==
    ASSUME TypeOK, [Next]_vars
    PROVE  Typed
<1>1. CASE \E r \in Requests : FactorStep(r)
  <2>1. PICK r \in Requests : FactorStep(r)
    BY <1>1
  <2> QED
    BY <2>1, EnrollTypes, InsertTypes, VerifyTypes, CountTypes, FinalizeTypes, UnenrollTypes, MarkTypes,
       RemovalTypes DEF FactorStep, AdminDeleteFactor
<1>2. CASE \E r \in Requests : OpaqueStep(r)
  BY <1>2, FinishTypes, CommitTypes DEF OpaqueStep
<1>3. CASE UNCHANGED vars
  BY <1>3, NothingGoes, TypeMoves DEF vars, TypeOK
<1> QED
  BY <1>1, <1>2, <1>3, AccountTypes, TimeTypes, ChallengeTypes, NumberTypes, PasskeyTypes, StartTypes DEF Next

(* Every variable keeps its type, and a request names what its operation   *)
(* reads and writes: factors and handshakes that were inserted.            *)
THEOREM TypeCorrect == Spec => []TypeOK
<1>1. TypeOK /\ [Next]_vars => TypeOK'
  BY TypeStep DEF Typed
<1> QED
  BY <1>1, TypeStart, PTL DEF Spec

-----------------------------------------------------------------------------
(***************************************************************************)
(* Which steps a request takes to the places the invariants speak of.      *)
(***************************************************************************)

\* No request comes to pc or leaves it.
Aside(pc) == \A r \in Requests : req'[r] = req[r] \/ (req[r].pc # pc /\ req'[r].pc # pc)

LEMMA OneAside ==
    ASSUME NEW r \in Requests, NEW pc, Only(req, req', Requests, r), req[r].pc # pc, req'[r].pc # pc
    PROVE  Aside(pc)
BY DEF Only, Aside

LEMMA NoneAside == ASSUME req' = req, NEW pc PROVE Aside(pc)
BY DEF Aside

\* Where the requests that do not touch these places come from and go to.
LEMMA OtherMoves ==
    ASSUME TypeOK, NEW r \in Requests,
           \/ \E s \in Sessions, type \in FactorTypes : EnrollFactor(r, s, type)
           \/ \E f \in Factors : InsertFactor(r, f)
           \/ FinalizeFactorVerification(r) \/ ClearAttempts(r)
           \/ \E s \in Sessions \cup {None}, f \in Factors : UnenrollFactor(r, s, f)
           \/ \E s \in Sessions, c \in Challenges : PasskeyRegistrationVerify(r, s, c)
           \/ CountPasskeys(r)
           \/ \E p \in Passkeys : InsertPasskey(r, p)
           \/ CommitRegistration(r) \/ CommitSignup(r)
    PROVE  \/ req' = req
           \/ /\ Only(req, req', Requests, r)
              /\ req[r].pc \notin {"failed", "marked", "asserted", "login"}
              /\ req'[r].pc \notin {"failed", "marked", "asserted", "login"}
<1> DEFINE Elsewhere == /\ Only(req, req', Requests, r)
                        /\ req[r].pc \notin {"failed", "marked", "asserted", "login"}
                        /\ req'[r].pc \notin {"failed", "marked", "asserted", "login"}
<1>0. req[r] \in Standings
  BY DEF TypeOK
<1>1. ASSUME Finish(r), req[r].pc \notin {"failed", "marked", "asserted", "login"} PROVE Elsewhere
  BY <1>1, Finished DEF TypeOK
<1>2. ASSUME NEW q, q \in Standings, Begin(r, q), q.pc \notin {"failed", "marked", "asserted", "login"}
      PROVE  Elsewhere
  BY <1>2, Begun DEF Begin
<1>3. ASSUME NEW p \in {"clearing", "counted"}, Go(r, p),
             req[r].pc \notin {"failed", "marked", "asserted", "login"}
      PROVE  Elsewhere
  BY <1>0, <1>3, Gone DEF TypeOK, Standings
<1> HIDE DEF Elsewhere
<1>4. ASSUME NEW s \in Sessions, NEW type \in FactorTypes, EnrollFactor(r, s, type) PROVE Elsewhere
  <2>1. PICK q : q = [Idle EXCEPT !.pc = "enrolling", !.s = s, !.type = type]
    OBVIOUS
  <2>2. q \in Standings /\ q.pc = "enrolling"
    BY <2>1 DEF Idle, Standings
  <2>3. Begin(r, q)
    BY <1>4, <2>1 DEF EnrollFactor
  <2> QED
    BY <1>2, <2>2, <2>3
<1>5. ASSUME NEW f \in Factors, InsertFactor(r, f) PROVE Elsewhere
  BY <1>1, <1>5 DEF InsertFactor
<1>6. ASSUME FinalizeFactorVerification(r) PROVE Elsewhere
  <2>1. req[r].pc = "verified" /\ (Go(r, "clearing") \/ Finish(r))
    BY <1>6 DEF FinalizeFactorVerification
  <2> QED
    BY <1>1, <1>3, <2>1
<1>7. ASSUME ClearAttempts(r) PROVE Elsewhere
  BY <1>1, <1>7 DEF ClearAttempts
<1>8. ASSUME NEW s \in Sessions \cup {None}, NEW f \in Factors, UnenrollFactor(r, s, f) PROVE Elsewhere
  <2>1. PICK q : q = [Idle EXCEPT !.pc = "unenrolling", !.s = s, !.f = f]
    OBVIOUS
  <2>2. q \in Standings /\ q.pc = "unenrolling"
    BY <2>1 DEF Idle, Standings
  <2>3. Begin(r, q)
    BY <1>8, <2>1 DEF UnenrollFactor
  <2> QED
    BY <1>2, <2>2, <2>3
<1>9. ASSUME NEW s \in Sessions, NEW c \in Challenges, PasskeyRegistrationVerify(r, s, c)
      PROVE  req' = req \/ Elsewhere
  <2>1. PICK q : q = [Idle EXCEPT !.pc = "attested", !.s = s, !.c = c]
    OBVIOUS
  <2>2. q \in Standings /\ q.pc = "attested"
    BY <2>1 DEF Idle, Standings
  <2>3. req' = req \/ Begin(r, q)
    BY <1>9, <2>1 DEF PasskeyRegistrationVerify
  <2> QED
    BY <1>2, <2>2, <2>3
<1>10. ASSUME CountPasskeys(r) PROVE Elsewhere
  <2>1. req[r].pc = "attested" /\ (Go(r, "counted") \/ Finish(r))
    BY <1>10 DEF CountPasskeys
  <2> QED
    BY <1>1, <1>3, <2>1
<1>11. ASSUME NEW p \in Passkeys, InsertPasskey(r, p) PROVE Elsewhere
  BY <1>1, <1>11 DEF InsertPasskey
<1>12. ASSUME CommitRegistration(r) \/ CommitSignup(r) PROVE Elsewhere
  BY <1>1, <1>12 DEF CommitRegistration, CommitSignup
<1>13. req' = req \/ Elsewhere
  BY <1>4, <1>5, <1>6, <1>7, <1>8, <1>9, <1>10, <1>11, <1>12
<1> QED
  BY <1>13 DEF Elsewhere

\* ... and the steps that do.
LEMMA Moves ==
    ASSUME TypeOK, [Next]_vars
    PROVE  /\ \/ Aside("failed")
              \/ \E r \in Requests : RecordFailure(r)
              \/ \E r \in Requests, s \in Sessions, f \in Factors, c \in Challenges, right \in BOOLEAN :
                    VerifyFactor(r, s, f, c, right)
           /\ \/ Aside("marked")
              \/ \E r \in Requests : DeleteAMRClaims(r) \/ DowngradeAndDeleteFactor(r)
           /\ \/ Aside("asserted")
              \/ \E r \in Requests, c \in Challenges, p \in Passkeys : PasskeyAuthenticationVerify(r, c, p)
              \/ \E r \in Requests, s \in Sessions : GrantPasskeySession(r, s)
           /\ \/ Aside("login")
              \/ \E r \in Requests, h \in Handshakes : OpaqueLoginFinish(r, h)
              \/ \E r \in Requests, s \in Sessions : CommitLogin(r, s)
<1> DEFINE Quiet == Aside("failed") /\ Aside("marked") /\ Aside("asserted") /\ Aside("login")
<1>1. ASSUME req' = req PROVE Quiet
  BY <1>1, NoneAside
<1>2. ASSUME NEW r \in Requests, Only(req, req', Requests, r),
             req[r].pc \notin {"failed", "marked", "asserted", "login"},
             req'[r].pc \notin {"failed", "marked", "asserted", "login"}
      PROVE  Quiet
  BY <1>2, OneAside
<1>3. ASSUME NEW r \in Requests,
             \/ \E s \in Sessions, type \in FactorTypes : EnrollFactor(r, s, type)
             \/ \E f \in Factors : InsertFactor(r, f)
             \/ FinalizeFactorVerification(r) \/ ClearAttempts(r)
             \/ \E s \in Sessions \cup {None}, f \in Factors : UnenrollFactor(r, s, f)
             \/ \E s \in Sessions, c \in Challenges : PasskeyRegistrationVerify(r, s, c)
             \/ CountPasskeys(r)
             \/ \E p \in Passkeys : InsertPasskey(r, p)
             \/ CommitRegistration(r) \/ CommitSignup(r)
      PROVE  Quiet
  BY <1>1, <1>2, <1>3, OtherMoves
<1>4. ASSUME NEW r \in Requests, NEW s \in Sessions, NEW f \in Factors, NEW c \in Challenges, NEW right \in BOOLEAN,
             VerifyFactor(r, s, f, c, right)
      PROVE  Aside("marked") /\ Aside("asserted") /\ Aside("login")
  <2>1. PICK recorded \in BOOLEAN : recorded = (tries[f].n > 0)
    <3>1. (tries[f].n > 0) \in BOOLEAN
      BY SMT DEF TypeOK, Counts
    <3> QED
      BY <3>1
  <2>2. PICK q : q = [Idle EXCEPT !.pc = IF right THEN "verified" ELSE "failed", !.s = s, !.f = f,
                                  !.c = c, !.recorded = recorded]
    OBVIOUS
  <2>3. q \in Standings /\ q.pc \in {"verified", "failed"}
    BY <2>2 DEF Idle, Standings
  <2>4. req' = req \/ Begin(r, q)
    BY <1>4, <2>1, <2>2 DEF VerifyFactor
  <2>5. CASE req' = req
    BY <2>5, NoneAside
  <2>6. CASE Begin(r, q)
    <3>1. Only(req, req', Requests, r) /\ req'[r] = q /\ req[r].pc = "idle"
      BY <2>3, <2>6, Begun DEF Begin
    <3> QED
      BY <2>3, <3>1, OneAside
  <2> QED
    BY <2>4, <2>5, <2>6
<1>5. ASSUME NEW r \in Requests, RecordFailure(r) PROVE Aside("marked") /\ Aside("asserted") /\ Aside("login")
  <2>1. Only(req, req', Requests, r) /\ req'[r].pc = "idle" /\ req[r].pc = "failed"
    BY <1>5, Finished DEF RecordFailure, TypeOK
  <2> QED
    BY <2>1, OneAside
<1>6. ASSUME NEW r \in Requests, DeleteAMRClaims(r) PROVE Aside("failed") /\ Aside("asserted") /\ Aside("login")
  <2>1. PICK marks : marks = {s \in Sessions : Live(s) /\ sess[s].factor = req[r].f}
    OBVIOUS
  <2>2. PICK q : q = [req[r] EXCEPT !.pc = "marked", !.marks = marks]
    OBVIOUS
  <2>3. q.pc = "marked" /\ req[r].pc = "unenrolling"
    BY <1>6, <2>2 DEF DeleteAMRClaims, TypeOK, Standings
  <2>4. req' = [req EXCEPT ![r] = q]
    BY <1>6, <2>1, <2>2 DEF DeleteAMRClaims, TypeOK
  <2>5. Only(req, req', Requests, r) /\ req'[r] = q
    BY <2>4 DEF Only, TypeOK
  <2> QED
    BY <2>3, <2>5, OneAside
<1>7. ASSUME NEW r \in Requests, DowngradeAndDeleteFactor(r)
      PROVE  Aside("failed") /\ Aside("asserted") /\ Aside("login")
  <2>1. Only(req, req', Requests, r) /\ req'[r].pc = "idle" /\ req[r].pc = "marked"
    BY <1>7, Finished DEF DowngradeAndDeleteFactor, TypeOK
  <2> QED
    BY <2>1, OneAside
<1>8. ASSUME NEW r \in Requests, NEW c \in Challenges, NEW p \in Passkeys, PasskeyAuthenticationVerify(r, c, p)
      PROVE  Aside("failed") /\ Aside("marked") /\ Aside("login")
  <2>1. PICK q : q = [Idle EXCEPT !.pc = "asserted", !.c = c]
    OBVIOUS
  <2>2. q \in Standings /\ q.pc = "asserted"
    BY <2>1 DEF Idle, Standings
  <2>3. req' = req \/ Begin(r, q)
    BY <1>8, <2>1 DEF PasskeyAuthenticationVerify
  <2>4. CASE req' = req
    BY <2>4, NoneAside
  <2>5. CASE Begin(r, q)
    <3>1. Only(req, req', Requests, r) /\ req'[r] = q /\ req[r].pc = "idle"
      BY <2>2, <2>5, Begun DEF Begin
    <3> QED
      BY <2>2, <3>1, OneAside
  <2> QED
    BY <2>3, <2>4, <2>5
<1>9. ASSUME NEW r \in Requests, NEW s \in Sessions, GrantPasskeySession(r, s)
      PROVE  Aside("failed") /\ Aside("marked") /\ Aside("login")
  <2>1. Only(req, req', Requests, r) /\ req'[r].pc = "idle" /\ req[r].pc = "asserted"
    BY <1>9, Finished DEF GrantPasskeySession, TypeOK
  <2> QED
    BY <2>1, OneAside
<1>10. ASSUME NEW r \in Requests, NEW h \in Handshakes, NEW kind \in {"registration", "signup", "login"},
              TakeOpaqueState(r, h, kind)
       PROVE  /\ Aside("failed") /\ Aside("marked") /\ Aside("asserted")
              /\ kind # "login" => Aside("login")
  <2>1. \/ req' = req
        \/ Only(req, req', Requests, r) /\ req'[r].pc = kind /\ req[r].pc = "idle"
    <3>1. req' = req \/ (Only(req, req', Requests, r) /\ req'[r].pc = kind)
      BY <1>10, HandshakeTaken
    <3>2. req' = req \/ req[r].pc = "idle"
      BY <1>10 DEF TakeOpaqueState, Begin
    <3> QED
      BY <3>1, <3>2
  <2>2. CASE req' = req
    BY <2>2, NoneAside
  <2>3. CASE Only(req, req', Requests, r) /\ req'[r].pc = kind /\ req[r].pc = "idle"
    BY <2>3, OneAside
  <2> QED
    BY <2>1, <2>2, <2>3
<1>11. ASSUME NEW r \in Requests, NEW s \in Sessions, CommitLogin(r, s)
       PROVE  Aside("failed") /\ Aside("marked") /\ Aside("asserted")
  <2>1. Only(req, req', Requests, r) /\ req'[r].pc = "idle" /\ req[r].pc = "login"
    BY <1>11, Finished DEF CommitLogin, TypeOK
  <2> QED
    BY <2>1, OneAside
<1>12. ASSUME NEW r \in Requests, NEW h \in Handshakes, OpaqueRegistrationFinish(r, h) \/ OpaqueSignupFinish(r, h)
       PROVE  Quiet
  BY <1>10, <1>12 DEF OpaqueRegistrationFinish, OpaqueSignupFinish
<1>13. ASSUME NEW r \in Requests, NEW h \in Handshakes, OpaqueLoginFinish(r, h)
       PROVE  Aside("failed") /\ Aside("marked") /\ Aside("asserted")
  BY <1>10, <1>13 DEF OpaqueLoginFinish
<1>14. CASE \E r \in Requests : FactorStep(r)
  BY <1>3, <1>4, <1>5, <1>6, <1>7, <1>14 DEF FactorStep, AdminDeleteFactor
<1>15. CASE \E r \in Requests : PasskeyStep(r)
  BY <1>3, <1>8, <1>9, <1>15 DEF PasskeyStep
<1>16. CASE \E r \in Requests : OpaqueStep(r)
  BY <1>3, <1>11, <1>12, <1>13, <1>16 DEF OpaqueStep
<1>17. CASE ~\E r \in Requests : FactorStep(r) \/ PasskeyStep(r) \/ OpaqueStep(r)
  <2>1. req' = req
    BY <1>17 DEF Next, vars, SignIn, UpdatePassword, SoftDeleteUser, Confirm, TimePasses, ChallengeFactor,
       AdminUpdateFactor, PasskeyAuthenticationOptions, PasskeyRegistrationOptions, AdminPasskeyDelete,
       PasskeyDelete, OpaqueSignupStart, OpaqueLoginStart, OpaqueRegistrationStart
  <2> QED
    BY <1>1, <2>1
<1> QED
  BY <1>14, <1>15, <1>16, <1>17

-----------------------------------------------------------------------------
(***************************************************************************)
(* Passkeys: a challenge is answered once.                                 *)
(***************************************************************************)

\* No challenge comes back, and none is paid for.
ChallengesAge ==
    \A c \in Challenges : /\ chal'[c].grants = chal[c].grants
                          /\ chal[c].st = "gone" => chal'[c].st = "gone"
                          /\ chal'[c].st \in {"none", "open"} => chal[c].st \in {"none", "open"}

LEMMA Aging ==
    ASSUME TypeOK, [Next]_vars, AnswerInv
    PROVE  ChallengesAge \/ \E r \in Requests, s \in Sessions : GrantPasskeySession(r, s)
<1>1. ASSUME chal' = chal PROVE ChallengesAge
  BY <1>1 DEF ChallengesAge
<1>2. ASSUME NEW long \in BOOLEAN, TimePasses(long) PROVE ChallengesAge
  <2>1. chal' = [c \in Challenges |-> [chal[c] EXCEPT !.old = chal[c].st # "none"]]
    BY <1>2 DEF TimePasses
  <2>2. \A c \in Challenges : chal'[c].st = chal[c].st /\ chal'[c].grants = chal[c].grants
    BY <2>1 DEF TypeOK, ChallengeRows
  <2> QED
    BY <2>2 DEF ChallengesAge
<1>3. ASSUME NEW s \in Sessions, NEW f \in Factors, NEW c \in Challenges, ChallengeFactor(s, f, c)
      PROVE  ChallengesAge
  <2>1. PICK n : n = [NoChallenge EXCEPT !.st = "open", !.f = f, !.num = fac[f].num, !.kind = Ceremony(f)]
    OBVIOUS
  <2>2. n.st = "open" /\ n.grants = 0
    BY <2>1 DEF NoChallenge
  <2>3. chal' = [chal EXCEPT ![c] = n] /\ chal[c].st = "none"
    BY <1>3, <2>1 DEF ChallengeFactor
  <2> QED
    BY <2>2, <2>3 DEF ChallengesAge, AnswerInv, TypeOK
<1>4. ASSUME NEW r \in Requests, NEW s \in Sessions, NEW f \in Factors, NEW c \in Challenges, NEW right \in BOOLEAN,
             VerifyFactor(r, s, f, c, right)
      PROVE  ChallengesAge
  <2>1. PICK n : n = [chal[c] EXCEPT !.st = "gone"]
    OBVIOUS
  <2>2. n.st = "gone" /\ n.grants = chal[c].grants
    BY <2>1 DEF TypeOK, ChallengeRows
  <2>3. chal' = chal \/ chal' = [chal EXCEPT ![c] = n]
    BY <1>4, <2>1 DEF VerifyFactor
  <2> QED
    BY <1>1, <2>2, <2>3 DEF ChallengesAge, TypeOK
<1>5. ASSUME NEW r \in Requests, FinalizeFactorVerification(r) PROVE ChallengesAge
  <2>1. PICK c \in Challenges : c = req[r].c
    BY <1>5 DEF FinalizeFactorVerification, TypeOK, Named
  <2>2. PICK n : n = [chal[c] EXCEPT !.st = IF chal[c].st = "gone" THEN chal[c].st ELSE "used"]
    OBVIOUS
  <2>3. n.st \in {"gone", "used"} /\ n.grants = chal[c].grants /\ (chal[c].st = "gone" => n.st = "gone")
    BY <2>2 DEF TypeOK, ChallengeRows
  <2>4. chal' = chal \/ chal' = [chal EXCEPT ![c] = n]
    BY <1>5, <2>1, <2>2 DEF FinalizeFactorVerification
  <2> QED
    BY <1>1, <2>3, <2>4 DEF ChallengesAge, TypeOK
<1>6. ASSUME NEW r \in Requests, DowngradeAndDeleteFactor(r) PROVE ChallengesAge
  <2>1. chal' = [c \in Challenges |-> IF chal[c].f = req[r].f THEN [chal[c] EXCEPT !.st = "gone"] ELSE chal[c]]
    BY <1>6 DEF DowngradeAndDeleteFactor
  <2>2. \A c \in Challenges : chal'[c].grants = chal[c].grants /\ chal'[c].st \in {chal[c].st, "gone"}
    BY <2>1 DEF TypeOK, ChallengeRows
  <2> QED
    BY <2>2 DEF ChallengesAge
<1>7. ASSUME NEW c \in Challenges,
             PasskeyAuthenticationOptions(c) \/ \E s \in Sessions : PasskeyRegistrationOptions(s, c)
      PROVE  ChallengesAge
  <2>1. PICK kind \in {"registration", "authentication"} : InsertPasskeyChallenge(c, kind)
    BY <1>7 DEF PasskeyAuthenticationOptions, PasskeyRegistrationOptions
  <2>2. /\ chal'[c].st = "open" /\ chal'[c].grants = 0 /\ chal[c].st = "none"
        /\ \A d \in Challenges : d # c => /\ chal'[d].grants = chal[d].grants
                                          /\ chal'[d].st = chal[d].st \/ chal'[d].st = "gone"
    BY <2>1, ChallengePut
  <2>3. chal[c].grants = 0
    BY <2>2 DEF AnswerInv
  <2> QED
    BY <2>2, <2>3 DEF ChallengesAge
<1>8. ASSUME NEW c \in Challenges, NEW kind, ConsumePasskeyChallenge(c, kind) PROVE ChallengesAge
  BY <1>8, ChallengeUsed DEF ChallengesAge, Only
<1>9. CASE \E r \in Requests : FactorStep(r)
  BY <1>1, <1>4, <1>5, <1>6, <1>9 DEF FactorStep, EnrollFactor, InsertFactor, RecordFailure, ClearAttempts,
     UnenrollFactor, AdminDeleteFactor, DeleteAMRClaims
<1>10. CASE \E r \in Requests : PasskeyStep(r)
  BY <1>1, <1>8, <1>10 DEF PasskeyStep, PasskeyRegistrationVerify, CountPasskeys, InsertPasskey,
     PasskeyAuthenticationVerify
<1>11. CASE \E r \in Requests : OpaqueStep(r)
  BY <1>1, <1>11 DEF OpaqueStep, OpaqueRegistrationFinish, OpaqueSignupFinish, OpaqueLoginFinish,
     CommitRegistration, CommitSignup, CommitLogin
<1>12. CASE ~\E r \in Requests : FactorStep(r) \/ PasskeyStep(r) \/ OpaqueStep(r)
  BY <1>1, <1>2, <1>3, <1>7, <1>12 DEF Next, vars, SignIn, UpdatePassword, SoftDeleteUser, Confirm,
     AdminUpdateFactor, AdminPasskeyDelete, PasskeyDelete, OpaqueSignupStart, OpaqueLoginStart,
     OpaqueRegistrationStart
<1> QED
  BY <1>9, <1>10, <1>11, <1>12

LEMMA AnswersKeep ==
    ASSUME TypeOK, AnswerInv, ChallengesAge, Aside("asserted")
    PROVE  AnswerInv'
<1>1. \A c \in Challenges : chal'[c].st \in {"none", "open"} => chal'[c].grants = 0
  BY DEF ChallengesAge, AnswerInv
<1>2. \A r \in Requests : req'[r].pc = "asserted" =>
         req[r].pc = "asserted" /\ req'[r] = req[r] /\ req[r].c \in Challenges
  BY DEF Aside, TypeOK, Named
<1> QED
  BY <1>1, <1>2 DEF ChallengesAge, AnswerInv

LEMMA AnswerStep ==
    ASSUME TypeOK, AnswerInv, [Next]_vars
    PROVE  AnswerInv'
<1>1. ASSUME NEW r \in Requests, NEW c \in Challenges, NEW p \in Passkeys, PasskeyAuthenticationVerify(r, c, p)
      PROVE  AnswerInv'
  <2>1. /\ Only(chal, chal', Challenges, c)
        /\ chal[c].st = "open" /\ chal'[c].st = "gone" /\ chal'[c].grants = chal[c].grants
    BY <1>1, ChallengeUsed DEF PasskeyAuthenticationVerify
  <2>2. ChallengesAge
    BY <2>1 DEF ChallengesAge, Only
  <2>3. CASE req' = req
    BY <2>2, <2>3, AnswersKeep, NoneAside
  <2>4. CASE Begin(r, [Idle EXCEPT !.pc = "asserted", !.c = c])
    <3>1. PICK q : q = [Idle EXCEPT !.pc = "asserted", !.c = c]
      OBVIOUS
    <3>2. q \in Standings /\ q.pc = "asserted" /\ q.c = c
      BY <3>1 DEF Idle, Standings
    <3>3. Only(req, req', Requests, r) /\ req'[r] = q
      BY <2>4, <3>1, <3>2, Begun
    <3>4. \A x \in Requests : x # r => req'[x] = req[x]
      BY <3>3 DEF Only
    <3>5. \A x \in Requests : req[x].pc = "asserted" => req[x].c \in Challenges /\ req[x].c # c
      BY <2>1 DEF AnswerInv, TypeOK, Named
    <3>6. chal[c].grants = 0
      BY <2>1 DEF AnswerInv
    <3>7. \A d \in Challenges : chal'[d].st \in {"none", "open"} => chal'[d].grants = 0
      BY <2>2 DEF ChallengesAge, AnswerInv
    <3>8. ASSUME NEW x \in Requests, req'[x].pc = "asserted"
          PROVE  chal'[req'[x].c].st = "gone" /\ chal'[req'[x].c].grants = 0
      BY <2>1, <2>2, <3>2, <3>3, <3>4, <3>5, <3>6, <3>8 DEF AnswerInv, ChallengesAge
    <3>9. ASSUME NEW x \in Requests, NEW y \in Requests, req'[x].pc = "asserted", req'[y].pc = "asserted",
                 req'[x].c = req'[y].c
          PROVE  x = y
      BY <3>2, <3>3, <3>4, <3>5, <3>9 DEF AnswerInv
    <3> QED
      BY <3>7, <3>8, <3>9 DEF AnswerInv
  <2> QED
    BY <1>1, <2>3, <2>4 DEF PasskeyAuthenticationVerify
<1>2. ASSUME NEW r \in Requests, NEW s \in Sessions, GrantPasskeySession(r, s) PROVE AnswerInv'
  <2>1. PICK c \in Challenges : c = req[r].c
    BY <1>2, SessionGranted
  <2>2. /\ Only(chal, chal', Challenges, c)
        /\ chal'[c].grants = chal[c].grants + 1 /\ chal'[c].st = chal[c].st
    BY <1>2, <2>1, SessionGranted
  <2>3. req[r].pc = "asserted" /\ Only(req, req', Requests, r) /\ req'[r].pc = "idle"
    BY <1>2, Finished DEF GrantPasskeySession, TypeOK
  <2>4. chal[c].st = "gone"
    BY <2>1, <2>3 DEF AnswerInv
  <2>5. \A x \in Requests : req'[x].pc = "asserted" =>
           req[x].pc = "asserted" /\ req'[x] = req[x] /\ req[x].c # c /\ req[x].c \in Challenges
    BY <2>1, <2>3 DEF AnswerInv, Only, TypeOK, Named
  <2> QED
    BY <2>2, <2>4, <2>5 DEF AnswerInv, Only
<1> QED
  BY <1>1, <1>2, Moves, Aging, AnswersKeep

\* A session is granted for a challenge at most once.
LEMMA OneGrant ==
    ASSUME TypeOK, AnswerInv, OneAnswerPerChallenge, [Next]_vars
    PROVE  OneAnswerPerChallenge'
<1>1. ASSUME ChallengesAge PROVE OneAnswerPerChallenge'
  BY <1>1 DEF ChallengesAge, OneAnswerPerChallenge
<1>2. ASSUME NEW r \in Requests, NEW s \in Sessions, GrantPasskeySession(r, s) PROVE OneAnswerPerChallenge'
  <2>1. PICK c \in Challenges : c = req[r].c
    BY <1>2, SessionGranted
  <2>2. Only(chal, chal', Challenges, c) /\ chal'[c].grants = chal[c].grants + 1
    BY <1>2, <2>1, SessionGranted
  <2>3. chal[c].grants = 0
    BY <1>2, <2>1 DEF AnswerInv, GrantPasskeySession
  <2> QED
    BY <2>2, <2>3 DEF OneAnswerPerChallenge, Only
<1> QED
  BY <1>1, <1>2, Aging

(* The answer to a passkey challenge signs in once, however many requests  *)
(* bring it: consumePasskeyChallenge deletes the row before it is checked. *)
THEOREM PasskeysAnswerOnce == Spec => []OneAnswerPerChallenge
<1>1. Init => AnswerInv /\ OneAnswerPerChallenge
  BY DEF Init, AnswerInv, OneAnswerPerChallenge, NoChallenge, Idle
<1>2. TypeOK /\ AnswerInv /\ OneAnswerPerChallenge /\ [Next]_vars => AnswerInv' /\ OneAnswerPerChallenge'
  BY AnswerStep, OneGrant
<1> QED
  BY <1>1, <1>2, TypeCorrect, PTL DEF Spec

-----------------------------------------------------------------------------
(***************************************************************************)
(* Guesses: every wrong code is counted, or about to be.                   *)
(***************************************************************************)

LEMMA FailingFinite ==
    \A f : IsFiniteSet(Failing(f)) /\ Cardinality(Failing(f)) \in Nat
           /\ Cardinality(Failing(f)) <= Cardinality(Requests)
<1> TAKE f
<1>1. Failing(f) \subseteq Requests
  BY DEF Failing
<1> QED
  BY <1>1, FactorAssumption, FS_Subset, FS_CardinalityType

LEMMA SameFailing ==
    ASSUME TypeOK, Aside("failed"), NEW f
    PROVE  Failing(f)' = Failing(f)
BY DEF Failing, Aside

\* A count that only starts again keeps the balance.
LEMMA GuessesKeep ==
    ASSUME TypeOK, TypeOK', GuessInv, Aside("failed"),
           \A f \in Factors : tries'[f] = tries[f] \/ tries'[f].wrong = 0
    PROVE  GuessInv'
<1>1. SUFFICES ASSUME NEW f \in Factors
               PROVE  tries'[f].wrong <= Counted(f)' + Cardinality(Failing(f)')
  BY DEF GuessInv
<1>2. Failing(f)' = Failing(f) /\ Cardinality(Failing(f)) \in Nat
  BY SameFailing, FailingFinite
<1>3. CASE tries'[f] = tries[f]
  BY <1>2, <1>3 DEF GuessInv, Counted
<1>4. CASE tries'[f].wrong = 0
  <2>1. tries'[f] \in Counts
    BY DEF TypeOK
  <2>2. Counted(f)' \in Nat
    BY <2>1 DEF Counted, Counts
  <2> QED
    BY <1>2, <1>4, <2>2
<1> QED
  BY <1>3, <1>4

\* The step of a request that answers with a wrong code.
WrongCode(r, f) ==
    /\ ~Locked(f) /\ tries' = [tries EXCEPT ![f].wrong = @ + 1]
    /\ Only(req, req', Requests, r) /\ req[r].pc = "idle" /\ req'[r].pc = "failed" /\ req'[r].f = f

LEMMA Answering ==
    ASSUME TypeOK, NEW r \in Requests, NEW s \in Sessions, NEW f \in Factors, NEW c \in Challenges,
           NEW right \in BOOLEAN, VerifyFactor(r, s, f, c, right)
    PROVE  WrongCode(r, f) \/ (tries' = tries /\ Aside("failed"))
<1>1. CASE chal[c].old
  <2>1. UNCHANGED <<req, tries>>
    BY <1>1 DEF VerifyFactor
  <2> QED
    BY <2>1, NoneAside
<1>2. CASE ~chal[c].old
  <2>1. PICK recorded \in BOOLEAN : recorded = (tries[f].n > 0)
    <3>1. (tries[f].n > 0) \in BOOLEAN
      BY SMT DEF TypeOK, Counts
    <3> QED
      BY <3>1
  <2>2. PICK q : q = [Idle EXCEPT !.pc = IF right THEN "verified" ELSE "failed", !.s = s, !.f = f,
                                  !.c = c, !.recorded = recorded]
    OBVIOUS
  <2>3. q \in Standings /\ q.pc = (IF right THEN "verified" ELSE "failed") /\ q.f = f
    BY <2>2 DEF Idle, Standings
  <2>4. /\ Begin(r, q) /\ ~Locked(f)
        /\ tries' = IF right THEN tries ELSE [tries EXCEPT ![f].wrong = @ + 1]
    BY <1>2, <2>1, <2>2 DEF VerifyFactor
  <2>5. Only(req, req', Requests, r) /\ req'[r] = q /\ req[r].pc = "idle"
    BY <2>3, <2>4, Begun DEF Begin
  <2> QED
    BY <2>3, <2>4, <2>5, OneAside DEF WrongCode
<1> QED
  BY <1>1, <1>2

LEMMA WrongIsBalanced ==
    ASSUME TypeOK, GuessInv, NEW r \in Requests, NEW f \in Factors, WrongCode(r, f)
    PROVE  GuessInv'
<1>1. SUFFICES ASSUME NEW g \in Factors
               PROVE  tries'[g].wrong <= Counted(g)' + Cardinality(Failing(g)')
  BY DEF GuessInv
<1>2. tries[f] \in Counts /\ tries[g] \in Counts
  BY DEF TypeOK
<1>3. PICK n : n = [tries[f] EXCEPT !.wrong = tries[f].wrong + 1]
  OBVIOUS
<1>4. n.open = tries[f].open /\ n.n = tries[f].n /\ n.wrong = tries[f].wrong + 1
  BY <1>2, <1>3 DEF Counts
<1>5. tries' = [tries EXCEPT ![f] = n]
  BY <1>3 DEF WrongCode
<1>6. tries[g].wrong <= Counted(g) + Cardinality(Failing(g)) /\ Cardinality(Failing(g)) \in Nat
      /\ IsFiniteSet(Failing(g))
  BY FailingFinite DEF GuessInv
<1>7. CASE g = f
  <2>1. Failing(f)' = Failing(f) \cup {r} /\ r \notin Failing(f)
    BY DEF Failing, WrongCode, Only
  <2>2. Cardinality(Failing(f)') = Cardinality(Failing(f)) + 1
    BY <1>6, <1>7, <2>1, FS_AddElement
  <2>3. tries'[f] = n
    BY <1>5 DEF TypeOK
  <2>4. Counted(f)' = Counted(f) /\ Counted(f) \in Nat
    BY <1>2, <1>4, <2>3 DEF Counted, Counts
  <2>5. tries[f].wrong \in Nat
    BY <1>2 DEF Counts
  <2> QED
    BY <1>4, <1>6, <1>7, <2>2, <2>3, <2>4, <2>5
<1>8. CASE g # f
  <2>1. Failing(g)' = Failing(g)
    BY <1>8 DEF Failing, WrongCode, Only
  <2>2. tries'[g] = tries[g]
    BY <1>5, <1>8 DEF TypeOK
  <2> QED
    BY <1>6, <2>1, <2>2 DEF Counted
<1> QED
  BY <1>7, <1>8

LEMMA RecordedIsBalanced ==
    ASSUME TypeOK, GuessInv, NEW r \in Requests, RecordFailure(r)
    PROVE  GuessInv' /\ \A f \in Factors : tries'[f].wrong = tries[f].wrong
<1>1. PICK f \in Factors : f = req[r].f
  BY DEF RecordFailure, TypeOK, Named
<1>2. Only(req, req', Requests, r) /\ req'[r].pc = "idle" /\ req[r].pc = "failed"
  BY Finished DEF RecordFailure, TypeOK
<1>3. tries[f] \in Counts
  BY DEF TypeOK
<1>4. PICK k \in Nat : k = IF tries[f].open THEN tries[f].n + 1 ELSE 1
  BY <1>3 DEF Counts
<1>5. PICK n : n = [tries[f] EXCEPT !.n = k, !.open = TRUE]
  OBVIOUS
<1>6. n.open /\ n.n = k /\ n.wrong = tries[f].wrong
  BY <1>3, <1>5 DEF Counts
<1>7. tries' = [tries EXCEPT ![f] = n]
  BY <1>1, <1>4, <1>5 DEF RecordFailure, TypeOK, Counts
<1>8. ASSUME NEW g \in Factors
      PROVE  /\ tries'[g].wrong <= Counted(g)' + Cardinality(Failing(g)')
             /\ tries'[g].wrong = tries[g].wrong
  <2>1. tries[g].wrong <= Counted(g) + Cardinality(Failing(g)) /\ Cardinality(Failing(g)) \in Nat
        /\ IsFiniteSet(Failing(g))
    BY FailingFinite DEF GuessInv
  <2>2. CASE g = f
    <3>1. Failing(f)' = Failing(f) \ {r} /\ r \in Failing(f)
      BY <1>1, <1>2 DEF Failing, Only
    <3>2. Cardinality(Failing(f)') = Cardinality(Failing(f)) - 1
      BY <2>1, <2>2, <3>1, FS_RemoveElement
    <3>3. tries'[f] = n
      BY <1>7 DEF TypeOK
    <3>4. Counted(f)' = Counted(f) + 1 /\ Counted(f) \in Nat
      BY <1>3, <1>4, <1>6, <3>3 DEF Counted, Counts
    <3>5. tries[f].wrong \in Nat
      BY <1>3 DEF Counts
    <3> QED
      BY <1>6, <2>1, <2>2, <3>2, <3>3, <3>4, <3>5
  <2>3. CASE g # f
    <3>1. Failing(g)' = Failing(g)
      BY <1>1, <1>2, <2>3 DEF Failing, Only
    <3>2. tries'[g] = tries[g]
      BY <1>7, <2>3 DEF TypeOK
    <3> QED
      BY <2>1, <3>1, <3>2 DEF Counted
  <2> QED
    BY <2>2, <2>3
<1> QED
  BY <1>8 DEF GuessInv

\* The other steps leave a count or start it again.
LEMMA CountsStartAgain ==
    ASSUME TypeOK, [Next]_vars
    PROVE  \/ \A f \in Factors : tries'[f] = tries[f] \/ tries'[f].wrong = 0
           \/ \E r \in Requests : RecordFailure(r)
           \/ \E r \in Requests, s \in Sessions, f \in Factors, c \in Challenges, right \in BOOLEAN :
                 VerifyFactor(r, s, f, c, right)
<1>1. ASSUME NEW long \in BOOLEAN, TimePasses(long)
      PROVE  \A f \in Factors : tries'[f] = tries[f] \/ tries'[f].wrong = 0
  <2>1. tries' = IF long THEN [f \in Factors |-> [tries[f] EXCEPT !.open = FALSE, !.wrong = 0]] ELSE tries
    BY <1>1 DEF TimePasses
  <2> QED
    BY <2>1 DEF TypeOK, Counts
<1>2. ASSUME NEW r \in Requests, ClearAttempts(r)
      PROVE  \A f \in Factors : tries'[f] = tries[f] \/ tries'[f].wrong = 0
  <2>1. PICK f \in Factors : f = req[r].f
    BY <1>2 DEF ClearAttempts, TypeOK, Named
  <2>2. PICK n : n = [tries[f] EXCEPT !.wrong = 0]
    OBVIOUS
  <2>3. PICK z : z = [open |-> FALSE, n |-> 0, wrong |-> 0]
    OBVIOUS
  <2>4. tries' = [tries EXCEPT ![f] = z] \/ tries' = [tries EXCEPT ![f] = n]
    BY <1>2, <2>1, <2>2, <2>3 DEF ClearAttempts
  <2>5. n.wrong = 0 /\ z.wrong = 0
    BY <2>2, <2>3 DEF TypeOK, Counts
  <2> QED
    BY <2>4, <2>5 DEF TypeOK
<1>3. CASE \E r \in Requests : FactorStep(r)
  <2>1. PICK r \in Requests : FactorStep(r)
    BY <1>3
  <2> QED
    BY <1>2, <2>1 DEF FactorStep, EnrollFactor, InsertFactor, FinalizeFactorVerification, UnenrollFactor,
       AdminDeleteFactor, DeleteAMRClaims, DowngradeAndDeleteFactor
<1>4. CASE ~\E r \in Requests : FactorStep(r)
  <2>1. CASE \E long \in BOOLEAN : TimePasses(long)
    BY <1>1, <2>1
  <2>2. CASE ~\E long \in BOOLEAN : TimePasses(long)
    <3>1. tries' = tries
      BY <1>4, <2>2 DEF Next, vars, SignIn, UpdatePassword, SoftDeleteUser, Confirm, ChallengeFactor, AdminUpdateFactor,
         PasskeyAuthenticationOptions, PasskeyRegistrationOptions, AdminPasskeyDelete, PasskeyDelete,
         OpaqueSignupStart, OpaqueLoginStart, OpaqueRegistrationStart, PasskeyStep, PasskeyRegistrationVerify,
         CountPasskeys, InsertPasskey, PasskeyAuthenticationVerify, GrantPasskeySession, OpaqueStep,
         OpaqueRegistrationFinish, OpaqueSignupFinish, OpaqueLoginFinish, CommitRegistration, CommitSignup, CommitLogin
    <3> QED
      BY <3>1
  <2> QED
    BY <2>1, <2>2
<1> QED
  BY <1>3, <1>4

LEMMA GuessStep ==
    ASSUME TypeOK, TypeOK', GuessInv, GuessesBounded, [Next]_vars
    PROVE  GuessInv' /\ GuessesBounded'
<1>1. \A f \in Factors : tries[f].wrong <= AttemptLimit + Cardinality(Requests) - 1
  BY DEF GuessesBounded
<1>2. Cardinality(Requests) \in Nat /\ AttemptLimit \in Nat \ {0}
  BY FactorAssumption, FS_CardinalityType
<1>3. CASE \E r \in Requests : RecordFailure(r)
  BY <1>3, RecordedIsBalanced DEF GuessesBounded
<1>4. ASSUME NEW r \in Requests, NEW f \in Factors, WrongCode(r, f)
      PROVE  GuessInv' /\ GuessesBounded'
  <2>1. GuessInv'
    BY <1>4, WrongIsBalanced
  <2>2. tries[f] \in Counts /\ ~(tries[f].open /\ tries[f].n >= AttemptLimit)
    BY <1>4 DEF TypeOK, WrongCode, Locked
  <2>3. Counted(f) \in Nat /\ Counted(f) <= AttemptLimit - 1
    BY <1>2, <2>2 DEF Counted, Counts
  <2>4. PICK n : n = [tries[f] EXCEPT !.wrong = tries[f].wrong + 1]
    OBVIOUS
  <2>5. n.open = tries[f].open /\ n.n = tries[f].n
    BY <2>2, <2>4 DEF Counts
  <2>6. tries' = [tries EXCEPT ![f] = n]
    BY <1>4, <2>4 DEF WrongCode
  <2>7. Counted(f)' = Counted(f)
    BY <2>5, <2>6 DEF Counted, TypeOK
  <2>8. tries'[f].wrong <= Counted(f)' + Cardinality(Failing(f)')
    BY <2>1 DEF GuessInv
  <2>9. Cardinality(Failing(f)') \in Nat /\ Cardinality(Failing(f)') <= Cardinality(Requests)
    <3>1. Failing(f)' \subseteq Requests
      BY DEF Failing
    <3> QED
      BY <3>1, FactorAssumption, FS_Subset, FS_CardinalityType
  <2>10. tries'[f].wrong \in Nat
    BY DEF TypeOK, Counts
  <2>11. tries'[f].wrong <= AttemptLimit + Cardinality(Requests) - 1
    BY <1>2, <2>3, <2>7, <2>8, <2>9, <2>10
  <2>12. \A g \in Factors : g # f => tries'[g] = tries[g]
    BY <2>6 DEF TypeOK
  <2> QED
    BY <1>1, <2>1, <2>11, <2>12 DEF GuessesBounded
<1>5. ASSUME Aside("failed"), \A f \in Factors : tries'[f] = tries[f] \/ tries'[f].wrong = 0
      PROVE  GuessInv' /\ GuessesBounded'
  BY <1>1, <1>2, <1>5, GuessesKeep DEF GuessesBounded
<1>6. ASSUME NEW r \in Requests, NEW s \in Sessions, NEW f \in Factors, NEW c \in Challenges, NEW right \in BOOLEAN,
             VerifyFactor(r, s, f, c, right)
      PROVE  GuessInv' /\ GuessesBounded'
  BY <1>4, <1>5, <1>6, Answering
<1> QED
  BY <1>3, <1>5, <1>6, Moves, CountsStartAgain

(* Whatever requests answer at once, between two right codes of a factor   *)
(* and within its window no more wrong ones are compared than the limit    *)
(* and one for each other request.                                         *)
THEOREM GuessingIsBounded == Spec => []GuessesBounded
<1>1. Init => GuessInv /\ GuessesBounded
  <2> SUFFICES ASSUME Init PROVE GuessInv /\ GuessesBounded
    OBVIOUS
  <2>1. \A f \in Factors : tries[f].wrong = 0 /\ Counted(f) = 0
    BY DEF Init, Counted
  <2>2. Cardinality(Requests) \in Nat /\ AttemptLimit \in Nat \ {0}
    BY FactorAssumption, FS_CardinalityType
  <2> QED
    BY <2>1, <2>2, FailingFinite DEF GuessInv, GuessesBounded
<1>2. TypeOK /\ TypeOK' /\ GuessInv /\ GuessesBounded /\ [Next]_vars => GuessInv' /\ GuessesBounded'
  BY GuessStep
<1> QED
  BY <1>1, <1>2, TypeCorrect, PTL DEF Spec

-----------------------------------------------------------------------------
(***************************************************************************)
(* Second factors: a session at aal2 has the claim of its factor.          *)
(***************************************************************************)

\* No session comes to aal2 or changes there.
NoneRises ==
    \A s \in Sessions : sess'[s].st = "live" /\ sess'[s].aal = 2 =>
        /\ sess[s].st = "live" /\ sess[s].aal = 2
        /\ sess'[s].factor = sess[s].factor /\ sess'[s].claims = sess[s].claims

LEMMA Rising ==
    ASSUME TypeOK, [Next]_vars
    PROVE  NoneRises \/ \E r \in Requests : FinalizeFactorVerification(r) \/ DowngradeAndDeleteFactor(r)
<1>1. ASSUME sess' = sess PROVE NoneRises
  BY <1>1 DEF NoneRises
<1>2. ASSUME NEW s \in Sessions, sess' = GrantSession(sess, s) PROVE NoneRises
  BY <1>2, Granted DEF NoneRises, Only
<1>3. ASSUME SoftDeleteUser PROVE NoneRises
  <2>1. PICK n : n = [NoSession EXCEPT !.st = "gone"]
    OBVIOUS
  <2>2. n.st = "gone"
    BY <2>1 DEF NoSession
  <2>3. sess' = [s \in Sessions |-> IF s \in {t \in Sessions : Live(t)} THEN n ELSE sess[s]]
    BY <1>3, <2>1 DEF SoftDeleteUser, End
  <2> QED
    BY <2>2, <2>3 DEF NoneRises
<1>4. ASSUME NEW long \in BOOLEAN, TimePasses(long) PROVE NoneRises
  <2>1. sess' = [s \in Sessions |-> [sess[s] EXCEPT !.fresh = FALSE]]
    BY <1>4 DEF TimePasses
  <2>2. \A s \in Sessions : /\ sess'[s].st = sess[s].st /\ sess'[s].aal = sess[s].aal
                            /\ sess'[s].factor = sess[s].factor /\ sess'[s].claims = sess[s].claims
    BY <2>1 DEF TypeOK, SessionRows
  <2> QED
    BY <2>2 DEF NoneRises
<1>5. CASE \E r \in Requests : FactorStep(r)
  <2>1. PICK r \in Requests : FactorStep(r)
    BY <1>5
  <2> QED
    BY <1>1, <2>1 DEF FactorStep, EnrollFactor, InsertFactor, VerifyFactor, RecordFailure, ClearAttempts, UnenrollFactor,
       AdminDeleteFactor, DeleteAMRClaims
<1>6. CASE \E r \in Requests : PasskeyStep(r)
  BY <1>1, <1>2, <1>6 DEF PasskeyStep, PasskeyRegistrationVerify, CountPasskeys, InsertPasskey,
     PasskeyAuthenticationVerify, GrantPasskeySession
<1>7. CASE \E r \in Requests : OpaqueStep(r)
  BY <1>1, <1>2, <1>7 DEF OpaqueStep, OpaqueRegistrationFinish, OpaqueSignupFinish, OpaqueLoginFinish,
     CommitRegistration, CommitSignup, CommitLogin
<1>8. CASE ~\E r \in Requests : FactorStep(r) \/ PasskeyStep(r) \/ OpaqueStep(r)
  BY <1>1, <1>2, <1>3, <1>4, <1>8 DEF Next, vars, SignIn, UpdatePassword, Confirm, ChallengeFactor,
     AdminUpdateFactor, PasskeyAuthenticationOptions, PasskeyRegistrationOptions, AdminPasskeyDelete, PasskeyDelete,
     OpaqueSignupStart, OpaqueLoginStart, OpaqueRegistrationStart
<1> QED
  BY <1>5, <1>6, <1>7, <1>8

LEMMA ClaimsKeep ==
    ASSUME TypeOK, ClaimInv, Stay, NoneRises, Aside("marked")
    PROVE  ClaimInv'
<1>1. SUFFICES ASSUME NEW s \in Sessions, sess'[s].st = "live", sess'[s].aal = 2
               PROVE  Backed(s)'
  BY DEF ClaimInv, Live
<1>2. Backed(s) /\ sess'[s].factor = sess[s].factor /\ sess'[s].claims = sess[s].claims
  BY <1>1 DEF ClaimInv, Live, NoneRises
<1>3. PICK g \in Factors : g = sess[s].factor /\ fac[g].st # "none"
  BY <1>2 DEF Backed
<1>4. fac'[g].st # "none" /\ fac'[g].type = fac[g].type
  BY <1>3 DEF Stay
<1>5. ASSUME NEW q \in Requests, req'[q].pc = "marked", s \in req'[q].marks, req'[q].f # g
      PROVE  fac'[req'[q].f].type # fac[g].type
  <2>1. req'[q] = req[q] /\ req[q].pc = "marked"
    BY <1>5 DEF Aside
  <2>2. PICK f \in Factors : f = req[q].f /\ fac[f].st # "none"
    BY <2>1 DEF TypeOK, Named
  <2>3. fac'[f].type = fac[f].type
    BY <2>2 DEF Stay
  <2>4. fac[f].type # fac[g].type
    BY <1>2, <1>3, <1>5, <2>1, <2>2 DEF Backed
  <2> QED
    BY <2>1, <2>2, <2>3, <2>4
<1> QED
  BY <1>2, <1>3, <1>4, <1>5 DEF Backed

\* A factor that is verified gives its session the claim; a removal that has
\* locked the claim makes it wait.
LEMMA VerifiedIsBacked ==
    ASSUME TypeOK, ClaimInv, Stay, Aside("marked"), NEW r \in Requests, FinalizeFactorVerification(r)
    PROVE  ClaimInv'
<1>1. req[r].pc = "verified"
  BY DEF FinalizeFactorVerification
<1>2. PICK s \in Sessions, f \in Factors : s = req[r].s /\ f = req[r].f /\ fac[f].st # "none"
  BY <1>1 DEF TypeOK, Named
<1>3. fac[f].type \in FactorTypes
  BY <1>2 DEF TypeOK
<1>4. CASE Live(s)
  <2>1. /\ sess'[s].factor = f /\ sess'[s].claims = sess[s].claims \cup {fac[f].type}
        /\ \A t \in Sessions : t # s => sess'[t] = sess[t] \/ sess'[t].st = "gone"
    BY <1>2, <1>3, <1>4, SessionUpgraded
  <2>2. ~ClaimLocked(s, fac[f].type)
    BY <1>2 DEF FinalizeFactorVerification
  <2>3. fac'[f].st # "none" /\ fac'[f].type = fac[f].type
    BY <1>2 DEF Stay
  <2>4. ASSUME NEW q \in Requests, req'[q].pc = "marked"
        PROVE  /\ req'[q] = req[q] /\ req[q].pc = "marked" /\ req[q].f \in Factors /\ fac[req[q].f].st # "none"
               /\ fac'[req[q].f].type = fac[req[q].f].type
    <3>1. req'[q] = req[q] /\ req[q].pc = "marked"
      BY <2>4 DEF Aside
    <3> QED
      BY <3>1 DEF TypeOK, Named, Stay
  <2>5. Backed(s)'
    <3>1. \A q \in Requests : req'[q].pc = "marked" /\ s \in req'[q].marks => fac'[req'[q].f].type # fac[f].type
      BY <2>2, <2>4 DEF ClaimLocked
    <3> QED
      BY <2>1, <2>3, <3>1 DEF Backed
  <2>6. ASSUME NEW t \in Sessions, t # s, sess'[t].st = "live", sess'[t].aal = 2 PROVE Backed(t)'
    <3>1. sess'[t] = sess[t]
      BY <2>1, <2>6
    <3>2. Backed(t)
      BY <2>6, <3>1 DEF ClaimInv, Live
    <3>3. PICK g \in Factors : g = sess[t].factor /\ fac[g].st # "none"
      BY <3>2 DEF Backed
    <3>4. fac'[g].st # "none" /\ fac'[g].type = fac[g].type
      BY <3>3 DEF Stay
    <3>5. \A q \in Requests : req'[q].pc = "marked" /\ t \in req'[q].marks /\ req'[q].f # g =>
             fac'[req'[q].f].type # fac[g].type
      BY <2>4, <3>2, <3>3 DEF Backed
    <3> QED
      BY <3>1, <3>2, <3>3, <3>4, <3>5 DEF Backed
  <2> QED
    BY <2>5, <2>6 DEF ClaimInv, Live
<1>5. CASE ~Live(s)
  <2>1. sess' = sess
    BY <1>2, <1>5 DEF FinalizeFactorVerification
  <2> QED
    BY <2>1, ClaimsKeep DEF NoneRises
<1> QED
  BY <1>4, <1>5

\* A removal is about the sessions of its factor; of the others it takes only
\* claims that are not of their factor's type.
LEMMA RemovalKeepsClaims ==
    ASSUME TypeOK, ClaimInv, Stay, NEW r \in Requests, DowngradeAndDeleteFactor(r)
    PROVE  ClaimInv'
<1>1. PICK f \in Factors : f = req[r].f /\ fac[f].st # "none" /\ fac[f].type \in FactorTypes
  BY DEF DowngradeAndDeleteFactor, TypeOK, Named
<1>2. sess' = Downgraded(r) /\ req[r].pc = "marked"
  BY DEF DowngradeAndDeleteFactor
<1>3. Only(req, req', Requests, r) /\ req'[r].pc = "idle"
  BY Finished DEF DowngradeAndDeleteFactor, TypeOK
<1>4. SUFFICES ASSUME NEW s \in Sessions, sess'[s].st = "live", sess'[s].aal = 2
               PROVE  Backed(s)'
  BY DEF ClaimInv, Live
<1>5. /\ sess'[s].st = sess[s].st
      /\ sess'[s].claims = IF s \in req[r].marks /\ Live(s) THEN sess[s].claims \ {fac[f].type}
                           ELSE sess[s].claims
      /\ sess[s].factor = f => sess'[s].aal = 1
      /\ sess[s].factor # f => sess'[s].factor = sess[s].factor /\ sess'[s].aal = sess[s].aal
  BY <1>1, <1>2, SessionsDowngraded
<1>6. sess[s].factor # f /\ sess'[s].factor = sess[s].factor /\ Backed(s)
  BY <1>4, <1>5 DEF ClaimInv, Live
<1>7. PICK g \in Factors : g = sess[s].factor /\ fac[g].st # "none"
  BY <1>6 DEF Backed
<1>8. fac'[g].st # "none" /\ fac'[g].type = fac[g].type
  BY <1>7 DEF Stay
<1>9. fac[g].type \in sess'[s].claims
  BY <1>1, <1>2, <1>5, <1>6, <1>7 DEF Backed
<1>10. ASSUME NEW q \in Requests, req'[q].pc = "marked", s \in req'[q].marks, req'[q].f # g
       PROVE  fac'[req'[q].f].type # fac[g].type
  <2>1. req'[q] = req[q] /\ req[q].pc = "marked"
    BY <1>3, <1>10 DEF Only
  <2>2. PICK h \in Factors : h = req[q].f /\ fac[h].st # "none"
    BY <2>1 DEF TypeOK, Named
  <2>3. fac'[h].type = fac[h].type
    BY <2>2 DEF Stay
  <2>4. fac[h].type # fac[g].type
    BY <1>6, <1>7, <1>10, <2>1, <2>2 DEF Backed
  <2> QED
    BY <2>1, <2>2, <2>3, <2>4
<1> QED
  BY <1>6, <1>7, <1>8, <1>9, <1>10 DEF Backed

\* A removal starts with the sessions that its factor verified last.
LEMMA MarkKeepsClaims ==
    ASSUME TypeOK, ClaimInv, NEW r \in Requests, DeleteAMRClaims(r)
    PROVE  ClaimInv'
<1>1. PICK marks : marks = {s \in Sessions : Live(s) /\ sess[s].factor = req[r].f}
  OBVIOUS
<1>2. PICK n : n = [req[r] EXCEPT !.pc = "marked", !.marks = marks]
  OBVIOUS
<1>3. n.pc = "marked" /\ n.f = req[r].f /\ n.marks = marks
  BY <1>2 DEF TypeOK, Standings
<1>4. req' = [req EXCEPT ![r] = n] /\ sess' = sess /\ fac' = fac
  BY <1>1, <1>2 DEF DeleteAMRClaims, TypeOK
<1>5. req'[r] = n /\ \A q \in Requests : q # r => req'[q] = req[q]
  BY <1>4 DEF TypeOK
<1>6. SUFFICES ASSUME NEW s \in Sessions, sess[s].st = "live", sess[s].aal = 2
               PROVE  Backed(s)'
  BY <1>4 DEF ClaimInv, Live
<1>7. Backed(s)
  BY <1>6 DEF ClaimInv, Live
<1>8. s \in marks => sess[s].factor = req[r].f
  BY <1>1
<1> QED
  BY <1>3, <1>4, <1>5, <1>7, <1>8 DEF Backed

LEMMA ClaimStep ==
    ASSUME TypeOK, ClaimInv, [Next]_vars
    PROVE  ClaimInv'
<1>1. Stay
  BY TypeStep DEF Typed
<1>2. CASE \E r \in Requests : DeleteAMRClaims(r) \/ DowngradeAndDeleteFactor(r)
  BY <1>1, <1>2, MarkKeepsClaims, RemovalKeepsClaims
<1>3. CASE ~\E r \in Requests : DeleteAMRClaims(r) \/ DowngradeAndDeleteFactor(r)
  <2>1. Aside("marked")
    BY <1>3, Moves
  <2> QED
    BY <1>1, <1>3, <2>1, Rising, ClaimsKeep, VerifiedIsBacked
<1> QED
  BY <1>2, <1>3

(* A session whose row says aal2 has the claim that says so, whatever is   *)
(* verified and removed at once: finalizeFactorVerification waits for the  *)
(* claims that downgradeAndDeleteFactor has deleted.                       *)
THEOREM AAL2IsClaimed == Spec => []ClaimsBackAAL2
<1>1. Init => ClaimInv
  BY DEF Init, ClaimInv, Live, NoSession
<1>2. TypeOK /\ ClaimInv /\ [Next]_vars => ClaimInv'
  BY ClaimStep
<1>3. ClaimInv => ClaimsBackAAL2
  BY FactorAssumption DEF ClaimInv, ClaimsBackAAL2, Backed, ComputeAAL
<1> QED
  BY <1>1, <1>2, <1>3, TypeCorrect, PTL DEF Spec

-----------------------------------------------------------------------------
(***************************************************************************)
(* OPAQUE: what a ceremony was started from is what it writes to.          *)
(***************************************************************************)

\* An account that is only touched, handshakes that are started and taken.
AccountStays ==
    /\ acct'.st = acct.st /\ acct'.era = acct.era /\ acct'.version = acct.version
    /\ acct'.cred = acct.cred /\ acct'.by = acct.by /\ acct'.updated >= acct.updated

HandshakeStays(h) ==
    /\ hand'[h].st # "none" /\ hand'[h].kind = hand[h].kind /\ hand'[h].era = hand[h].era
    /\ hand'[h].version = hand[h].version /\ hand'[h].updated = hand[h].updated

HandshakeStarts(h) ==
    /\ hand'[h].era = acct.era
    /\ hand'[h].kind = "registration" => hand'[h].updated = acct.updated
    /\ hand'[h].kind = "login" => hand'[h].version = acct.cred

HandshakesGo ==
    \A h \in Handshakes : IF hand[h].st = "none" THEN hand'[h].st # "none" => HandshakeStarts(h)
                          ELSE HandshakeStays(h)

LoginsKnown ==
    \A r \in Requests : req'[r].pc = "login" =>
        req'[r].h \in Handshakes /\ hand[req'[r].h].st # "none" /\ hand[req'[r].h].version # 0

KeyFits(k) ==
    /\ k.version = acct.cred /\ k.version # 0
    /\ k.h \in Handshakes /\ hand[k.h].st # "none" /\ hand[k.h].era = acct.era

LEMMA OpaqueKeeps ==
    ASSUME TypeOK, TypeOK', OpaqueInv, AccountStays, HandshakesGo, LoginsKnown,
           \A k \in keys' : KeyFits(k)
    PROVE  OpaqueInv'
<1>1. acct \in AccountRows /\ acct' \in AccountRows
  BY DEF TypeOK
<1>2. \A h \in Handshakes : hand[h] \in HandshakeRows /\ hand'[h] \in HandshakeRows
  BY DEF TypeOK
<1>3. ASSUME NEW h \in Handshakes, hand[h].st # "none" PROVE HandshakeStays(h) /\ Current(h)
  BY <1>3 DEF HandshakesGo, OpaqueInv
<1>4. ASSUME NEW h \in Handshakes PROVE Current(h)'
  <2>1. CASE hand[h].st # "none"
    <3>1. /\ hand[h].updated \in Nat /\ hand[h].era \in Nat /\ hand[h].version \in Nat
          /\ acct.updated \in Nat /\ acct'.updated \in Nat /\ acct.version \in Nat
      BY <1>1, <1>2 DEF AccountRows, HandshakeRows
    <3> QED
      BY <1>3, <2>1, <3>1 DEF HandshakeStays, Current, AccountStays
  <2>2. CASE hand[h].st = "none" /\ hand'[h].st # "none"
    <3>1. HandshakeStarts(h)
      BY <2>2 DEF HandshakesGo
    <3>2. acct.cred # 0 => acct.cred = acct.version
      BY DEF OpaqueInv
    <3>3. acct.era \in Nat /\ acct.updated \in Nat /\ acct'.updated \in Nat /\ acct.version \in Nat
      BY <1>1 DEF AccountRows
    <3> QED
      BY <3>1, <3>2, <3>3 DEF HandshakeStarts, Current, AccountStays
  <2>3. CASE hand'[h].st = "none"
    BY <2>3 DEF Current
  <2> QED
    BY <2>1, <2>2, <2>3
<1>5. acct'.cred # 0 => /\ acct'.st = "live" /\ acct'.cred = acct'.version
                        /\ acct'.by \in Handshakes /\ hand'[acct'.by].st # "none"
                        /\ hand'[acct'.by].era = acct'.era
  BY <1>3 DEF AccountStays, OpaqueInv, HandshakeStays
<1>6. ASSUME NEW r \in Requests, req'[r].pc = "login" PROVE hand'[req'[r].h].version # 0
  BY <1>3, <1>6 DEF LoginsKnown, HandshakeStays
<1>7. ASSUME NEW k \in keys'
      PROVE  /\ k.version = acct'.cred /\ k.version # 0
             /\ hand'[k.h].st # "none" /\ hand'[k.h].era = acct'.era
  BY <1>3, <1>7 DEF KeyFits, HandshakeStays, AccountStays
<1>8. acct'.st = "none" => acct'.era = 0 /\ acct'.version = 0
  BY DEF AccountStays, OpaqueInv
<1> QED
  BY <1>4, <1>5, <1>6, <1>7, <1>8 DEF OpaqueInv

LEMMA KeysFit == ASSUME TypeOK, OpaqueInv PROVE \A k \in keys : KeyFits(k)
BY DEF TypeOK, OpaqueInv, KeyFits

LEMMA LoginsStay ==
    ASSUME TypeOK, OpaqueInv, Aside("login")
    PROVE  LoginsKnown
BY DEF TypeOK, OpaqueInv, Aside, LoginsKnown, Named

\* The steps that start no handshake and leave no credential.
LEMMA QuietSteps ==
    ASSUME TypeOK, [Next]_vars
    PROVE  \/ AccountStays /\ HandshakesGo /\ keys' \subseteq keys
           \/ UpdatePassword \/ SoftDeleteUser
           \/ \E r \in Requests : CommitRegistration(r) \/ CommitSignup(r) \/ \E s \in Sessions : CommitLogin(r, s)
<1>0. acct \in AccountRows
  BY DEF TypeOK
<1>1. ASSUME acct' = acct PROVE AccountStays
  BY <1>0, <1>1 DEF AccountStays, AccountRows
<1>2. ASSUME acct' = Touched(acct) PROVE AccountStays
  <2>1. acct.updated \in Nat
    BY <1>0 DEF AccountRows
  <2> QED
    BY <1>2, <2>1, TouchedTyped DEF AccountStays
<1>3. ASSUME hand' = hand PROVE HandshakesGo
  BY <1>3 DEF HandshakesGo, HandshakeStays
<1>4. ASSUME NEW s \in Sessions, SignIn(s) PROVE AccountStays /\ HandshakesGo /\ keys' \subseteq keys
  BY <1>2, <1>3, <1>4 DEF SignIn
<1>5. ASSUME Confirm PROVE AccountStays /\ HandshakesGo /\ keys' \subseteq keys
  <2>1. PICK a \in AccountRows : /\ a = Touched(acct) /\ a.st = acct.st /\ a.updated = acct.updated + 1
                                 /\ a.era = acct.era /\ a.version = acct.version /\ a.cred = acct.cred
                                 /\ a.by = acct.by
    BY TouchedTyped
  <2>2. PICK b : b = [a EXCEPT !.ok = TRUE]
    OBVIOUS
  <2>3. /\ b.st = a.st /\ b.updated = a.updated /\ b.era = a.era /\ b.version = a.version /\ b.cred = a.cred
        /\ b.by = a.by
    BY <2>2 DEF AccountRows
  <2>4. acct' = b /\ hand' = hand /\ keys' = keys
    BY <1>5, <2>1, <2>2 DEF Confirm
  <2>5. acct.updated \in Nat
    BY <1>0 DEF AccountRows
  <2> QED
    BY <1>3, <2>1, <2>3, <2>4, <2>5 DEF AccountStays
<1>6. ASSUME NEW long \in BOOLEAN, TimePasses(long) PROVE AccountStays /\ HandshakesGo /\ keys' \subseteq keys
  <2>1. /\ hand' = [h \in Handshakes |-> [hand[h] EXCEPT !.old = hand[h].st # "none"]]
        /\ acct' = acct /\ (keys' = {} \/ keys' = keys)
    BY <1>6 DEF TimePasses
  <2>2. \A h \in Handshakes :
           /\ hand'[h].st = hand[h].st /\ hand'[h].kind = hand[h].kind /\ hand'[h].era = hand[h].era
           /\ hand'[h].version = hand[h].version /\ hand'[h].updated = hand[h].updated
    BY <2>1 DEF TypeOK, HandshakeRows
  <2>3. HandshakesGo
    BY <2>2 DEF HandshakesGo, HandshakeStays
  <2> QED
    BY <1>1, <2>1, <2>3
<1>7. ASSUME NEW h \in Handshakes,
             OpaqueSignupStart(h) \/ OpaqueLoginStart(h) \/ \E s \in Sessions : OpaqueRegistrationStart(s, h)
      PROVE  AccountStays /\ HandshakesGo /\ keys' \subseteq keys
  <2>1. /\ Only(hand, hand', Handshakes, h) /\ acct' = acct /\ keys' = keys
        /\ hand[h].st = "none" /\ HandshakeStarts(h)
    BY <1>7, StartTypes DEF HandshakeStarts
  <2>2. HandshakesGo
    BY <2>1 DEF HandshakesGo, HandshakeStays, Only
  <2> QED
    BY <1>1, <2>1, <2>2
<1>8. ASSUME NEW r \in Requests, NEW h \in Handshakes,
             OpaqueRegistrationFinish(r, h) \/ OpaqueSignupFinish(r, h) \/ OpaqueLoginFinish(r, h)
      PROVE  AccountStays /\ HandshakesGo /\ keys' \subseteq keys
  <2>1. /\ Only(hand, hand', Handshakes, h) /\ acct' = acct /\ keys' = keys
        /\ hand[h].st = "open" /\ HandshakeStays(h)
    BY <1>8, FinishTypes DEF HandshakeStays
  <2>2. HandshakesGo
    BY <2>1 DEF HandshakesGo, HandshakeStays, Only
  <2> QED
    BY <1>1, <2>1, <2>2
<1>9. ASSUME NEW r \in Requests, FinalizeFactorVerification(r)
      PROVE  AccountStays /\ HandshakesGo /\ keys' \subseteq keys
  <2>1. acct' = acct /\ hand' = hand /\ keys' \subseteq keys
    BY <1>9 DEF FinalizeFactorVerification
  <2> QED
    BY <1>1, <1>3, <2>1
<1>10. CASE \E r \in Requests : FactorStep(r)
  <2>1. PICK r \in Requests : FactorStep(r)
    BY <1>10
  <2>2. CASE FinalizeFactorVerification(r)
    BY <1>9, <2>2
  <2>3. CASE ~FinalizeFactorVerification(r)
    <3>1. acct' = acct /\ hand' = hand /\ keys' = keys
      BY <2>1, <2>3 DEF FactorStep, EnrollFactor, InsertFactor, VerifyFactor, RecordFailure, ClearAttempts,
         UnenrollFactor, AdminDeleteFactor, DeleteAMRClaims, DowngradeAndDeleteFactor
    <3> QED
      BY <1>1, <1>3, <3>1
  <2> QED
    BY <2>2, <2>3
<1>11. CASE \E r \in Requests : PasskeyStep(r)
  <2>1. (acct' = acct \/ acct' = Touched(acct)) /\ hand' = hand /\ keys' = keys
    BY <1>11 DEF PasskeyStep, PasskeyRegistrationVerify, CountPasskeys, InsertPasskey,
       PasskeyAuthenticationVerify, GrantPasskeySession
  <2> QED
    BY <1>1, <1>2, <1>3, <2>1
<1>12. CASE \E r \in Requests : OpaqueStep(r)
  BY <1>8, <1>12 DEF OpaqueStep
<1>13. CASE ~\E r \in Requests : FactorStep(r) \/ PasskeyStep(r) \/ OpaqueStep(r)
  <2>1. ASSUME acct' = acct /\ hand' = hand /\ keys' = keys
        PROVE  AccountStays /\ HandshakesGo /\ keys' \subseteq keys
    BY <1>1, <1>3, <2>1
  <2>2. CASE \/ UNCHANGED vars
             \/ \E s \in Sessions, f \in Factors, c \in Challenges : ChallengeFactor(s, f, c)
             \/ \E f \in Factors : AdminUpdateFactor(f)
             \/ \E c \in Challenges :
                   PasskeyAuthenticationOptions(c) \/ \E s \in Sessions : PasskeyRegistrationOptions(s, c)
             \/ \E p \in Passkeys : AdminPasskeyDelete(p) \/ \E s \in Sessions : PasskeyDelete(s, p)
    BY <2>1, <2>2 DEF vars, ChallengeFactor, AdminUpdateFactor, PasskeyAuthenticationOptions,
       PasskeyRegistrationOptions, AdminPasskeyDelete, PasskeyDelete
  <2> QED
    BY <1>4, <1>5, <1>6, <1>7, <1>13, <2>2 DEF Next
<1> QED
  BY <1>10, <1>11, <1>12, <1>13

\* A new password or the deletion of the account begins an era: everything
\* that was started before it is out of date.
LEMMA EraBegins ==
    ASSUME TypeOK, OpaqueInv, UpdatePassword \/ SoftDeleteUser
    PROVE  OpaqueInv'
<1>1. /\ acct'.st # "none" /\ acct'.updated = acct.updated + 1 /\ acct'.era = acct.era + 1
      /\ acct'.version = acct.version /\ acct'.cred = 0
  BY NewPassword, AccountDeleted, NewEra
<1>2. hand' = hand /\ keys' = {} /\ req' = req
  BY DEF UpdatePassword, SoftDeleteUser
<1>3. ASSUME NEW h \in Handshakes PROVE Current(h)'
  <2>1. /\ hand[h].updated \in Nat /\ hand[h].era \in Nat /\ hand[h].version \in Nat
        /\ acct.updated \in Nat /\ acct.era \in Nat
    BY DEF TypeOK, HandshakeRows, AccountRows
  <2>2. Current(h)
    BY DEF OpaqueInv
  <2> QED
    BY <1>1, <1>2, <2>1, <2>2 DEF Current
<1> QED
  BY <1>1, <1>2, <1>3 DEF OpaqueInv

\* An enrolment that finds what it started from makes a new version.
LEMMA EnrolmentFits ==
    ASSUME TypeOK, OpaqueInv, NEW r \in Requests, CommitRegistration(r), Unchanged(req[r].h)
    PROVE  OpaqueInv'
<1>1. PICK h \in Handshakes : h = req[r].h /\ hand[h].st # "none" /\ hand[h].kind = "registration"
  BY DEF CommitRegistration, TypeOK, Named
<1>2. acct \in AccountRows /\ acct.version + 1 \in Nat
  BY DEF TypeOK, AccountRows
<1>3. PICK n : n = [acct EXCEPT !.version = acct.version + 1, !.cred = acct.version + 1, !.by = h]
  OBVIOUS
<1>4. /\ n.st = acct.st /\ n.updated = acct.updated /\ n.era = acct.era
      /\ n.version = acct.version + 1 /\ n.cred = acct.version + 1 /\ n.by = h
  BY <1>2, <1>3 DEF AccountRows
<1>5. acct' = n /\ keys' = {} /\ hand' = hand
  BY <1>1, <1>3 DEF CommitRegistration
<1>6. acct.st = "live" /\ acct.updated = hand[h].updated
  BY <1>1 DEF Unchanged, OpaqueEnrollmentUser, OpaqueUser
<1>7. hand[h].era = acct.era
  BY <1>1, <1>6 DEF OpaqueInv, Current
<1>8. ASSUME NEW g \in Handshakes PROVE Current(g)'
  <2>1. Current(g) /\ hand[g].version \in Nat /\ acct.version \in Nat
    BY DEF OpaqueInv, TypeOK, HandshakeRows, AccountRows
  <2> QED
    BY <1>4, <1>5, <2>1 DEF Current
<1>9. \A x \in Requests : req'[x].pc = "login" => req'[x] = req[x]
  BY Finished DEF CommitRegistration, TypeOK, Only
<1> QED
  BY <1>1, <1>4, <1>5, <1>6, <1>7, <1>8, <1>9 DEF OpaqueInv

\* An account that is signed up is the first of its address.
LEMMA SignupFits ==
    ASSUME TypeOK, OpaqueInv, NEW r \in Requests, CommitSignup(r), acct.st = "none"
    PROVE  OpaqueInv'
<1>1. PICK h \in Handshakes : h = req[r].h /\ hand[h].st # "none"
  BY DEF CommitSignup, TypeOK, Named
<1>2. acct \in AccountRows /\ acct.era = 0 /\ acct.version = 0 /\ acct.cred = 0
  BY DEF TypeOK, OpaqueInv
<1>3. PICK n : n = [acct EXCEPT !.st = "live", !.ok = conf.autoconfirm, !.version = 1, !.cred = 1, !.by = h]
  OBVIOUS
<1>4. /\ n.st = "live" /\ n.updated = acct.updated /\ n.era = 0 /\ n.version = 1 /\ n.cred = 1 /\ n.by = h
  BY <1>2, <1>3 DEF AccountRows
<1>5. acct' = n /\ hand' = hand /\ keys' = keys
  BY <1>1, <1>3 DEF CommitSignup
<1>6. keys = {}
  BY <1>2 DEF OpaqueInv
<1>7. \A g \in Handshakes : hand[g].version \in Nat /\ hand[g].era \in Nat
  BY DEF TypeOK, HandshakeRows
<1>8. ASSUME NEW g \in Handshakes PROVE Current(g)'
  <2>1. Current(g)
    BY DEF OpaqueInv
  <2> QED
    BY <1>2, <1>4, <1>5, <1>7, <2>1 DEF Current
<1>9. hand[h].era = 0
  BY <1>1, <1>2, <1>7 DEF OpaqueInv, Current
<1>10. \A x \in Requests : req'[x].pc = "login" => req'[x] = req[x]
  BY Finished DEF CommitSignup, TypeOK, Only
<1> QED
  BY <1>1, <1>4, <1>5, <1>6, <1>8, <1>9, <1>10 DEF OpaqueInv

LEMMA OpaqueStepKeeps ==
    ASSUME TypeOK, OpaqueInv, [Next]_vars
    PROVE  OpaqueInv'
<1>0. TypeOK'
  BY TypeStep DEF Typed
<1>1. ASSUME NEW r \in Requests, CommitRegistration(r) \/ CommitSignup(r),
             ~(CommitRegistration(r) /\ Unchanged(req[r].h)), ~(CommitSignup(r) /\ acct.st = "none")
      PROVE  OpaqueInv'
  <2>1. acct' = acct /\ hand' = hand /\ keys' = keys
    BY <1>1 DEF CommitRegistration, CommitSignup
  <2>2. LoginsKnown
    <3>1. \A x \in Requests : req'[x].pc = "login" => req'[x] = req[x]
      BY <1>1, Finished DEF CommitRegistration, CommitSignup, TypeOK, Only
    <3> QED
      BY <3>1 DEF LoginsKnown, OpaqueInv, TypeOK, Named
  <2>3. AccountStays /\ HandshakesGo
    BY <2>1 DEF AccountStays, HandshakesGo, HandshakeStays, TypeOK, AccountRows
  <2> QED
    BY <1>0, <2>1, <2>2, <2>3, KeysFit, OpaqueKeeps
<1>2. ASSUME NEW r \in Requests, NEW s \in Sessions, CommitLogin(r, s) PROVE OpaqueInv'
  <2>1. PICK h \in Handshakes : h = req[r].h /\ hand[h].st # "none" /\ hand[h].kind = "login"
    BY <1>2 DEF CommitLogin, TypeOK, Named
  <2>2. hand[h].version # 0
    BY <1>2, <2>1 DEF CommitLogin, OpaqueInv
  <2>3. PICK k : k = [s |-> s, version |-> hand[h].version, h |-> h]
    OBVIOUS
  <2>4. /\ hand' = hand
        /\ \/ acct' = acct /\ keys' = keys
           \/ acct' = Touched(acct) /\ keys' = keys \cup {k} /\ acct.cred = hand[h].version
    BY <1>2, <2>1, <2>3 DEF CommitLogin
  <2>5. acct.cred = hand[h].version => KeyFits(k)
    BY <2>1, <2>2, <2>3 DEF KeyFits, OpaqueInv, Current
  <2>6. \A x \in keys' : KeyFits(x)
    BY <2>4, <2>5, KeysFit
  <2>7. AccountStays
    <3>1. acct.updated \in Nat
      BY DEF TypeOK, AccountRows
    <3> QED
      BY <2>4, <3>1, TouchedTyped DEF AccountStays
  <2>8. LoginsKnown
    <3>1. \A x \in Requests : req'[x].pc = "login" => req'[x] = req[x]
      BY <1>2, Finished DEF CommitLogin, TypeOK, Only
    <3> QED
      BY <3>1 DEF LoginsKnown, OpaqueInv, TypeOK, Named
  <2>9. HandshakesGo
    BY <2>4 DEF HandshakesGo, HandshakeStays
  <2> QED
    BY <1>0, <2>6, <2>7, <2>8, <2>9, OpaqueKeeps
<1>3. ASSUME NEW r \in Requests, NEW h \in Handshakes, OpaqueLoginFinish(r, h) PROVE LoginsKnown
  <2>1. \/ req' = req
        \/ /\ Only(req, req', Requests, r) /\ req'[r].h = h
           /\ req'[r].pc = "login" => hand[h].version # 0
    BY <1>3, FinishTypes
  <2>2. hand[h].st # "none"
    BY <1>3, FinishTypes
  <2> QED
    BY <2>1, <2>2 DEF LoginsKnown, Only, OpaqueInv, TypeOK, Named
<1>4. CASE AccountStays /\ HandshakesGo /\ keys' \subseteq keys
  <2>1. CASE \E r \in Requests, s \in Sessions : CommitLogin(r, s)
    BY <1>2, <2>1
  <2>2. CASE ~\E r \in Requests, s \in Sessions : CommitLogin(r, s)
    <3>1. LoginsKnown
      BY <1>3, <2>2, Moves, LoginsStay
    <3> QED
      BY <1>0, <1>4, <3>1, KeysFit, OpaqueKeeps
  <2> QED
    BY <2>1, <2>2
<1>5. CASE \E r \in Requests : CommitRegistration(r) \/ CommitSignup(r)
  BY <1>1, <1>5, EnrolmentFits, SignupFits
<1> QED
  BY <1>2, <1>4, <1>5, QuietSteps, EraBegins

(* Neither a new password nor the deletion of the account can race OPAQUE: *)
(* finish compares the handshake with the account under the account's lock,*)
(* so a credential and every key that can be used are of the present era.  *)
THEOREM OpaqueHolds == Spec => []OpaqueCannotRace
<1>1. Init => OpaqueInv
  BY DEF Init, OpaqueInv, Current, NoHandshake, Idle
<1>2. TypeOK /\ OpaqueInv /\ [Next]_vars => OpaqueInv'
  BY OpaqueStepKeeps
<1>3. OpaqueInv => OpaqueCannotRace
  BY DEF OpaqueInv, OpaqueCannotRace, UsableKeys
<1> QED
  BY <1>1, <1>2, <1>3, TypeCorrect, PTL DEF Spec
=============================================================================
