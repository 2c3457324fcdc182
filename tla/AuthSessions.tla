---------------------------- MODULE AuthSessions ----------------------------
(***************************************************************************)
(* The sign-in sessions and refresh tokens of one user (auth.sessions and  *)
(* auth.refresh_tokens): the password grant, the refresh grant with        *)
(* rotation and reuse detection (grant.go), the token swap of a verified   *)
(* second factor (factors.go), logout and password change (user.go), the   *)
(* administrator (admin.go), the erasure steps on these rows (pipeline.go) *)
(* and the cleanup worker (cleanup.go).                                    *)
(*                                                                         *)
(* Every row is keyed by the user, so one user is the general case.  A     *)
(* session is named by the request that made it, a refresh token by the    *)
(* request that minted it.                                                 *)
(*                                                                         *)
(* Transactions run at READ COMMITTED, so what they exclude is what their  *)
(* row locks exclude: the refresh grant holds the row of the token it was  *)
(* shown, the token swap the row of its session, and the deletion of a     *)
(* session, which cascades to its tokens, waits for both.  A deadlock      *)
(* victim, like any failed statement, rolls back (RefreshAborts,           *)
(* UpgradeAborts; elsewhere the request changes nothing).                  *)
(***************************************************************************)
EXTENDS Integers

CONSTANTS
    Logins,        \* password grants
    Refreshes,     \* refresh grants
    Upgrades,      \* verifications of a second factor
    Callers,       \* requests made with an access token
    NoSession, NoToken,
    ReuseWindow,   \* Security.RefreshTokenReuseInterval, 0: none
    Timebox,       \* Sessions.Timebox, 0: none
    Inactivity,    \* Sessions.InactivityTimeout, 0: none
    SinglePerUser, \* Sessions.SinglePerUser
    Retention,     \* refreshTokenRetention
    BanLengths,    \* ban durations an administrator may ask for
    MaxTime,       \* bound: the clock
    MaxAdmin       \* bound: administrative requests and erasures

Tokens == Logins \cup Refreshes \cup Upgrades

ASSUME SessionAssumption ==
    /\ Logins \cap Refreshes = {} /\ Logins \cap Upgrades = {}
    /\ Refreshes \cap Upgrades = {}
    /\ NoSession \notin Logins /\ NoToken \notin Tokens
    /\ ReuseWindow \in Nat /\ Timebox \in Nat /\ Inactivity \in Nat
    /\ SinglePerUser \in BOOLEAN
    /\ Retention \in Nat
    /\ BanLengths \subseteq Nat
    /\ MaxTime \in Nat /\ MaxAdmin \in Nat

VARIABLES
    now,
    user,       \* auth.users: [state, password, until]
    sess,       \* auth.sessions: [st, created, refreshed, aal]
    tok,        \* auth.refresh_tokens: [st, sess, parent, updated, aal]
    login,      \* where each password grant stands
    refr,       \* each refresh grant: [st, tok, at, verdict]
    upgr,       \* each factor verification: [st, sess, cur, at]
    call,       \* the session each caller was authenticated with
    erasure,    \* erasure steps done: 1 credential, 2 refresh-token, 3 session, 4 account
    admin       \* administrative requests made and erasures begun

vars == <<now, user, sess, tok, login, refr, upgr, call, erasure, admin>>

Time == 0 .. MaxTime
Verdicts == {"none", "rotated", "replayed", "reused", "expired", "refused"}
Levels == {"aal1", "aal2"}

SessRow(st) == [st |-> st, created |-> 0, refreshed |-> 0, aal |-> "aal1"]
NoSess == SessRow("none")
GoneSess == SessRow("gone")
TokRow(st) == [st |-> st, sess |-> NoSession, parent |-> NoToken, updated |-> 0, aal |-> "aal1"]
NoTok == TokRow("none")
GoneTok == TokRow("gone")
RefreshRow(st) == [st |-> st, tok |-> NoToken, at |-> 0, verdict |-> "none"]
IdleRefresh == RefreshRow("idle")
DoneRefresh == RefreshRow("done")
UpgradeRow(st) == [st |-> st, sess |-> NoSession, cur |-> NoToken, at |-> 0]
IdleUpgrade == UpgradeRow("idle")
DoneUpgrade == UpgradeRow("done")

TypeOK ==
    /\ now \in Time
    /\ user \in [state : {"there", "soft", "gone"}, password : BOOLEAN, until : Nat]
    /\ sess \in [Logins -> [st : {"none", "live", "gone"}, created : Time,
                            refreshed : Time, aal : Levels]]
    /\ tok \in [Tokens -> [st : {"none", "active", "revoked", "gone"},
                           sess : Logins \cup {NoSession}, parent : Tokens \cup {NoToken},
                           updated : Time, aal : Levels]]
    /\ login \in [Logins -> {"idle", "read", "stale", "done", "late", "failed"}]
    /\ refr \in [Refreshes -> [st : {"idle", "locked", "done"}, tok : Tokens \cup {NoToken},
                               at : Time, verdict : Verdicts]]
    /\ upgr \in [Upgrades -> [st : {"idle", "locked", "done"}, sess : Logins \cup {NoSession},
                              cur : Tokens \cup {NoToken}, at : Time]]
    /\ call \in [Callers -> Logins \cup {NoSession}]
    /\ erasure \in 0 .. 4
    /\ admin \in Nat

Init ==
    /\ now = 0
    /\ user = [state |-> "there", password |-> TRUE, until |-> 0]
    /\ sess = [l \in Logins |-> NoSess]
    /\ tok = [t \in Tokens |-> NoTok]
    /\ login = [l \in Logins |-> "idle"]
    /\ refr = [r \in Refreshes |-> IdleRefresh]
    /\ upgr = [u \in Upgrades |-> IdleUpgrade]
    /\ call = [c \in Callers |-> NoSession]
    /\ erasure = 0
    /\ admin = 0

-----------------------------------------------------------------------------
(***************************************************************************)
(* What the rows say.                                                      *)
(***************************************************************************)

Live(l) == sess[l].st = "live"
Exists(t) == tok[t].st \in {"active", "revoked"}
TokensOf(l) == {t \in Tokens : Exists(t) /\ tok[t].sess = l}
ActiveOf(l) == {t \in TokensOf(l) : tok[t].st = "active"}
Banned == user.until > now

Later(a, b) == IF a > b THEN a ELSE b

\* lastRefreshedAt without and with a token.
LastRefreshed(l) == Later(sess[l].created, sess[l].refreshed)
LastRefreshedWith(l, t) == Later(LastRefreshed(l), tok[t].updated)

\* checkSessionValidity of a presented token; sessionStillValid of another
\* session.  not_after is null on the sessions of a password grant.
TooOld(l) == Timebox > 0 /\ now > sess[l].created + Timebox
Expired(l, t) == TooOld(l) \/ (Inactivity > 0 /\ now > LastRefreshedWith(l, t) + Inactivity)
StillValid(l) == ~TooOld(l) /\ ~(Inactivity > 0 /\ now > LastRefreshed(l) + Inactivity)

\* checkSinglePerUser: another valid session was refreshed later.
Outranked(l, t) ==
    /\ SinglePerUser
    /\ \E o \in Logins \ {l} : Live(o) /\ StillValid(o) /\ LastRefreshed(o) > LastRefreshedWith(l, t)

\* handleRefreshTokenReuse: the client may have lost the last answer.
Forgiven(l, t) ==
    /\ ReuseWindow > 0 /\ now < tok[t].updated + ReuseWindow
    /\ ActiveOf(l) # {}

\* loadRefreshUser refuses a deleted or a banned user.
Refused == user.state # "there" \/ Banned

\* What the refresh grant decides about the token t, in the order of its checks.
Verdict(l, t) ==
    IF Outranked(l, t) THEN "refused"
    ELSE IF tok[t].st = "revoked" /\ ~Forgiven(l, t) THEN "reused"
    ELSE IF Expired(l, t) THEN "expired"
    ELSE IF Refused THEN "refused"
    ELSE IF tok[t].st = "revoked" THEN "replayed" ELSE "rotated"

\* The row locks that a statement deleting the sessions S, hence their tokens,
\* waits for.
RefreshLocks(t) == \E r \in Refreshes : refr[r].st = "locked" /\ refr[r].tok = t
Free(S) ==
    /\ \A r \in Refreshes : refr[r].st = "locked" => tok[refr[r].tok].sess \notin S
    /\ \A u \in Upgrades : upgr[u].st = "locked" => upgr[u].sess \notin S

\* deleteSession, deleteOtherUserSessions, deleteUserSessions: the sessions in
\* S and, by cascade, their tokens.
SessionsWithout(S) == [l \in Logins |-> IF l \in S /\ Live(l) THEN GoneSess ELSE sess[l]]
TokensWithout(S) == [t \in Tokens |-> IF Exists(t) /\ tok[t].sess \in S THEN GoneTok ELSE tok[t]]

Delete(S) ==
    /\ Free(S)
    /\ sess' = SessionsWithout(S)
    /\ tok' = TokensWithout(S)

\* revokeRefreshToken, on the rows f.
Revoke(f, t, at) == [f EXCEPT ![t].st = "revoked", ![t].updated = at]

\* A sign-in that read the user before this request revoked its sessions.
Overtake == login' = [l \in Logins |-> IF login[l] = "read" THEN "stale" ELSE login[l]]

-----------------------------------------------------------------------------
(***************************************************************************)
(* The password grant.  The user row is read and the password compared     *)
(* outside of the transaction that makes the session.                      *)
(***************************************************************************)

ReadUser(l) ==
    /\ login[l] = "idle"
    /\ user.state = "there" /\ ~Banned /\ user.password
    /\ login' = [login EXCEPT ![l] = "read"]
    /\ UNCHANGED <<now, user, sess, tok, refr, upgr, call, erasure, admin>>

\* grantSession looks at the copy of the user that ReadUser accepted; only the
\* foreign key looks at the row.
GrantSession(l) ==
    /\ login[l] \in {"read", "stale"}
    /\ user.state # "gone"
    /\ sess' = [sess EXCEPT ![l] = [st |-> "live", created |-> now, refreshed |-> now, aal |-> "aal1"]]
    /\ tok' = [tok EXCEPT ![l] = [st |-> "active", sess |-> l, parent |-> NoToken,
                                  updated |-> now, aal |-> "aal1"]]
    /\ login' = [login EXCEPT ![l] = IF login[l] = "stale" THEN "late" ELSE "done"]
    /\ UNCHANGED <<now, user, refr, upgr, call, erasure, admin>>

\* The user is gone, the address is unconfirmed, or a statement failed.
SignInFails(l) ==
    /\ login[l] \in {"read", "stale"}
    /\ login' = [login EXCEPT ![l] = "failed"]
    /\ UNCHANGED <<now, user, sess, tok, refr, upgr, call, erasure, admin>>

-----------------------------------------------------------------------------
(***************************************************************************)
(* The refresh grant: one transaction that locks the token's row, decides, *)
(* and acts on what it decided.                                            *)
(***************************************************************************)

Lock(r, t) ==
    /\ refr[r].st = "idle"
    /\ Exists(t)
    /\ refr' = [refr EXCEPT ![r] = [st |-> "locked", tok |-> t, at |-> now,
                                    verdict |-> Verdict(tok[t].sess, t)]]
    /\ UNCHANGED <<now, user, sess, tok, login, upgr, call, erasure, admin>>

\* findRefreshTokenForUpdate waits for the row; the reads that follow it see
\* no later deletion of the session, which would wait for the row too.
LockToken(r, t) == ~RefreshLocks(t) /\ Lock(r, t)

SessionOf(r) == tok[refr[r].tok].sess

\* Whether the session's row is free of factor verifications.
Unlocked(l) == \A u \in Upgrades : upgr[u].st = "locked" => upgr[u].sess # l

Decided(r, V) == refr[r].st = "locked" /\ refr[r].verdict \in V

RotateAnd(r, touched) ==
    LET t == refr[r].tok
        l == SessionOf(r)
    IN  /\ tok' = [Revoke(tok, t, refr[r].at) EXCEPT
                      ![r] = [st |-> "active", sess |-> l, parent |-> t,
                              updated |-> refr[r].at, aal |-> sess[l].aal]]
        /\ sess' = [sess EXCEPT ![l].refreshed = touched]
        /\ refr' = [refr EXCEPT ![r] = DoneRefresh]
        /\ UNCHANGED <<now, user, login, upgr, call, erasure, admin>>

RotateUnlocked(r) ==
    Decided(r, {"rotated"}) /\ RotateAnd(r, refr[r].at)
\* Revoke the token, insert its child, touch the session: the last waits for a
\* factor verification that holds the session's row.
Rotate(r) ==
    Decided(r, {"rotated"}) /\ Unlocked(SessionOf(r)) /\ RotateAnd(r, refr[r].at)

MutAnswerRevives(r) ==
    /\ Decided(r, {"replayed", "refused"})
    /\ LET t == refr[r].tok
       IN  tok' = [o \in Tokens |->
                     IF refr[r].verdict = "replayed" /\ o \in ActiveOf(tok[t].sess) \cup {t}
                     THEN [tok[o] EXCEPT !.st = IF o = t THEN "active" ELSE "revoked"] ELSE tok[o]]
    /\ refr' = [refr EXCEPT ![r] = DoneRefresh]
    /\ UNCHANGED <<now, user, sess, login, upgr, call, erasure, admin>>

\* The session's active token is handed out again, or an error that changed
\* nothing is answered.
Answer(r) ==
    /\ Decided(r, {"replayed", "refused"})
    /\ refr' = [refr EXCEPT ![r] = DoneRefresh]
    /\ UNCHANGED <<now, user, sess, tok, login, upgr, call, erasure, admin>>

FreeBut(S, r) ==
    /\ \A q \in Refreshes \ {r} : refr[q].st = "locked" => tok[refr[q].tok].sess \notin S
    /\ \A u \in Upgrades : upgr[u].st = "locked" => upgr[u].sess \notin S

\* Reuse after the window, or a session past its time: the session goes and
\* with commitAndFail the transaction commits although the request fails.
EndSession(r) ==
    /\ Decided(r, {"reused", "expired"})
    /\ FreeBut({SessionOf(r)}, r)
    /\ sess' = SessionsWithout({SessionOf(r)})
    /\ tok' = TokensWithout({SessionOf(r)})
    /\ refr' = [refr EXCEPT ![r] = DoneRefresh]
    /\ UNCHANGED <<now, user, login, upgr, call, erasure, admin>>

\* A statement failed or the transaction was a deadlock's victim.
RefreshAborts(r) ==
    /\ Decided(r, {"rotated", "reused", "expired"})
    /\ refr' = [refr EXCEPT ![r] = DoneRefresh]
    /\ UNCHANGED <<now, user, sess, tok, login, upgr, call, erasure, admin>>

-----------------------------------------------------------------------------
(***************************************************************************)
(* finalizeFactorVerification: the update of sessions.aal holds the        *)
(* session's row, then the active token is read and replaced.  The AMR     *)
(* claim inserted first fails when the session is gone.                    *)
(***************************************************************************)

LockSession(u, l) ==
    /\ upgr[u].st = "idle"
    /\ Live(l) /\ Unlocked(l)
    /\ \E t \in Tokens \cup {NoToken} :
          /\ IF ActiveOf(l) = {} THEN t = NoToken ELSE t \in ActiveOf(l)
          /\ upgr' = [upgr EXCEPT ![u] = [st |-> "locked", sess |-> l, cur |-> t, at |-> now]]
    /\ UNCHANGED <<now, user, sess, tok, login, refr, call, erasure, admin>>

\* Sessions below aal2, which the verification ends.
Lower(l) == {o \in Logins \ {l} : Live(o) /\ sess[o].aal = "aal1"}

SwapToken(u) ==
    LET l == upgr[u].sess
        c == upgr[u].cur
        rest == TokensWithout(Lower(l))
        retired == IF c \in Tokens /\ Exists(c) THEN Revoke(rest, c, upgr[u].at) ELSE rest
    IN  /\ upgr[u].st = "locked"
        /\ ~RefreshLocks(c) /\ Free(Lower(l))
        /\ tok' = [retired EXCEPT ![u] = [st |-> "active", sess |-> l, parent |-> c,
                                          updated |-> upgr[u].at, aal |-> "aal2"]]
        /\ sess' = [SessionsWithout(Lower(l)) EXCEPT ![l].aal = "aal2"]
        /\ upgr' = [upgr EXCEPT ![u] = DoneUpgrade]
        /\ UNCHANGED <<now, user, login, refr, call, erasure, admin>>

UpgradeAborts(u) ==
    /\ upgr[u].st = "locked"
    /\ upgr' = [upgr EXCEPT ![u] = DoneUpgrade]
    /\ UNCHANGED <<now, user, sess, tok, login, refr, call, erasure, admin>>

-----------------------------------------------------------------------------
(***************************************************************************)
(* Requests with an access token: authenticate checks the user and the     *)
(* session before the handler's transaction starts.                        *)
(***************************************************************************)

Authenticate(c, l) ==
    /\ call[c] = NoSession
    /\ user.state = "there" /\ ~Banned /\ Live(l)
    /\ call' = [call EXCEPT ![c] = l]
    /\ UNCHANGED <<now, user, sess, tok, login, refr, upgr, erasure, admin>>

\* logout: scope local ends the caller's session, others the rest, global all.
Logout(c) ==
    /\ call[c] # NoSession
    /\ \E S \in {{call[c]}, Logins \ {call[c]}, Logins} : Delete(S)
    /\ call' = [call EXCEPT ![c] = NoSession]
    /\ UNCHANGED <<now, user, login, refr, upgr, erasure, admin>>

\* updateUser with a password ends every session but the caller's.
ChangePassword(c) ==
    /\ call[c] # NoSession
    /\ user.state # "gone"
    /\ user' = [user EXCEPT !.password = TRUE]
    /\ Delete(Logins \ {call[c]})
    /\ call' = [call EXCEPT ![c] = NoSession]
    /\ UNCHANGED <<now, login, refr, upgr, erasure, admin>>

-----------------------------------------------------------------------------
(***************************************************************************)
(* The administrator, the erasure pipeline and the cleanup worker.         *)
(***************************************************************************)

\* adminUpdateUser with a password, possibly empty.
SetPassword ==
    /\ admin < MaxAdmin /\ user.state # "gone"
    /\ \E p \in BOOLEAN : user' = [user EXCEPT !.password = p]
    /\ Delete(Logins) /\ Overtake
    /\ admin' = admin + 1
    /\ UNCHANGED <<now, refr, upgr, call, erasure>>

BanOnly ==
    /\ admin < MaxAdmin /\ user.state # "gone"
    /\ \E d \in BanLengths : user' = [user EXCEPT !.until = now + d]
    /\ Overtake
    /\ admin' = admin + 1
    /\ UNCHANGED <<now, sess, tok, refr, upgr, call, erasure>>

\* adminUpdateUser with a ban duration.
Ban ==
    /\ admin < MaxAdmin /\ user.state # "gone"
    /\ \E d \in BanLengths : user' = [user EXCEPT !.until = now + d]
    /\ Delete(Logins) /\ Overtake
    /\ admin' = admin + 1
    /\ UNCHANGED <<now, refr, upgr, call, erasure>>

\* The ban duration "none".
Unban ==
    /\ admin < MaxAdmin /\ user.state # "gone"
    /\ user' = [user EXCEPT !.until = 0]
    /\ admin' = admin + 1
    /\ UNCHANGED <<now, sess, tok, login, refr, upgr, call, erasure>>

\* adminDeleteUser, soft or hard; a soft deletion leaves a deleted row alone.
DeleteUser ==
    /\ admin < MaxAdmin /\ user.state # "gone"
    /\ \E s \in {"soft", "gone"} :
          user' = IF s = user.state THEN user ELSE [user EXCEPT !.state = s, !.password = FALSE]
    /\ Delete(Logins) /\ Overtake
    /\ admin' = admin + 1
    /\ UNCHANGED <<now, refr, upgr, call, erasure>>

\* Steps 100 credential, 200 refresh-token, 300 session and 1000 account, each
\* of statements of their own.
EraseCredential ==
    /\ admin < MaxAdmin
    /\ erasure = 0 /\ erasure' = 1
    /\ user' = [user EXCEPT !.password = FALSE]
    /\ admin' = admin + 1
    /\ UNCHANGED <<now, sess, tok, login, refr, upgr, call>>

EraseRefreshTokens ==
    /\ erasure = 1 /\ erasure' = 2
    /\ \A t \in Tokens : ~RefreshLocks(t)
    /\ tok' = [t \in Tokens |-> IF Exists(t) THEN GoneTok ELSE tok[t]]
    /\ UNCHANGED <<now, user, sess, login, refr, upgr, call, admin>>

EraseSessions ==
    /\ erasure = 2 /\ erasure' = 3
    /\ Delete(Logins)
    /\ UNCHANGED <<now, user, login, refr, upgr, call, admin>>

EraseAccount ==
    /\ erasure = 3 /\ erasure' = 4
    /\ user' = [user EXCEPT !.state = IF @ = "there" THEN "soft" ELSE @]
    /\ UNCHANGED <<now, sess, tok, login, refr, upgr, call, admin>>

\* cleanupOnce, statement by statement; a batch takes every due row.  Its clock
\* is read before the first statement: a later one may spare rows that have
\* become due meanwhile.
Spent == {t \in Tokens : tok[t].st = "revoked" /\ tok[t].updated + Retention < now}

SweepTokens ==
    /\ Spent # {}
    /\ \A t \in Spent : ~RefreshLocks(t)
    /\ tok' = [t \in Tokens |-> IF t \in Spent THEN GoneTok ELSE tok[t]]
    /\ UNCHANGED <<now, user, sess, login, refr, upgr, call, erasure, admin>>

Aged == {l \in Logins : Live(l) /\ Timebox > 0 /\ sess[l].created + Timebox < now}
Idle == {l \in Logins : Live(l) /\ Inactivity > 0 /\ sess[l].refreshed + Inactivity < now}

SweepSessions ==
    /\ \E S \in {Aged, Idle} : S # {} /\ Delete(S)
    /\ UNCHANGED <<now, user, login, refr, upgr, call, erasure, admin>>

Tick ==
    /\ now < MaxTime
    /\ now' = now + 1
    /\ UNCHANGED <<user, sess, tok, login, refr, upgr, call, erasure, admin>>

-----------------------------------------------------------------------------

Next ==
    \/ \E l \in Logins : ReadUser(l) \/ GrantSession(l) \/ SignInFails(l)
    \/ \E r \in Refreshes :
          \/ \E t \in Tokens : LockToken(r, t)
          \/ Rotate(r) \/ Answer(r) \/ EndSession(r) \/ RefreshAborts(r)
    \/ \E u \in Upgrades :
          \/ \E l \in Logins : LockSession(u, l)
          \/ SwapToken(u) \/ UpgradeAborts(u)
    \/ \E c \in Callers :
          \/ \E l \in Logins : Authenticate(c, l)
          \/ Logout(c) \/ ChangePassword(c)
    \/ SetPassword \/ Ban \/ Unban \/ DeleteUser
    \/ EraseCredential \/ EraseRefreshTokens \/ EraseSessions \/ EraseAccount
    \/ SweepTokens \/ SweepSessions
    \/ Tick

Spec == Init /\ [][Next]_vars

-----------------------------------------------------------------------------
(***************************************************************************)
(* Properties.                                                             *)
(***************************************************************************)

(* A refresh token exists only with its session, and a session has exactly  *)
(* one active token, whatever refreshes, factor verifications, logouts and  *)
(* sweeps run at once (grant.go, factors.go); between the steps 200 and 300 *)
(* of an erasure it may have none.                                          *)
OneActiveToken ==
    /\ \A t \in Tokens : Exists(t) => tok[t].sess \in Logins /\ Live(tok[t].sess)
    /\ \A l \in Logins : \A t1, t2 \in ActiveOf(l) : t1 = t2
    /\ \A l \in Logins : Live(l) => ActiveOf(l) # {} \/ erasure = 2

(* A token has at most one successor: two requests that present it at once  *)
(* do not both rotate it (findRefreshTokenForUpdate, "reuse detection       *)
(* depends on that").                                                       *)
TokensRotateOnce ==
    \A t1, t2 \in Tokens :
        Exists(t1) /\ Exists(t2) /\ tok[t1].parent = tok[t2].parent /\ tok[t1].parent # NoToken
            => t1 = t2

\* A ban or a deletion by an administrator is in force; an erased account is
\* deleted too, but by a step that ends no session.
SwitchedOff == Banned \/ (user.state # "there" /\ erasure < 4)

(* While the user is banned or deleted, only a sign-in that had read the    *)
(* user before has a session (adminUpdateUser, adminDeleteUser against      *)
(* passwordGrant).                                                          *)
SwitchedOffIsSignedOut ==
    SwitchedOff => \A l \in Logins : Live(l) => login[l] = "late"

(* No refresh that decided before a ban or a deletion commits its answer    *)
(* after it, and none that comes later is answered (refreshTokenGrant).     *)
SwitchedOffGetsNothing ==
    SwitchedOff => \A r \in Refreshes : refr[r].verdict \notin {"rotated", "replayed"}

(* sessions.refreshed_at, which the inactivity timeout and                  *)
(* checkSinglePerUser compare, never goes back, although a refresh writes   *)
(* the time it read when it took the token's row (touchSession).            *)
RefreshedNeverGoesBack ==
    [][\A l \in Logins : Live(l) /\ Live(l)' => sess[l].refreshed <= sess'[l].refreshed]_vars

(* The service keeps the promise of SessionLifecycle: whatever is under way *)
(* at once, a session has one key, and a token that was replaced, replayed  *)
(* or deleted is the key of no session again (refreshTokenGrant,            *)
(* finalizeFactorVerification, deleteSession, cleanupOnce).                 *)
KeyOf(l) == IF ActiveOf(l) = {} THEN NoToken ELSE CHOOSE t \in ActiveOf(l) : TRUE

Lifecycle == INSTANCE SessionLifecycle
    WITH Sessions <- Logins,
         phase <- [l \in Logins |-> sess[l].st],
         key <- [l \in Logins |-> KeyOf(l)],
         issued <- {t \in Tokens : tok[t].st # "none"}

ImplementsSessions == Lifecycle!Spec

(* What the cleanup deletes is already unusable: a refresh with the token   *)
(* in hand would be refused as expired.  The token of a factor verification *)
(* is the exception: SwapToken leaves refreshed_at alone (cleanup.go:65).   *)
CleanupTakesUnusable ==
    \A l \in Aged \cup Idle : \A t \in ActiveOf(l) \ Upgrades : Expired(l, t)

(* With SinglePerUser, of the valid sessions one can always be refreshed:   *)
(* two logins do not lock each other out (checkSinglePerUser).              *)
SomeoneWins ==
    LET V == {l \in Logins : Live(l) /\ StillValid(l)}
    IN  V # {} => \E l \in V : \A t \in ActiveOf(l) : ~Outranked(l, t)

(* The comment at factors.go:568: the refresh token an aal1 client holds    *)
(* "can never be replayed into an AAL2 session".                            *)
UpgradeRetiresToken ==
    \A r \in Refreshes :
        refr[r].verdict = "replayed" => tok[refr[r].tok].aal = sess[SessionOf(r)].aal

=============================================================================
