------------------------ MODULE AuthSessionsProofs ------------------------
(***************************************************************************)
(* Proofs about AuthSessions, for every number of requests, every clock    *)
(* and every configuration of windows and time-outs, and, in a section of  *)
(* their own at the end, about the subject vault.                          *)
(***************************************************************************)
EXTENDS AuthSessions, SubjectVault, TLAPS

-----------------------------------------------------------------------------
(***************************************************************************)
(* The inductive invariant behind the properties of AuthSessions.          *)
(***************************************************************************)

\* A request in flight has made nothing yet.
Unmade ==
    /\ \A l \in Logins : login[l] \in {"idle", "read", "stale"} => sess[l].st = "none" /\ tok[l].st = "none"
    /\ \A r \in Refreshes : refr[r].st # "done" => tok[r].st = "none"
    /\ \A u \in Upgrades : upgr[u].st # "done" => tok[u].st = "none"

\* A lock is on a row that exists, and only one transaction has it.
Locks ==
    /\ \A t \in Tokens : Exists(t) => tok[t].sess \in Logins /\ Live(tok[t].sess)
    /\ \A r \in Refreshes : refr[r].st = "locked" => refr[r].tok \in Tokens /\ Exists(refr[r].tok)
    /\ \A r, q \in Refreshes :
          refr[r].st = "locked" /\ refr[q].st = "locked" /\ refr[r].tok = refr[q].tok => r = q
    /\ \A u \in Upgrades : upgr[u].st = "locked" => upgr[u].sess \in Logins /\ Live(upgr[u].sess)
    /\ \A u, v \in Upgrades :
          upgr[u].st = "locked" /\ upgr[v].st = "locked" /\ upgr[u].sess = upgr[v].sess => u = v

\* The token to be rotated is still active, and the one a verification read is
\* still the only active one of its session unless an erasure removed it.
Chosen ==
    /\ \A r \in Refreshes :
          refr[r].st = "locked" /\ refr[r].verdict = "rotated" => tok[refr[r].tok].st = "active"
    /\ \A u \in Upgrades : upgr[u].st = "locked" =>
          /\ \A t \in ActiveOf(upgr[u].sess) : t = upgr[u].cur
          /\ upgr[u].cur \in Tokens => 
                \/ tok[upgr[u].cur].st = "active" /\ tok[upgr[u].cur].sess = upgr[u].sess
                \/ tok[upgr[u].cur].st = "gone"

\* A token with a successor is used up, and the one a verification is about to
\* replace has none.
Parents ==
    /\ \A t \in Tokens : Exists(t) /\ tok[t].parent # NoToken => tok[tok[t].parent].st \in {"revoked", "gone"}
    /\ \A u \in Upgrades : upgr[u].st = "locked" /\ upgr[u].cur # NoToken =>
          \A t \in Tokens : Exists(t) => tok[t].parent # upgr[u].cur
    /\ \A u, v \in Upgrades :
          upgr[u].st = "locked" /\ upgr[v].st = "locked" /\ upgr[u].cur = upgr[v].cur
             => u = v \/ upgr[u].cur = NoToken

\* A sign-in that no revocation overtook is that of a user in good standing.
Standing ==
    /\ \A l \in Logins : login[l] = "read" => ~SwitchedOff
    /\ \A r \in Refreshes : refr[r].st # "locked" => refr[r].verdict = "none"

\* Times agree with the order of the commits.
Times ==
    /\ \A l \in Logins : Live(l) => sess[l].created <= sess[l].refreshed /\ sess[l].refreshed <= now
    /\ \A r \in Refreshes : refr[r].st = "locked" => refr[r].at <= now
    /\ \A r \in Refreshes :
          refr[r].st = "locked" /\ refr[r].verdict = "rotated" => sess[SessionOf(r)].refreshed <= refr[r].at
    /\ \A t \in Logins \cup Refreshes :
          tok[t].st = "active" => tok[t].updated <= sess[tok[t].sess].refreshed

RowInv == Unmade /\ Locks
TokenInv == Chosen /\ OneActiveToken
ParentInv == Parents /\ TokensRotateOnce
StandingInv == Standing /\ SwitchedOffIsSignedOut /\ SwitchedOffGetsNothing

(* Everything the proofs rest on, as one invariant.                         *)
Inv == RowInv /\ TokenInv /\ ParentInv /\ StandingInv /\ Times

-----------------------------------------------------------------------------
(***************************************************************************)
(* Types.                                                                  *)
(***************************************************************************)

SessRows == [st : {"none", "live", "gone"}, created : Time, refreshed : Time, aal : Levels]
TokRows == [st : {"none", "active", "revoked", "gone"}, sess : Logins \cup {NoSession},
            parent : Tokens \cup {NoToken}, updated : Time, aal : Levels]
RefreshRows == [st : {"idle", "locked", "done"}, tok : Tokens \cup {NoToken}, at : Time, verdict : Verdicts]
UpgradeRows == [st : {"idle", "locked", "done"}, sess : Logins \cup {NoSession},
                cur : Tokens \cup {NoToken}, at : Time]

(* The rows that stand for nothing yet, and for something that is over.     *)
LEMMA Constants ==
    /\ NoSess \in SessRows /\ NoSess.st = "none"
    /\ GoneSess \in SessRows /\ GoneSess.st = "gone"
    /\ NoTok \in TokRows /\ NoTok.st = "none"
    /\ GoneTok \in TokRows /\ GoneTok.st = "gone"
    /\ IdleRefresh \in RefreshRows /\ IdleRefresh.st = "idle" /\ IdleRefresh.verdict = "none"
    /\ DoneRefresh \in RefreshRows /\ DoneRefresh.st = "done" /\ DoneRefresh.verdict = "none"
    /\ IdleUpgrade \in UpgradeRows /\ IdleUpgrade.st = "idle"
    /\ DoneUpgrade \in UpgradeRows /\ DoneUpgrade.st = "done"
BY SessionAssumption DEF NoSess, GoneSess, NoTok, GoneTok, IdleRefresh, DoneRefresh, IdleUpgrade,
    DoneUpgrade, SessRow, TokRow, RefreshRow, UpgradeRow, SessRows, TokRows, RefreshRows, UpgradeRows,
    Time, Levels, Verdicts

(* A request of one kind is none of another, and no token is NoToken.       *)
LEMMA Kinds ==
    /\ Logins \subseteq Tokens /\ Refreshes \subseteq Tokens /\ Upgrades \subseteq Tokens
    /\ NoToken \notin Tokens /\ NoSession \notin Logins
    /\ \A l \in Logins : l \notin Refreshes /\ l \notin Upgrades
    /\ \A r \in Refreshes : r \notin Upgrades
BY SessionAssumption DEF Tokens

\* What a deletion does to each row.
LEMMA Deleted ==
    ASSUME TypeOK, NEW S
    PROVE  /\ SessionsWithout(S) \in [Logins -> SessRows]
           /\ TokensWithout(S) \in [Tokens -> TokRows]
           /\ \A l \in Logins : l \in S /\ Live(l) => SessionsWithout(S)[l].st = "gone"
           /\ \A l \in Logins : ~(l \in S /\ Live(l)) => SessionsWithout(S)[l] = sess[l]
           /\ \A t \in Tokens : Exists(t) /\ tok[t].sess \in S => TokensWithout(S)[t].st = "gone"
           /\ \A t \in Tokens : ~(Exists(t) /\ tok[t].sess \in S) => TokensWithout(S)[t] = tok[t]
<1>1. sess \in [Logins -> SessRows] /\ tok \in [Tokens -> TokRows]
  BY DEF TypeOK, SessRows, TokRows
<1> QED
  BY <1>1, Constants DEF SessionsWithout, TokensWithout

(* The refresh grant always decides (refreshTokenGrant).                    *)
LEMMA VerdictTyped ==
    ASSUME NEW l, NEW t PROVE Verdict(l, t) \in Verdicts
BY DEF Verdict, Verdicts

(* What revokeRefreshToken does to the row, and to no other.                *)
LEMMA Revoked ==
    ASSUME NEW f \in [Tokens -> TokRows], NEW t \in Tokens, NEW at \in Time
    PROVE  /\ Revoke(f, t, at) \in [Tokens -> TokRows]
           /\ \A x \in Tokens : x # t => Revoke(f, t, at)[x] = f[x]
           /\ LET new == Revoke(f, t, at)[t]
              IN  /\ new.st = "revoked" /\ new.updated = at
                  /\ new.sess = f[t].sess /\ new.parent = f[t].parent /\ new.aal = f[t].aal
BY DEF Revoke, TokRows

(* updateSessionAALAndFactor changes the level only.                        *)
LEMMA Raised ==
    ASSUME NEW f \in [Logins -> SessRows], NEW l \in Logins
    PROVE  LET g == [f EXCEPT ![l].aal = "aal2"]
           IN  /\ g \in [Logins -> SessRows]
               /\ \A x \in Logins : x # l => g[x] = f[x]
               /\ g[l].st = f[l].st /\ g[l].created = f[l].created /\ g[l].refreshed = f[l].refreshed
BY DEF SessRows, Levels

(* Empty tables have their types.                                           *)
LEMMA InitTyped == Init => TypeOK
<1> SUFFICES ASSUME Init PROVE TypeOK
  OBVIOUS
<1>1. now \in Time /\ erasure \in 0 .. 4 /\ admin \in Nat
  BY SessionAssumption DEF Init, Time
<1>2. user \in [state : {"there", "soft", "gone"}, password : BOOLEAN, until : Nat]
  BY DEF Init
<1>3. sess \in [Logins -> SessRows] /\ tok \in [Tokens -> TokRows]
  BY Constants DEF Init
<1>4. refr \in [Refreshes -> RefreshRows] /\ upgr \in [Upgrades -> UpgradeRows]
  BY Constants DEF Init
<1>5. login \in [Logins -> {"idle", "read", "stale", "done", "late", "failed"}]
  BY DEF Init
<1>6. call \in [Callers -> Logins \cup {NoSession}]
  BY DEF Init
<1> QED
  BY <1>1, <1>2, <1>3, <1>4, <1>5, <1>6 DEF TypeOK, SessRows, TokRows, RefreshRows, UpgradeRows

(* Deleting sessions, and their tokens by cascade, keeps the types.         *)
LEMMA DeleteTyped ==
    ASSUME TypeOK, NEW S, Delete(S)
    PROVE  sess' \in [Logins -> SessRows] /\ tok' \in [Tokens -> TokRows]
BY Deleted DEF Delete

(* So does overtaking the sign-ins that have read the user.                 *)
LEMMA OvertakeTyped ==
    ASSUME TypeOK, Overtake
    PROVE  login' \in [Logins -> {"idle", "read", "stale", "done", "late", "failed"}]
BY DEF TypeOK, Overtake

Users == [state : {"there", "soft", "gone"}, password : BOOLEAN, until : Nat]

(* The updates of auth.users keep its type.                                 *)
LEMMA UserTyped ==
    ASSUME NEW w \in Users
    PROVE  /\ \A p \in BOOLEAN : [w EXCEPT !.password = p] \in Users
           /\ \A n \in Nat : [w EXCEPT !.until = n] \in Users
           /\ \A s \in {"there", "soft", "gone"} :
                 [w EXCEPT !.state = s] \in Users /\ [w EXCEPT !.state = s, !.password = FALSE] \in Users
BY DEF Users

\* A refresh that has decided to rotate holds a token of a live session.
LEMMA RotateFacts ==
    ASSUME TypeOK, Locks, NEW r \in Refreshes, Rotate(r)
    PROVE  /\ refr[r].tok \in Tokens /\ Exists(refr[r].tok)
           /\ SessionOf(r) \in Logins /\ Live(SessionOf(r)) /\ SessionOf(r) = tok[refr[r].tok].sess
           /\ refr[r].st = "locked" /\ refr[r].verdict = "rotated" /\ refr[r].at \in Time
           /\ sess[SessionOf(r)].aal \in Levels
           /\ \A u \in Upgrades : upgr[u].st = "locked" => upgr[u].sess # SessionOf(r)
BY DEF TypeOK, Locks, Rotate, Decided, SessionOf, Unlocked

(* Every request keeps the types; a rotation because its lock is on a row.  *)
LEMMA StepTyped == TypeOK /\ Locks /\ [Next]_vars => TypeOK'
<1> SUFFICES ASSUME TypeOK, Locks, [Next]_vars PROVE TypeOK'
  OBVIOUS
<1> USE DEF SessRows, TokRows, RefreshRows, UpgradeRows
<1>1. ASSUME NEW l \in Logins, ReadUser(l) \/ SignInFails(l) PROVE TypeOK'
  BY <1>1 DEF TypeOK, ReadUser, SignInFails
<1>2. ASSUME NEW l \in Logins, GrantSession(l) PROVE TypeOK'
  <2>1. [st |-> "live", created |-> now, refreshed |-> now, aal |-> "aal1"] \in SessRows
    BY DEF TypeOK, Levels
  <2>2. [st |-> "active", sess |-> l, parent |-> NoToken, updated |-> now, aal |-> "aal1"] \in TokRows
    BY DEF TypeOK, Levels
  <2>3. sess' \in [Logins -> SessRows] /\ tok' \in [Tokens -> TokRows]
    BY <1>2, <2>1, <2>2 DEF TypeOK, GrantSession
  <2> QED
    BY <1>2, <2>3 DEF TypeOK, GrantSession
<1>3. ASSUME NEW r \in Refreshes, NEW t \in Tokens, LockToken(r, t) PROVE TypeOK'
  <2>1. Verdict(tok[t].sess, t) \in Verdicts
    BY VerdictTyped
  <2>2. [st |-> "locked", tok |-> t, at |-> now, verdict |-> Verdict(tok[t].sess, t)] \in RefreshRows
    BY <2>1 DEF TypeOK
  <2>3. refr' \in [Refreshes -> RefreshRows]
    BY <1>3, <2>2 DEF TypeOK, LockToken, Lock
  <2> QED
    BY <1>3, <2>3 DEF TypeOK, LockToken, Lock
<1>4. ASSUME NEW r \in Refreshes, Rotate(r) PROVE TypeOK'
  <2> DEFINE t == refr[r].tok
             l == SessionOf(r)
             child == [st |-> "active", sess |-> l, parent |-> t, updated |-> refr[r].at, aal |-> sess[l].aal]
  <2>1. t \in Tokens /\ l \in Logins /\ refr[r].at \in Time /\ sess[l].aal \in Levels
    BY <1>4, RotateFacts
  <2>2. child \in TokRows
    BY <2>1
  <2>3. sess' = [sess EXCEPT ![l].refreshed = refr[r].at]
    BY <1>4 DEF Rotate, RotateAnd
  <2>4. tok' = [Revoke(tok, t, refr[r].at) EXCEPT ![r] = child]
    BY <1>4 DEF Rotate, RotateAnd
  <2>5. refr' \in [Refreshes -> RefreshRows] /\ UNCHANGED <<now, user, login, upgr, call, erasure, admin>>
    BY <1>4, Constants DEF TypeOK, Rotate, RotateAnd
  <2>8. tok \in [Tokens -> TokRows]
    BY DEF TypeOK
  <2> HIDE DEF l, t, child, TokRows
  <2>6. sess' \in [Logins -> SessRows]
    BY <2>1, <2>3 DEF TypeOK
  <2>7. tok' \in [Tokens -> TokRows]
    BY <2>1, <2>2, <2>4, <2>8, Revoked
  <2> QED
    BY <2>5, <2>6, <2>7 DEF TypeOK, TokRows
<1>5. ASSUME NEW r \in Refreshes, Answer(r) \/ RefreshAborts(r) PROVE TypeOK'
  <2>1. DoneRefresh \in RefreshRows
    BY Constants
  <2> QED
    BY <1>5, <2>1 DEF TypeOK, Answer, RefreshAborts
<1>6. ASSUME NEW r \in Refreshes, EndSession(r) PROVE TypeOK'
  <2>1. DoneRefresh \in RefreshRows
    BY Constants
  <2>2. sess' \in [Logins -> SessRows] /\ tok' \in [Tokens -> TokRows]
    BY <1>6, Deleted DEF EndSession
  <2> QED
    BY <1>6, <2>1, <2>2 DEF TypeOK, EndSession
<1>7. ASSUME NEW u \in Upgrades, NEW l \in Logins, LockSession(u, l) PROVE TypeOK'
  <2>1. PICK t \in Tokens \cup {NoToken} :
            upgr' = [upgr EXCEPT ![u] = [st |-> "locked", sess |-> l, cur |-> t, at |-> now]]
    BY <1>7 DEF LockSession
  <2>2. upgr' \in [Upgrades -> UpgradeRows]
    BY <2>1 DEF TypeOK
  <2> QED
    BY <1>7, <2>2 DEF TypeOK, LockSession
<1>8. ASSUME NEW u \in Upgrades, SwapToken(u) PROVE TypeOK'
  <2> DEFINE l == upgr[u].sess
             c == upgr[u].cur
             rest == TokensWithout(Lower(l))
             more == SessionsWithout(Lower(l))
             new == [st |-> "active", sess |-> l, parent |-> c, updated |-> upgr[u].at, aal |-> "aal2"]
  <2>1. upgr[u].at \in Time /\ l \in Logins /\ c \in Tokens \cup {NoToken}
    BY <1>8 DEF TypeOK, Locks, SwapToken
  <2>2. new \in TokRows
    BY <2>1 DEF Levels
  <2>3. /\ rest \in [Tokens -> TokRows] /\ more \in [Logins -> SessRows]
        /\ \/ tok' = [rest EXCEPT ![u] = new]
           \/ c \in Tokens /\ tok' = [Revoke(rest, c, upgr[u].at) EXCEPT ![u] = new]
        /\ sess' = [more EXCEPT ![l].aal = "aal2"]
    BY <1>8, Deleted DEF SwapToken
  <2> HIDE DEF l, c, rest, more, new, TokRows, SessRows
  <2>4. tok' \in [Tokens -> TokRows]
    BY <2>1, <2>2, <2>3, Revoked
  <2>5. sess' \in [Logins -> SessRows]
    BY <2>1, <2>3, Raised
  <2>6. upgr' \in [Upgrades -> UpgradeRows]
    BY <1>8, Constants DEF TypeOK, SwapToken
  <2> QED
    BY <1>8, <2>4, <2>5, <2>6 DEF TypeOK, SwapToken, TokRows, SessRows
<1>9. ASSUME NEW u \in Upgrades, UpgradeAborts(u) PROVE TypeOK'
  <2>1. DoneUpgrade \in UpgradeRows
    BY Constants
  <2> QED
    BY <1>9, <2>1 DEF TypeOK, UpgradeAborts
<1>10. ASSUME NEW c \in Callers, NEW l \in Logins, Authenticate(c, l) PROVE TypeOK'
  BY <1>10 DEF TypeOK, Authenticate
<1>11. ASSUME NEW c \in Callers, Logout(c) \/ ChangePassword(c) PROVE TypeOK'
  <2>1. sess' \in [Logins -> SessRows] /\ tok' \in [Tokens -> TokRows]
    BY <1>11, DeleteTyped DEF Logout, ChangePassword
  <2>4. user \in Users
    BY DEF TypeOK, Users
  <2>2. user' \in Users
    BY <1>11, <2>4, UserTyped DEF Logout, ChangePassword
  <2>3. call' \in [Callers -> Logins \cup {NoSession}]
    BY <1>11 DEF TypeOK, Logout, ChangePassword
  <2> QED
    BY <1>11, <2>1, <2>2, <2>3 DEF TypeOK, Users, Logout, ChangePassword
<1>12. CASE SetPassword \/ Ban \/ DeleteUser
  <2>1. sess' \in [Logins -> SessRows] /\ tok' \in [Tokens -> TokRows]
    BY <1>12, DeleteTyped DEF SetPassword, Ban, DeleteUser
  <2>2. login' \in [Logins -> {"idle", "read", "stale", "done", "late", "failed"}]
    BY <1>12, OvertakeTyped DEF SetPassword, Ban, DeleteUser
  <2>3. \A d \in BanLengths : now + d \in Nat
    BY SessionAssumption DEF TypeOK, Time
  <2>4. user \in Users
    BY DEF TypeOK, Users
  <2>5. user' \in Users
    BY <1>12, <2>3, <2>4, UserTyped DEF SetPassword, Ban, DeleteUser
  <2> QED
    BY <1>12, <2>1, <2>2, <2>5 DEF TypeOK, Users, SetPassword, Ban, DeleteUser
<1>13. CASE Unban \/ EraseCredential \/ EraseAccount \/ Tick
  <2>1. user \in Users /\ user.state \in {"there", "soft", "gone"}
    BY DEF TypeOK, Users
  <2>2. user' \in Users
    BY <1>13, <2>1, UserTyped DEF Unban, EraseCredential, EraseAccount, Tick
  <2>3. now' \in Time
    BY <1>13, SessionAssumption DEF TypeOK, Unban, EraseCredential, EraseAccount, Tick, Time
  <2> QED
    BY <1>13, <2>2, <2>3 DEF TypeOK, Users, Unban, EraseCredential, EraseAccount, Tick
<1>14. CASE EraseSessions \/ SweepSessions
  <2>1. sess' \in [Logins -> SessRows] /\ tok' \in [Tokens -> TokRows]
    BY <1>14, DeleteTyped DEF EraseSessions, SweepSessions
  <2> QED
    BY <1>14, <2>1 DEF TypeOK, EraseSessions, SweepSessions
<1>15. CASE EraseRefreshTokens \/ SweepTokens
  <2>1. tok' \in [Tokens -> TokRows]
    BY <1>15, Constants DEF TypeOK, EraseRefreshTokens, SweepTokens
  <2> QED
    BY <1>15, <2>1 DEF TypeOK, EraseRefreshTokens, SweepTokens
<1>16. CASE UNCHANGED vars
  BY <1>16 DEF TypeOK, vars
<1> QED
  BY <1>1, <1>2, <1>3, <1>4, <1>5, <1>6, <1>7, <1>8, <1>9, <1>10, <1>11, <1>12, <1>13, <1>14,
     <1>15, <1>16 DEF Next

-----------------------------------------------------------------------------
(***************************************************************************)
(* What each kind of step does to the rows, and that it keeps Core.        *)
(***************************************************************************)

Core == RowInv /\ TokenInv /\ ParentInv /\ Times

Early == {"idle", "read", "stale"}

\* No request turns back to where it has made nothing.
Onwards == \A l \in Logins : login'[l] \in Early => login[l] \in Early

(* Empty tables satisfy the invariant on the rows.                          *)
LEMMA InitCore == Init => Core
<1> SUFFICES ASSUME Init PROVE Core
  OBVIOUS
<1>1. /\ \A l \in Logins : sess[l].st = "none"
      /\ \A t \in Tokens : tok[t].st = "none"
      /\ \A r \in Refreshes : refr[r].st = "idle"
      /\ \A u \in Upgrades : upgr[u].st = "idle"
  BY Constants DEF Init
<1>2. RowInv
  BY <1>1, Kinds DEF RowInv, Unmade, Locks, Exists, Live
<1>3. TokenInv
  BY <1>1 DEF TokenInv, Chosen, OneActiveToken, ActiveOf, TokensOf, Exists, Live
<1>4. ParentInv
  BY <1>1 DEF ParentInv, Parents, TokensRotateOnce, Exists
<1>5. Times
  BY <1>1, Kinds DEF Times, Live
<1> QED
  BY <1>2, <1>3, <1>4, <1>5 DEF Core

\* Steps that leave sessions, tokens and transactions alone.
LEMMA QuietKeeps ==
    ASSUME TypeOK, TypeOK', Core, UNCHANGED <<sess, tok, refr, upgr>>, Onwards, now <= now',
           erasure = 2 => erasure' = 2
    PROVE  Core'
<1>1. RowInv'
  BY DEF Core, RowInv, Unmade, Locks, Exists, Live, Onwards, Early
<1>2. TokenInv'
  BY DEF Core, TokenInv, Chosen, OneActiveToken, ActiveOf, TokensOf, Exists, Live
<1>3. ParentInv'
  BY DEF Core, ParentInv, Parents, TokensRotateOnce, Exists
<1>4. Times'
  BY DEF Core, Times, SessionOf, Live, TypeOK, Time
<1> QED
  BY <1>1, <1>2, <1>3, <1>4 DEF Core

\* Tokens may vanish, active ones only while an erasure is between its steps.
LEMMA RemovalKeeps ==
    ASSUME TypeOK, TypeOK', Core, UNCHANGED <<now, sess, login, refr, upgr>>,
           NEW S \in SUBSET Tokens,
           \A t \in S : Exists(t) /\ ~RefreshLocks(t) /\ tok'[t].st = "gone",
           \A t \in Tokens \ S : tok'[t] = tok[t],
           erasure' = 2 \/ (erasure' = erasure /\ \A t \in S : tok[t].st = "revoked")
    PROVE  Core'
<1>1. \A t \in Tokens : Exists(t)' => t \notin S /\ tok'[t] = tok[t] /\ Exists(t)
  BY DEF Exists
<1>2. \A r \in Refreshes : refr[r].st = "locked" => refr[r].tok \in Tokens \ S
  BY DEF Core, RowInv, Locks, RefreshLocks
<1>3. RowInv'
  <2>1. Unmade'
    BY Kinds DEF Core, RowInv, Unmade, Exists
  <2>2. Locks'
    BY <1>1, <1>2 DEF Core, RowInv, Locks, Exists, Live
  <2> QED
    BY <2>1, <2>2 DEF RowInv
<1>4. TokenInv'
  <2>1. \A l \in Logins : ActiveOf(l)' \subseteq ActiveOf(l)
    BY <1>1 DEF ActiveOf, TokensOf
  <2>2. Chosen'
    <3>1. \A r \in Refreshes :
             refr'[r].st = "locked" /\ refr'[r].verdict = "rotated" => tok'[refr'[r].tok].st = "active"
      BY <1>2 DEF Core, TokenInv, Chosen
    <3>2. \A u \in Upgrades : upgr[u].st = "locked" => upgr[u].sess \in Logins
      BY DEF Core, RowInv, Locks
    <3>3. \A u \in Upgrades : upgr'[u].st = "locked" =>
             /\ \A t \in ActiveOf(upgr[u].sess)' : t = upgr[u].cur
             /\ upgr[u].cur \in Tokens =>
                   \/ tok'[upgr[u].cur].st = "active" /\ tok'[upgr[u].cur].sess = upgr[u].sess
                   \/ tok'[upgr[u].cur].st = "gone"
      BY <2>1, <3>2 DEF Core, TokenInv, Chosen
    <3> QED
      BY <3>1, <3>3 DEF Chosen, ActiveOf, TokensOf, Exists
  <2>3. OneActiveToken'
    <3>1. \A t \in Tokens : (Exists(t) => tok[t].sess \in Logins /\ Live(tok[t].sess))'
      BY <1>1 DEF Core, TokenInv, OneActiveToken, Live
    <3>2. \A l \in Logins : \A t1, t2 \in ActiveOf(l)' : t1 = t2
      BY <2>1 DEF Core, TokenInv, OneActiveToken
    <3>3. \A l \in Logins : Live(l)' => ActiveOf(l)' # {} \/ erasure' = 2
      <4>1. ASSUME NEW l \in Logins, Live(l), erasure' # 2 PROVE ActiveOf(l)' # {}
        <5>1. PICK t \in ActiveOf(l) : TRUE
          BY <4>1 DEF Core, TokenInv, OneActiveToken
        <5>2. t \in Tokens /\ t \notin S
          BY <4>1, <5>1 DEF ActiveOf, TokensOf
        <5> QED
          BY <5>1, <5>2 DEF ActiveOf, TokensOf, Exists
      <4> QED
        BY <4>1 DEF Live
    <3> QED
      BY <3>1, <3>2, <3>3 DEF OneActiveToken
  <2> QED
    BY <2>2, <2>3 DEF TokenInv
<1>5. ParentInv'
  <2>1. \A t \in Tokens : Exists(t) /\ tok[t].parent # NoToken =>
           tok[t].parent \in Tokens /\ tok'[tok[t].parent].st \in {"revoked", "gone"}
    BY DEF Core, ParentInv, Parents, TypeOK
  <2>2. Parents'
    BY <1>1, <2>1 DEF Core, ParentInv, Parents
  <2>3. TokensRotateOnce'
    BY <1>1 DEF Core, ParentInv, TokensRotateOnce
  <2> QED
    BY <2>2, <2>3 DEF ParentInv
<1>6. Times'
  <2>1. \A t \in Tokens : tok'[t].st = "active" => tok'[t] = tok[t]
    BY <1>1 DEF Exists
  <2> QED
    BY <1>2, <2>1, Kinds DEF Core, Times, SessionOf, Live
<1> QED
  BY <1>3, <1>4, <1>5, <1>6 DEF Core

\* Sessions are deleted, and their tokens with them.  Requests are free to
\* move on, and the one that deletes may end its own transaction, q.
LEMMA DeletionKeeps ==
    ASSUME TypeOK, TypeOK', Core, Onwards, UNCHANGED <<now, upgr>>, NEW S,
           sess' = SessionsWithout(S), tok' = TokensWithout(S),
           \A u \in Upgrades : upgr[u].st = "locked" => upgr[u].sess \notin S,
           \A r \in Refreshes : \/ refr'[r].st = "done" /\ refr[r].st = "locked"
                                \/ /\ refr'[r] = refr[r]
                                   /\ refr[r].st = "locked" => tok[refr[r].tok].sess \notin S,
           erasure' = erasure \/ Logins \subseteq S
    PROVE  Core'
<1>1. /\ \A l \in Logins : l \in S /\ Live(l) => sess'[l].st = "gone"
      /\ \A l \in Logins : ~(l \in S /\ Live(l)) => sess'[l] = sess[l]
      /\ \A t \in Tokens : Exists(t) /\ tok[t].sess \in S => tok'[t].st = "gone"
      /\ \A t \in Tokens : ~(Exists(t) /\ tok[t].sess \in S) => tok'[t] = tok[t]
  BY Deleted
<1>2. \A t \in Tokens : Exists(t)' => tok[t].sess \notin S /\ tok'[t] = tok[t] /\ Exists(t)
  BY <1>1 DEF Exists
<1>3. \A r \in Refreshes : refr'[r].st = "locked" =>
         refr'[r] = refr[r] /\ refr[r].tok \in Tokens /\ tok'[refr[r].tok] = tok[refr[r].tok]
  BY <1>1 DEF Core, RowInv, Locks
<1>4. \A l \in Logins : Live(l)' => l \notin S /\ Live(l) /\ sess'[l] = sess[l]
  BY <1>1 DEF Live
<1>5. \A l \in Logins : Live(l) /\ l \notin S => sess'[l] = sess[l]
  BY <1>1
<1>6. RowInv'
  <2>1. Unmade'
    <3>1. \A l \in Logins : sess[l].st = "none" => sess'[l].st = "none"
      BY <1>1 DEF Live
    <3>2. \A t \in Tokens : tok[t].st = "none" => tok'[t].st = "none"
      BY <1>1 DEF Exists
    <3>3. \A r \in Refreshes : refr'[r].st # "done" => refr[r].st # "done"
      OBVIOUS
    <3> QED
      BY <3>1, <3>2, <3>3, Kinds DEF Core, RowInv, Unmade, Onwards, Early
  <2>2. Locks'
    <3>1. \A t \in Tokens : (Exists(t) => tok[t].sess \in Logins /\ Live(tok[t].sess))'
      BY <1>2, <1>5 DEF Core, RowInv, Locks, Live
    <3>2. \A r \in Refreshes : (refr[r].st = "locked" => refr[r].tok \in Tokens /\ Exists(refr[r].tok))'
      BY <1>3 DEF Core, RowInv, Locks, Exists
    <3>3. \A r, q \in Refreshes :
             (refr[r].st = "locked" /\ refr[q].st = "locked" /\ refr[r].tok = refr[q].tok => r = q)'
      BY <1>3 DEF Core, RowInv, Locks
    <3>4. \A u \in Upgrades : (upgr[u].st = "locked" => upgr[u].sess \in Logins /\ Live(upgr[u].sess))'
      BY <1>5 DEF Core, RowInv, Locks, Live
    <3> QED
      BY <3>1, <3>2, <3>3, <3>4 DEF Core, RowInv, Locks
  <2> QED
    BY <2>1, <2>2 DEF RowInv
<1>7. TokenInv'
  <2>1. \A l \in Logins : ActiveOf(l)' \subseteq ActiveOf(l)
    BY <1>2 DEF ActiveOf, TokensOf
  <2>2. Chosen'
    <3>1. \A r \in Refreshes :
             (refr[r].st = "locked" /\ refr[r].verdict = "rotated" => tok[refr[r].tok].st = "active")'
      BY <1>3 DEF Core, TokenInv, Chosen
    <3>2. ASSUME NEW u \in Upgrades, upgr[u].st = "locked"
          PROVE  /\ \A t \in ActiveOf(upgr[u].sess)' : t = upgr[u].cur
                 /\ upgr[u].cur \in Tokens =>
                      \/ tok'[upgr[u].cur].st = "active" /\ tok'[upgr[u].cur].sess = upgr[u].sess
                      \/ tok'[upgr[u].cur].st = "gone"
      <4>1. upgr[u].sess \in Logins /\ upgr[u].sess \notin S
        BY <3>2 DEF Core, RowInv, Locks
      <4> QED
        BY <1>1, <2>1, <3>2, <4>1 DEF Core, TokenInv, Chosen
    <3> QED
      BY <3>1, <3>2 DEF Chosen, ActiveOf, TokensOf, Exists
  <2>3. OneActiveToken'
    <3>1. \A t \in Tokens : (Exists(t) => tok[t].sess \in Logins /\ Live(tok[t].sess))'
      BY <1>6 DEF RowInv, Locks
    <3>2. \A l \in Logins : \A t1, t2 \in ActiveOf(l)' : t1 = t2
      BY <2>1 DEF Core, TokenInv, OneActiveToken
    <3>3. ASSUME NEW l \in Logins, Live(l)', erasure' # 2 PROVE ActiveOf(l)' # {}
      <4>1. l \notin S /\ Live(l) /\ erasure = erasure'
        BY <1>4, <3>3
      <4>2. PICK t \in ActiveOf(l) : TRUE
        BY <3>3, <4>1 DEF Core, TokenInv, OneActiveToken
      <4>3. t \in Tokens /\ tok'[t] = tok[t]
        BY <1>1, <4>1, <4>2 DEF ActiveOf, TokensOf
      <4> QED
        BY <4>2, <4>3 DEF ActiveOf, TokensOf, Exists
    <3> QED
      BY <3>1, <3>2, <3>3 DEF OneActiveToken
  <2> QED
    BY <2>2, <2>3 DEF TokenInv
<1>8. ParentInv'
  <2>1. \A t \in Tokens : Exists(t) /\ tok[t].parent # NoToken =>
           tok[t].parent \in Tokens /\ tok'[tok[t].parent].st \in {"revoked", "gone"}
    BY <1>1 DEF Core, ParentInv, Parents, TypeOK
  <2>2. Parents'
    BY <1>2, <2>1 DEF Core, ParentInv, Parents
  <2>3. TokensRotateOnce'
    BY <1>2 DEF Core, ParentInv, TokensRotateOnce
  <2> QED
    BY <2>2, <2>3 DEF ParentInv
<1>9. Times'
  <2>1. \A l \in Logins : (Live(l) => sess[l].created <= sess[l].refreshed /\ sess[l].refreshed <= now)'
    BY <1>4 DEF Core, Times
  <2>2. \A r \in Refreshes : (refr[r].st = "locked" => refr[r].at <= now)'
    BY <1>3 DEF Core, Times
  <2>3. ASSUME NEW r \in Refreshes, refr'[r].st = "locked", refr'[r].verdict = "rotated"
        PROVE  (sess[SessionOf(r)].refreshed <= refr[r].at)'
    <3>1. tok[refr[r].tok].sess \in Logins /\ Live(tok[refr[r].tok].sess) /\ tok[refr[r].tok].sess \notin S
      BY <1>3, <2>3 DEF Core, RowInv, Locks
    <3> QED
      BY <1>3, <1>5, <2>3, <3>1 DEF Core, Times, SessionOf
  <2>4. ASSUME NEW t \in Logins \cup Refreshes, tok'[t].st = "active"
        PROVE  (tok[t].updated <= sess[tok[t].sess].refreshed)'
    <3>1. t \in Tokens /\ tok'[t] = tok[t] /\ Exists(t) /\ tok[t].sess \notin S
      BY <1>2, <2>4, Kinds DEF Exists
    <3>2. sess'[tok[t].sess] = sess[tok[t].sess]
      BY <1>5, <3>1 DEF Core, RowInv, Locks
    <3> QED
      BY <2>4, <3>1, <3>2 DEF Core, Times
  <2> QED
    BY <2>1, <2>2, <2>3, <2>4 DEF Times
<1> QED
  BY <1>6, <1>7, <1>8, <1>9 DEF Core

\* Transactions end without a change to the rows.
LEMMA EndKeeps ==
    ASSUME TypeOK, TypeOK', Core, UNCHANGED <<now, sess, tok, login, erasure>>,
           \A r \in Refreshes : refr'[r] = refr[r] \/ refr'[r].st = "done",
           \A u \in Upgrades : upgr'[u] = upgr[u] \/ upgr'[u].st = "done"
    PROVE  Core'
<1>1. RowInv'
  <2>1. Unmade'
    BY DEF Core, RowInv, Unmade
  <2>2. Locks'
    BY DEF Core, RowInv, Locks, Exists, Live
  <2> QED
    BY <2>1, <2>2 DEF RowInv
<1>2. TokenInv'
  BY DEF Core, TokenInv, Chosen, OneActiveToken, ActiveOf, TokensOf, Exists, Live
<1>3. ParentInv'
  BY DEF Core, ParentInv, Parents, TokensRotateOnce, Exists
<1>4. Times'
  BY DEF Core, Times, SessionOf, Live
<1> QED
  BY <1>1, <1>2, <1>3, <1>4 DEF Core

(* grantSession adds a session with one token and touches no other row.     *)
LEMMA GrantKeeps ==
    ASSUME TypeOK, TypeOK', Core, NEW l \in Logins, GrantSession(l)
    PROVE  Core'
<1>1. /\ \A x \in Logins \ {l} : sess'[x] = sess[x] /\ login'[x] = login[x]
      /\ sess'[l] = [st |-> "live", created |-> now, refreshed |-> now, aal |-> "aal1"]
      /\ \A t \in Tokens \ {l} : tok'[t] = tok[t]
      /\ tok'[l] = [st |-> "active", sess |-> l, parent |-> NoToken, updated |-> now, aal |-> "aal1"]
      /\ login'[l] \in {"late", "done"} /\ login[l] \in Early
      /\ UNCHANGED <<now, refr, upgr, erasure>>
  BY Kinds DEF GrantSession, TypeOK, Early
<1>2. sess[l].st = "none" /\ tok[l].st = "none"
  BY <1>1 DEF Core, RowInv, Unmade, Early
<1>3. \A t \in Tokens : Exists(t) => t # l /\ tok[t].sess # l /\ tok[t].sess \in Logins /\ Live(tok[t].sess)
  BY <1>2 DEF Core, RowInv, Locks, Exists, Live
<1>4. \A t \in Tokens : Exists(t)' => t = l \/ (tok'[t] = tok[t] /\ Exists(t))
  BY <1>1 DEF Exists
<1>5. \A r \in Refreshes : refr[r].st = "locked" =>
         refr[r].tok \in Tokens \ {l} /\ tok[refr[r].tok].sess \in Logins \ {l}
  BY <1>3 DEF Core, RowInv, Locks
<1>6. \A u \in Upgrades : upgr[u].st = "locked" => upgr[u].sess \in Logins \ {l}
  BY <1>2 DEF Core, RowInv, Locks, Live
<1>7. RowInv'
  <2>1. Unmade'
    BY <1>1, Kinds DEF Core, RowInv, Unmade, Early
  <2>2. Locks'
    <3>1. \A t \in Tokens : (Exists(t) => tok[t].sess \in Logins /\ Live(tok[t].sess))'
      BY <1>1, <1>3, <1>4 DEF Live
    <3>2. \A r \in Refreshes : (refr[r].st = "locked" => refr[r].tok \in Tokens /\ Exists(refr[r].tok))'
      BY <1>1, <1>5 DEF Core, RowInv, Locks, Exists
    <3>3. \A u \in Upgrades : (upgr[u].st = "locked" => upgr[u].sess \in Logins /\ Live(upgr[u].sess))'
      BY <1>1, <1>6 DEF Core, RowInv, Locks, Live
    <3> QED
      BY <1>1, <3>1, <3>2, <3>3 DEF Core, RowInv, Locks
  <2> QED
    BY <2>1, <2>2 DEF RowInv
<1>8. TokenInv'
  <2>1. \A x \in Logins \ {l} : ActiveOf(x)' = ActiveOf(x)
    BY <1>1, <1>3 DEF ActiveOf, TokensOf, Exists
  <2>2. ActiveOf(l)' = {l}
    BY <1>1, <1>3, <1>4, Kinds DEF ActiveOf, TokensOf, Exists
  <2>3. Chosen'
    <3>1. \A r \in Refreshes :
             (refr[r].st = "locked" /\ refr[r].verdict = "rotated" => tok[refr[r].tok].st = "active")'
      BY <1>1, <1>5 DEF Core, TokenInv, Chosen
    <3>2. \A u \in Upgrades : upgr[u].st = "locked" => upgr[u].cur # l
      BY <1>2, Kinds DEF Core, TokenInv, Chosen
    <3>3. \A u \in Upgrades : upgr'[u].st = "locked" =>
             /\ \A t \in ActiveOf(upgr[u].sess)' : t = upgr[u].cur
             /\ upgr[u].cur \in Tokens =>
                   \/ tok'[upgr[u].cur].st = "active" /\ tok'[upgr[u].cur].sess = upgr[u].sess
                   \/ tok'[upgr[u].cur].st = "gone"
      BY <1>1, <1>6, <2>1, <3>2 DEF Core, TokenInv, Chosen
    <3> QED
      BY <1>1, <3>1, <3>3 DEF Chosen, ActiveOf, TokensOf, Exists
  <2>4. OneActiveToken'
    <3>1. \A t \in Tokens : (Exists(t) => tok[t].sess \in Logins /\ Live(tok[t].sess))'
      BY <1>7 DEF RowInv, Locks
    <3>2. \A x \in Logins : \A t1, t2 \in ActiveOf(x)' : t1 = t2
      BY <2>1, <2>2 DEF Core, TokenInv, OneActiveToken
    <3>3. \A x \in Logins : Live(x)' => ActiveOf(x)' # {} \/ erasure' = 2
      BY <1>1, <2>1, <2>2 DEF Core, TokenInv, OneActiveToken, Live
    <3> QED
      BY <3>1, <3>2, <3>3 DEF OneActiveToken
  <2> QED
    BY <2>3, <2>4 DEF TokenInv
<1>9. ParentInv'
  <2>1. \A t \in Tokens : Exists(t)' /\ tok'[t].parent # NoToken => tok'[t] = tok[t] /\ Exists(t)
    BY <1>1, <1>4
  <2>2. \A t \in Tokens : Exists(t) /\ tok[t].parent # NoToken =>
           tok[t].parent \in Tokens \ {l} /\ tok[tok[t].parent].st \in {"revoked", "gone"}
    BY <1>2 DEF Core, ParentInv, Parents, TypeOK
  <2>3. \A u \in Upgrades : upgr[u].st = "locked" /\ upgr[u].cur # NoToken =>
           \A t \in Tokens : Exists(t)' => tok'[t].parent # upgr[u].cur
    BY <1>1, <1>4 DEF Core, ParentInv, Parents
  <2>4. Parents'
    BY <1>1, <2>1, <2>2, <2>3 DEF Core, ParentInv, Parents
  <2>5. TokensRotateOnce'
    BY <2>1 DEF Core, ParentInv, TokensRotateOnce
  <2> QED
    BY <2>4, <2>5 DEF ParentInv
<1>10. Times'
  <2>1. \A x \in Logins : (Live(x) => sess[x].created <= sess[x].refreshed /\ sess[x].refreshed <= now)'
    BY <1>1 DEF Core, Times, Live, TypeOK, Time
  <2>2. \A r \in Refreshes : (refr[r].st = "locked" => refr[r].at <= now)'
    BY <1>1 DEF Core, Times
  <2>3. \A r \in Refreshes :
           (refr[r].st = "locked" /\ refr[r].verdict = "rotated" => sess[SessionOf(r)].refreshed <= refr[r].at)'
    BY <1>1, <1>5 DEF Core, Times, SessionOf
  <2>4. \A t \in Logins \cup Refreshes : (tok[t].st = "active" => tok[t].updated <= sess[tok[t].sess].refreshed)'
    BY <1>1, <1>3, Kinds DEF Core, Times, TypeOK, Time, Exists
  <2> QED
    BY <2>1, <2>2, <2>3, <2>4 DEF Times
<1> QED
  BY <1>7, <1>8, <1>9, <1>10 DEF Core

(* findRefreshTokenForUpdate takes a row that nobody holds.                 *)
LEMMA LockTokenKeeps ==
    ASSUME TypeOK, TypeOK', Core, NEW r \in Refreshes, NEW t \in Tokens, LockToken(r, t)
    PROVE  Core'
<1>1. /\ \A q \in Refreshes \ {r} : refr'[q] = refr[q]
      /\ refr'[r].st = "locked" /\ refr'[r].tok = t /\ refr'[r].at = now
      /\ refr'[r].verdict = Verdict(tok[t].sess, t)
      /\ refr[r].st = "idle" /\ Exists(t) /\ ~RefreshLocks(t)
      /\ UNCHANGED <<now, sess, tok, login, upgr, erasure>>
  BY DEF LockToken, Lock, TypeOK
<1>2. Verdict(tok[t].sess, t) = "rotated" => tok[t].st = "active"
  BY <1>1 DEF Verdict, Exists
<1>3. tok[t].sess \in Logins /\ Live(tok[t].sess)
  BY <1>1 DEF Core, RowInv, Locks
<1>4. RowInv'
  <2>1. Unmade'
    BY <1>1 DEF Core, RowInv, Unmade
  <2>2. Locks'
    BY <1>1 DEF Core, RowInv, Locks, Exists, Live, RefreshLocks
  <2> QED
    BY <2>1, <2>2 DEF RowInv
<1>5. TokenInv'
  BY <1>1, <1>2 DEF Core, TokenInv, Chosen, OneActiveToken, ActiveOf, TokensOf, Exists, Live
<1>6. ParentInv'
  BY <1>1 DEF Core, ParentInv, Parents, TokensRotateOnce, Exists
<1>7. Times'
  <2>1. \A q \in Refreshes : (refr[q].st = "locked" => refr[q].at <= now)'
    BY <1>1 DEF Core, Times, TypeOK, Time
  <2>2. \A q \in Refreshes :
           (refr[q].st = "locked" /\ refr[q].verdict = "rotated" => sess[SessionOf(q)].refreshed <= refr[q].at)'
    BY <1>1, <1>3 DEF Core, Times, SessionOf
  <2> QED
    BY <1>1, <2>1, <2>2 DEF Core, Times, Live
<1> QED
  BY <1>4, <1>5, <1>6, <1>7 DEF Core

(* A verification takes a session nobody verifies and reads its only token. *)
LEMMA LockSessionKeeps ==
    ASSUME TypeOK, TypeOK', Core, NEW u \in Upgrades, NEW l \in Logins, LockSession(u, l)
    PROVE  Core'
<1>1. PICK t \in Tokens \cup {NoToken} :
          /\ IF ActiveOf(l) = {} THEN t = NoToken ELSE t \in ActiveOf(l)
          /\ upgr' = [upgr EXCEPT ![u] = [st |-> "locked", sess |-> l, cur |-> t, at |-> now]]
  BY DEF LockSession
<1>2. /\ \A v \in Upgrades \ {u} : upgr'[v] = upgr[v]
      /\ upgr'[u].st = "locked" /\ upgr'[u].sess = l /\ upgr'[u].cur = t
      /\ upgr[u].st = "idle" /\ Live(l)
      /\ \A v \in Upgrades : upgr[v].st = "locked" => upgr[v].sess # l
      /\ UNCHANGED <<now, sess, tok, login, refr, erasure>>
  BY <1>1 DEF LockSession, TypeOK, Unlocked
<1>3. /\ \A x \in ActiveOf(l) : x = t
      /\ t \in Tokens => t \in ActiveOf(l)
  BY <1>1, Kinds DEF Core, TokenInv, OneActiveToken
<1>4. t \in Tokens => tok[t].st = "active" /\ tok[t].sess = l
  BY <1>3 DEF ActiveOf, TokensOf
<1>5. RowInv'
  <2>1. Unmade'
    BY <1>2 DEF Core, RowInv, Unmade
  <2>2. Locks'
    BY <1>2 DEF Core, RowInv, Locks, Exists, Live
  <2> QED
    BY <2>1, <2>2 DEF RowInv
<1>6. TokenInv'
  BY <1>2, <1>3, <1>4 DEF Core, TokenInv, Chosen, OneActiveToken, ActiveOf, TokensOf, Exists, Live
<1>7. ParentInv'
  <2>1. t # NoToken => t \in Tokens
    OBVIOUS
  <2>2. t # NoToken => \A x \in Tokens : Exists(x) => tok[x].parent # t
    BY <1>4, <2>1 DEF Core, ParentInv, Parents
  <2>3. \A v \in Upgrades \ {u} : upgr[v].st = "locked" => upgr[v].cur # t \/ t = NoToken
    BY <1>2, <1>4, <2>1 DEF Core, TokenInv, Chosen
  <2> QED
    BY <1>2, <2>2, <2>3 DEF Core, ParentInv, Parents, TokensRotateOnce, Exists
<1>8. Times'
  BY <1>2 DEF Core, Times, SessionOf, Live
<1> QED
  BY <1>5, <1>6, <1>7, <1>8 DEF Core

(* A rotation replaces the session's only active token: no other refresh    *)
(* holds that token, and no verification its session.                       *)
LEMMA RotateKeeps ==
    ASSUME TypeOK, TypeOK', Core, NEW r \in Refreshes, Rotate(r)
    PROVE  Core'
<1>0. PICK t \in Tokens, l \in Logins, at \in Time : t = refr[r].tok /\ l = SessionOf(r) /\ at = refr[r].at
  BY RotateFacts DEF Core, RowInv
<1>1. /\ t \in Tokens /\ l \in Logins /\ Live(l) /\ tok[t].sess = l /\ at \in Time
      /\ refr[r].st = "locked" /\ refr[r].verdict = "rotated"
      /\ \A u \in Upgrades : upgr[u].st = "locked" => upgr[u].sess # l
  BY <1>0, RotateFacts DEF Core, RowInv
<1>2. tok[r].st = "none" /\ tok[t].st = "active" /\ r \in Tokens /\ r # t
  BY <1>0, <1>1, Kinds DEF Core, RowInv, Unmade, TokenInv, Chosen
<1>3. /\ tok'[r].st = "active" /\ tok'[r].sess = l /\ tok'[r].parent = t /\ tok'[r].updated = at
      /\ tok'[t].st = "revoked" /\ tok'[t].sess = l /\ tok'[t].parent = tok[t].parent
      /\ \A x \in Tokens \ {r, t} : tok'[x] = tok[x]
  <2>1. tok' = [Revoke(tok, t, at) EXCEPT
                   ![r] = [st |-> "active", sess |-> l, parent |-> t, updated |-> at, aal |-> sess[l].aal]]
    BY <1>0 DEF Rotate, RotateAnd
  <2>2. tok \in [Tokens -> TokRows]
    BY DEF TypeOK, TokRows
  <2> QED
    BY <1>1, <1>2, <2>1, <2>2, Revoked
<1>4. /\ sess'[l].st = "live" /\ sess'[l].created = sess[l].created /\ sess'[l].refreshed = at
      /\ \A x \in Logins \ {l} : sess'[x] = sess[x]
  <2>1. sess' = [sess EXCEPT ![l].refreshed = at]
    BY <1>0 DEF Rotate, RotateAnd
  <2> QED
    BY <1>1, <2>1 DEF TypeOK, Live
<1>5. /\ refr'[r].st = "done" /\ \A q \in Refreshes \ {r} : refr'[q] = refr[q]
      /\ UNCHANGED <<now, login, upgr, erasure>>
  BY Constants DEF Rotate, RotateAnd, TypeOK
<1>6. \A q \in Refreshes : refr'[q].st = "locked" =>
         /\ q # r /\ refr'[q] = refr[q] /\ refr[q].tok \in Tokens \ {r, t}
         /\ tok'[refr[q].tok] = tok[refr[q].tok] /\ Exists(refr[q].tok)
  <2> SUFFICES ASSUME NEW q \in Refreshes, refr'[q].st = "locked"
               PROVE  /\ q # r /\ refr'[q] = refr[q] /\ refr[q].tok \in Tokens \ {r, t}
                      /\ tok'[refr[q].tok] = tok[refr[q].tok] /\ Exists(refr[q].tok)
    OBVIOUS
  <2>1. q # r /\ refr'[q] = refr[q] /\ refr[q].st = "locked"
    BY <1>5
  <2>2. refr[q].tok \in Tokens /\ Exists(refr[q].tok) /\ refr[q].tok # t
    BY <1>0, <1>1, <2>1 DEF Core, RowInv, Locks
  <2>3. refr[q].tok # r
    BY <1>2, <2>2 DEF Exists
  <2> QED
    BY <1>3, <2>1, <2>2, <2>3
<1>7. \A x \in Tokens : x # r /\ Exists(x)' =>
         /\ Exists(x) /\ tok'[x].sess = tok[x].sess /\ tok'[x].parent = tok[x].parent
         /\ tok'[x].st = "active" => x # t /\ tok'[x] = tok[x] /\ tok[x].sess # l
  <2> SUFFICES ASSUME NEW x \in Tokens, x # r, Exists(x)'
               PROVE  /\ Exists(x) /\ tok'[x].sess = tok[x].sess /\ tok'[x].parent = tok[x].parent
                      /\ tok'[x].st = "active" => x # t /\ tok'[x] = tok[x] /\ tok[x].sess # l
    OBVIOUS
  <2>1. CASE x = t
    BY <1>1, <1>2, <1>3, <2>1 DEF Exists
  <2>2. CASE x # t
    <3>1. tok'[x] = tok[x] /\ Exists(x)
      BY <1>3, <2>2 DEF Exists
    <3>2. tok[x].st = "active" => tok[x].sess # l
      BY <1>1, <1>2, <2>2 DEF Core, TokenInv, OneActiveToken, ActiveOf, TokensOf, Exists
    <3> QED
      BY <2>2, <3>1, <3>2
  <2> QED
    BY <2>1, <2>2
<1>8. \A u \in Upgrades : upgr[u].st = "locked" =>
         upgr[u].sess \in Logins \ {l} /\ upgr[u].cur # t /\ upgr[u].cur # r
  BY <1>1, <1>2 DEF Core, RowInv, Locks, TokenInv, Chosen
<1>9. RowInv'
  <2>1. Unmade'
    <3>1. \A x \in Logins : sess'[x].st = sess[x].st
      BY <1>1, <1>4 DEF Live
    <3>2. \A x \in Tokens : x # r /\ tok[x].st = "none" => tok'[x].st = "none"
      BY <1>2, <1>3
    <3> QED
      BY <1>5, <3>1, <3>2, Kinds DEF Core, RowInv, Unmade
  <2>2. Locks'
    <3>0. \A x \in Logins : Live(x) => Live(x)'
      BY <1>1, <1>4 DEF Live
    <3>1. \A x \in Tokens : (Exists(x) => tok[x].sess \in Logins /\ Live(tok[x].sess))'
      BY <1>1, <1>3, <1>4, <1>7, <3>0 DEF Core, RowInv, Locks, Live
    <3>2. \A q \in Refreshes : (refr[q].st = "locked" => refr[q].tok \in Tokens /\ Exists(refr[q].tok))'
      BY <1>6 DEF Exists
    <3>3. \A q, p \in Refreshes :
             (refr[q].st = "locked" /\ refr[p].st = "locked" /\ refr[q].tok = refr[p].tok => q = p)'
      BY <1>6 DEF Core, RowInv, Locks
    <3>4. \A u \in Upgrades : (upgr[u].st = "locked" => upgr[u].sess \in Logins /\ Live(upgr[u].sess))'
      BY <1>5, <3>0 DEF Core, RowInv, Locks, Live
    <3> QED
      BY <1>5, <3>1, <3>2, <3>3, <3>4 DEF Core, RowInv, Locks
  <2> QED
    BY <2>1, <2>2 DEF RowInv
<1>10. TokenInv'
  <2>1. \A x \in Logins \ {l} : ActiveOf(x)' = ActiveOf(x)
    BY <1>1, <1>2, <1>3 DEF ActiveOf, TokensOf, Exists
  <2>2. ActiveOf(l)' = {r}
    BY <1>2, <1>3, <1>7 DEF ActiveOf, TokensOf, Exists
  <2>3. Chosen'
    <3>1. \A q \in Refreshes :
             (refr[q].st = "locked" /\ refr[q].verdict = "rotated" => tok[refr[q].tok].st = "active")'
      BY <1>6 DEF Core, TokenInv, Chosen
    <3>2. \A u \in Upgrades : upgr[u].st = "locked" =>
             /\ \A x \in ActiveOf(upgr[u].sess)' : x = upgr[u].cur
             /\ upgr[u].cur \in Tokens =>
                   \/ tok'[upgr[u].cur].st = "active" /\ tok'[upgr[u].cur].sess = upgr[u].sess
                   \/ tok'[upgr[u].cur].st = "gone"
      BY <1>3, <1>5, <1>8, <2>1 DEF Core, TokenInv, Chosen
    <3> QED
      BY <1>5, <3>1, <3>2 DEF Chosen, ActiveOf, TokensOf, Exists
  <2>4. OneActiveToken'
    <3>1. \A x \in Tokens : (Exists(x) => tok[x].sess \in Logins /\ Live(tok[x].sess))'
      BY <1>9 DEF RowInv, Locks
    <3>2. \A x \in Logins : \A t1, t2 \in ActiveOf(x)' : t1 = t2
      BY <2>1, <2>2 DEF Core, TokenInv, OneActiveToken
    <3>3. \A x \in Logins : Live(x)' => ActiveOf(x)' # {} \/ erasure' = 2
      BY <1>4, <1>5, <2>1, <2>2 DEF Core, TokenInv, OneActiveToken, Live
    <3> QED
      BY <3>1, <3>2, <3>3 DEF OneActiveToken
  <2> QED
    BY <2>3, <2>4 DEF TokenInv
<1>11. ParentInv'
  <2>1. \A x \in Tokens : Exists(x) => tok[x].parent # t
    BY <1>1, <1>2, Kinds DEF Core, ParentInv, Parents
  <2>2. \A x \in Tokens : Exists(x) /\ tok[x].parent # NoToken =>
           tok[x].parent \in Tokens \ {r, t} /\ tok[tok[x].parent].st \in {"revoked", "gone"}
    BY <1>2, <2>1 DEF Core, ParentInv, Parents, TypeOK
  <2>3. \A x \in Tokens : (Exists(x) /\ tok[x].parent # NoToken => tok[tok[x].parent].st \in {"revoked", "gone"})'
    BY <1>3, <1>7, <2>2
  <2>4. \A u \in Upgrades : upgr[u].st = "locked" /\ upgr[u].cur # NoToken =>
           \A x \in Tokens : Exists(x)' => tok'[x].parent # upgr[u].cur
    BY <1>3, <1>7, <1>8 DEF Core, ParentInv, Parents
  <2>5. Parents'
    BY <1>5, <2>3, <2>4 DEF Core, ParentInv, Parents
  <2>6. TokensRotateOnce'
    BY <1>3, <1>7, <2>1 DEF Core, ParentInv, TokensRotateOnce
  <2> QED
    BY <2>5, <2>6 DEF ParentInv
<1>12. Times'
  <2>1. sess[l].created <= at /\ at <= now
    BY <1>0, <1>1 DEF Core, Times, TypeOK, Time
  <2>2. \A x \in Logins : (Live(x) => sess[x].created <= sess[x].refreshed /\ sess[x].refreshed <= now)'
    BY <1>4, <1>5, <2>1 DEF Core, Times, Live
  <2>3. \A q \in Refreshes : (refr[q].st = "locked" => refr[q].at <= now)'
    BY <1>5, <1>6 DEF Core, Times
  <2>4. ASSUME NEW q \in Refreshes, refr'[q].st = "locked", refr'[q].verdict = "rotated"
        PROVE  (sess[SessionOf(q)].refreshed <= refr[q].at)'
    <3>1. tok'[refr[q].tok].st = "active" /\ refr[q].tok \in Tokens \ {r, t} /\ refr'[q] = refr[q]
      BY <1>6, <2>4 DEF Core, TokenInv, Chosen
    <3>2. tok[refr[q].tok].sess \in Logins \ {l} /\ tok'[refr[q].tok] = tok[refr[q].tok]
      BY <1>6, <1>7, <2>4, <3>1 DEF Core, RowInv, Locks, Exists
    <3> QED
      BY <1>4, <2>4, <3>1, <3>2 DEF Core, Times, SessionOf
  <2>5. ASSUME NEW x \in Logins \cup Refreshes, tok'[x].st = "active"
        PROVE  (tok[x].updated <= sess[tok[x].sess].refreshed)'
    <3>1. CASE x = r
      BY <1>1, <1>3, <1>4, <3>1 DEF Time
    <3>2. CASE x # r
      <4>1. x \in Tokens /\ tok'[x] = tok[x] /\ tok[x].sess \in Logins \ {l}
        BY <1>7, <2>5, <3>2, Kinds DEF Core, RowInv, Locks, Exists
      <4> QED
        BY <1>4, <2>5, <4>1 DEF Core, Times
    <3> QED
      BY <3>1, <3>2
  <2> QED
    BY <2>2, <2>3, <2>4, <2>5 DEF Times
<1> QED
  BY <1>9, <1>10, <1>11, <1>12 DEF Core

(* A verification replaces the token it read, still the only active one,    *)
(* and ends the sessions below aal2.                                        *)
LEMMA SwapKeeps ==
    ASSUME TypeOK, TypeOK', Core, NEW u \in Upgrades, SwapToken(u)
    PROVE  Core'
<1>0. PICK l \in Logins, c \in Tokens \cup {NoToken}, at \in Time, L \in SUBSET Logins :
          /\ l \notin L /\ l = upgr[u].sess /\ c = upgr[u].cur /\ at = upgr[u].at
          /\ upgr[u].st = "locked" /\ Live(l) /\ L = Lower(l) /\ \A o \in L : Live(o)
          /\ ~RefreshLocks(c) /\ Free(L)
  <2>1. upgr[u].st = "locked" /\ upgr[u].sess \in Logins /\ Live(upgr[u].sess)
    BY DEF SwapToken, Core, RowInv, Locks
  <2> QED
    BY <2>1 DEF TypeOK, SwapToken, Lower
<1>1. /\ u \in Tokens /\ tok[u].st = "none" /\ u # c
      /\ \A x \in ActiveOf(l) : x = c
      /\ c \in Tokens => (tok[c].st = "active" /\ tok[c].sess = l) \/ tok[c].st = "gone"
  BY <1>0, Kinds DEF Core, RowInv, Unmade, TokenInv, Chosen
<1>2. /\ tok'[u].st = "active" /\ tok'[u].sess = l /\ tok'[u].parent = c
      /\ c \in Tokens => /\ tok'[c].st \in {"revoked", "gone"}
                         /\ tok'[c].sess = tok[c].sess /\ tok'[c].parent = tok[c].parent
                         /\ tok[c].st = "gone" => tok'[c].st = "gone"
      /\ \A x \in Tokens \ {u, c} : IF Exists(x) /\ tok[x].sess \in L THEN tok'[x].st = "gone" ELSE tok'[x] = tok[x]
  <2> DEFINE rest == TokensWithout(L)
             new == [st |-> "active", sess |-> l, parent |-> c, updated |-> at, aal |-> "aal2"]
  <2>1. /\ rest \in [Tokens -> TokRows]
        /\ \A x \in Tokens : IF Exists(x) /\ tok[x].sess \in L THEN rest[x].st = "gone" ELSE rest[x] = tok[x]
    BY Deleted
  <2>2. IF c \in Tokens /\ Exists(c) THEN tok' = [Revoke(rest, c, at) EXCEPT ![u] = new]
                                     ELSE tok' = [rest EXCEPT ![u] = new]
    BY <1>0 DEF SwapToken
  <2>3. new.st = "active" /\ new.sess = l /\ new.parent = c
    OBVIOUS
  <2> HIDE DEF rest, new
  <2>4. CASE c \in Tokens /\ Exists(c)
    <3>1. tok[c].st = "active" /\ tok[c].sess \notin L /\ rest[c] = tok[c]
      BY <1>0, <1>1, <2>1, <2>4 DEF Exists
    <3> QED
      BY <1>1, <2>1, <2>2, <2>3, <2>4, <3>1, Revoked
  <2>5. CASE ~(c \in Tokens /\ Exists(c))
    <3>1. c \in Tokens => tok[c].st = "gone" /\ rest[c] = tok[c]
      BY <1>1, <2>1, <2>5 DEF Exists
    <3> QED
      BY <1>1, <2>1, <2>2, <2>3, <2>5, <3>1
  <2> QED
    BY <2>4, <2>5
<1>3. /\ sess'[l].st = "live" /\ sess'[l].created = sess[l].created /\ sess'[l].refreshed = sess[l].refreshed
      /\ \A x \in L : sess'[x].st = "gone"
      /\ \A x \in Logins \ L : x # l => sess'[x] = sess[x]
  <2> DEFINE more == SessionsWithout(L)
  <2>1. /\ more \in [Logins -> SessRows]
        /\ \A x \in Logins : IF x \in L THEN more[x].st = "gone" ELSE more[x] = sess[x]
    BY <1>0, Deleted
  <2>2. sess' = [more EXCEPT ![l].aal = "aal2"]
    BY <1>0 DEF SwapToken
  <2> HIDE DEF more
  <2> QED
    BY <1>0, <2>1, <2>2, Raised DEF Live
<1>4. /\ upgr'[u].st = "done" /\ \A v \in Upgrades \ {u} : upgr'[v] = upgr[v]
      /\ UNCHANGED <<now, login, refr, erasure>>
  BY Constants DEF SwapToken, TypeOK
<1>5. \A x \in Tokens : x # u /\ Exists(x)' =>
         /\ Exists(x) /\ tok[x].sess \in Logins \ L /\ tok'[x].sess = tok[x].sess /\ tok'[x].parent = tok[x].parent
         /\ tok'[x].st = "active" => x # c /\ tok'[x] = tok[x] /\ tok[x].sess # l
  <2> SUFFICES ASSUME NEW x \in Tokens, x # u, Exists(x)'
               PROVE  /\ Exists(x) /\ tok[x].sess \in Logins \ L
                      /\ tok'[x].sess = tok[x].sess /\ tok'[x].parent = tok[x].parent
                      /\ tok'[x].st = "active" => x # c /\ tok'[x] = tok[x] /\ tok[x].sess # l
    OBVIOUS
  <2>1. CASE x = c
    BY <1>0, <1>1, <1>2, <2>1 DEF Exists
  <2>2. CASE x # c
    <3>1. tok'[x] = tok[x] /\ Exists(x) /\ tok[x].sess \notin L
      BY <1>2, <2>2 DEF Exists
    <3>2. tok[x].st = "active" => tok[x].sess # l
      BY <1>1, <2>2 DEF ActiveOf, TokensOf, Exists
    <3> QED
      BY <2>2, <3>1, <3>2 DEF Core, RowInv, Locks
  <2> QED
    BY <2>1, <2>2
<1>6. \A x \in Tokens : x # u =>
         /\ tok[x].st = "none" => tok'[x].st = "none"
         /\ tok[x].st \in {"revoked", "gone"} => tok'[x].st \in {"revoked", "gone"}
         /\ tok[x].st = "gone" => tok'[x].st = "gone"
  BY <1>1, <1>2 DEF Exists
<1>7. \A q \in Refreshes : refr[q].st = "locked" =>
         /\ refr[q].tok \in Tokens /\ Exists(refr[q].tok) /\ tok'[refr[q].tok] = tok[refr[q].tok]
         /\ tok[refr[q].tok].sess \in Logins \ L
  <2> SUFFICES ASSUME NEW q \in Refreshes, refr[q].st = "locked"
               PROVE  /\ refr[q].tok \in Tokens /\ Exists(refr[q].tok) /\ tok'[refr[q].tok] = tok[refr[q].tok]
                      /\ tok[refr[q].tok].sess \in Logins \ L
    OBVIOUS
  <2>1. refr[q].tok \in Tokens /\ Exists(refr[q].tok) /\ tok[refr[q].tok].sess \in Logins
    BY DEF Core, RowInv, Locks
  <2>2. refr[q].tok # c /\ tok[refr[q].tok].sess \notin L
    BY <1>0 DEF RefreshLocks, Free
  <2>3. refr[q].tok # u
    BY <1>1, <2>1 DEF Exists
  <2> QED
    BY <1>2, <2>1, <2>2, <2>3
<1>8. \A v \in Upgrades : upgr'[v].st = "locked" =>
         /\ v # u /\ upgr'[v] = upgr[v] /\ upgr[v].sess \in Logins \ L /\ upgr[v].sess # l /\ Live(upgr[v].sess)
         /\ upgr[v].cur # u /\ (upgr[v].cur = c => c = NoToken)
  <2> SUFFICES ASSUME NEW v \in Upgrades, upgr'[v].st = "locked"
               PROVE  /\ v # u /\ upgr'[v] = upgr[v] /\ upgr[v].sess \in Logins \ L /\ upgr[v].sess # l
                      /\ Live(upgr[v].sess)
                      /\ upgr[v].cur # u /\ (upgr[v].cur = c => c = NoToken)
    OBVIOUS
  <2>1. v # u /\ upgr'[v] = upgr[v] /\ upgr[v].st = "locked"
    BY <1>4
  <2>2. upgr[v].sess \in Logins /\ Live(upgr[v].sess) /\ upgr[v].sess # l
    BY <1>0, <2>1 DEF Core, RowInv, Locks
  <2>3. upgr[v].sess \notin L
    BY <1>0, <2>1 DEF Free
  <2>4. upgr[v].cur # u
    BY <1>1, <2>1 DEF Core, TokenInv, Chosen
  <2>5. upgr[v].cur = c => c = NoToken
    BY <1>0, <2>1 DEF Core, ParentInv, Parents
  <2> QED
    BY <2>1, <2>2, <2>3, <2>4, <2>5
<1>9. \A x \in Logins : Live(x)' => x \notin L /\ Live(x)
  BY <1>0, <1>3 DEF Live
<1>10. \A x \in Logins \ L : Live(x) =>
          Live(x)' /\ sess'[x].created = sess[x].created /\ sess'[x].refreshed = sess[x].refreshed
  BY <1>3 DEF Live
<1>11. RowInv'
  <2>1. Unmade'
    <3>1. \A x \in Logins : sess[x].st = "none" => sess'[x].st = "none"
      BY <1>0, <1>3 DEF Live
    <3> QED
      BY <1>4, <1>6, <3>1, Kinds DEF Core, RowInv, Unmade
  <2>2. Locks'
    <3>1. \A x \in Tokens : (Exists(x) => tok[x].sess \in Logins /\ Live(tok[x].sess))'
      <4>1. ASSUME NEW x \in Tokens, Exists(x)', x # u PROVE (tok[x].sess \in Logins /\ Live(tok[x].sess))'
        <5>1. tok'[x].sess = tok[x].sess /\ tok[x].sess \in Logins \ L /\ Live(tok[x].sess)
          BY <1>5, <4>1 DEF Core, RowInv, Locks
        <5> QED
          BY <1>10, <5>1 DEF Live
      <4> QED
        BY <1>2, <1>3, <4>1 DEF Live
    <3>2. \A q \in Refreshes : (refr[q].st = "locked" => refr[q].tok \in Tokens /\ Exists(refr[q].tok))'
      BY <1>4, <1>7 DEF Exists
    <3>3. \A v \in Upgrades : (upgr[v].st = "locked" => upgr[v].sess \in Logins /\ Live(upgr[v].sess))'
      BY <1>8, <1>10 DEF Live
    <3>4. \A v, w \in Upgrades :
             (upgr[v].st = "locked" /\ upgr[w].st = "locked" /\ upgr[v].sess = upgr[w].sess => v = w)'
      BY <1>8 DEF Core, RowInv, Locks
    <3> QED
      BY <1>4, <3>1, <3>2, <3>3, <3>4 DEF Core, RowInv, Locks
  <2> QED
    BY <2>1, <2>2 DEF RowInv
<1>12. TokenInv'
  <2>1. \A x \in Logins \ {l} : ActiveOf(x)' \subseteq ActiveOf(x)
    BY <1>0, <1>2, <1>5 DEF ActiveOf, TokensOf
  <2>2. ActiveOf(l)' = {u}
    BY <1>1, <1>2, <1>5 DEF ActiveOf, TokensOf, Exists
  <2>3. \A x \in Logins \ L : x # l => ActiveOf(x) \subseteq ActiveOf(x)'
    BY <1>1, <1>2 DEF ActiveOf, TokensOf, Exists
  <2>4. Chosen'
    <3>1. \A q \in Refreshes :
             (refr[q].st = "locked" /\ refr[q].verdict = "rotated" => tok[refr[q].tok].st = "active")'
      BY <1>4, <1>7 DEF Core, TokenInv, Chosen
    <3>2. ASSUME NEW v \in Upgrades, upgr'[v].st = "locked"
          PROVE  /\ \A x \in ActiveOf(upgr[v].sess)' : x = upgr'[v].cur
                 /\ upgr'[v].cur \in Tokens =>
                      \/ tok'[upgr'[v].cur].st = "active" /\ tok'[upgr'[v].cur].sess = upgr'[v].sess
                      \/ tok'[upgr'[v].cur].st = "gone"
      <4>1. upgr'[v] = upgr[v] /\ upgr[v].sess \in Logins \ L /\ upgr[v].sess # l
        BY <1>8, <3>2
      <4>2. \A x \in ActiveOf(upgr[v].sess)' : x = upgr'[v].cur
        BY <2>1, <3>2, <4>1 DEF Core, TokenInv, Chosen
      <4>3. upgr[v].cur \in Tokens =>
               /\ tok[upgr[v].cur].st = "active" => tok'[upgr[v].cur] = tok[upgr[v].cur]
               /\ \/ tok[upgr[v].cur].st = "active" /\ tok[upgr[v].cur].sess = upgr[v].sess
                  \/ tok[upgr[v].cur].st = "gone"
        BY <1>2, <1>8, <3>2, <4>1, Kinds DEF Core, TokenInv, Chosen
      <4> QED
        BY <1>6, <1>8, <3>2, <4>1, <4>2, <4>3
    <3> QED
      BY <3>1, <3>2 DEF Chosen, ActiveOf, TokensOf, Exists
  <2>5. OneActiveToken'
    <3>1. \A x \in Tokens : (Exists(x) => tok[x].sess \in Logins /\ Live(tok[x].sess))'
      BY <1>11 DEF RowInv, Locks
    <3>2. \A x \in Logins : \A t1, t2 \in ActiveOf(x)' : t1 = t2
      BY <2>1, <2>2 DEF Core, TokenInv, OneActiveToken
    <3>3. \A x \in Logins : Live(x)' => ActiveOf(x)' # {} \/ erasure' = 2
      BY <1>4, <1>9, <2>2, <2>3 DEF Core, TokenInv, OneActiveToken
    <3> QED
      BY <3>1, <3>2, <3>3 DEF OneActiveToken
  <2> QED
    BY <2>4, <2>5 DEF TokenInv
<1>13. ParentInv'
  <2>1. c # NoToken => \A x \in Tokens : Exists(x) => tok[x].parent # c
    BY <1>0 DEF Core, ParentInv, Parents
  <2>2. \A x \in Tokens : Exists(x) /\ tok[x].parent # NoToken =>
           tok[x].parent \in Tokens \ {u} /\ tok[tok[x].parent].st \in {"revoked", "gone"}
    BY <1>1 DEF Core, ParentInv, Parents, TypeOK
  <2>3. \A x \in Tokens : (Exists(x) /\ tok[x].parent # NoToken => tok[tok[x].parent].st \in {"revoked", "gone"})'
    BY <1>2, <1>5, <1>6, <2>2
  <2>4. \A v \in Upgrades : upgr'[v].st = "locked" /\ upgr'[v].cur # NoToken =>
           \A x \in Tokens : Exists(x)' => tok'[x].parent # upgr'[v].cur
    BY <1>2, <1>5, <1>8 DEF Core, ParentInv, Parents
  <2>5. \A v, w \in Upgrades :
           (upgr[v].st = "locked" /\ upgr[w].st = "locked" /\ upgr[v].cur = upgr[w].cur
              => v = w \/ upgr[v].cur = NoToken)'
    BY <1>8 DEF Core, ParentInv, Parents
  <2>6. Parents'
    BY <2>3, <2>4, <2>5 DEF Parents
  <2>7. TokensRotateOnce'
    BY <1>2, <1>5, <2>1 DEF Core, ParentInv, TokensRotateOnce
  <2> QED
    BY <2>6, <2>7 DEF ParentInv
<1>14. Times'
  <2>1. \A x \in Logins : (Live(x) => sess[x].created <= sess[x].refreshed /\ sess[x].refreshed <= now)'
    BY <1>4, <1>9, <1>10 DEF Core, Times
  <2>2. \A q \in Refreshes : (refr[q].st = "locked" => refr[q].at <= now)'
    BY <1>4 DEF Core, Times
  <2>3. \A q \in Refreshes :
           (refr[q].st = "locked" /\ refr[q].verdict = "rotated" => sess[SessionOf(q)].refreshed <= refr[q].at)'
    <3>1. \A q \in Refreshes : refr[q].st = "locked" => Live(tok[refr[q].tok].sess)
      BY DEF Core, RowInv, Locks
    <3> QED
      BY <1>4, <1>7, <1>10, <3>1 DEF Core, Times, SessionOf
  <2>4. ASSUME NEW x \in Logins \cup Refreshes, tok'[x].st = "active"
        PROVE  (tok[x].updated <= sess[tok[x].sess].refreshed)'
    <3>1. x \in Tokens /\ x # u
      BY Kinds
    <3>2. tok'[x] = tok[x] /\ tok[x].sess \in Logins \ L /\ Live(tok[x].sess)
      BY <1>5, <2>4, <3>1 DEF Core, RowInv, Locks, Exists
    <3> QED
      BY <1>10, <2>4, <3>2 DEF Core, Times
  <2> QED
    BY <2>1, <2>2, <2>3, <2>4 DEF Times
<1> QED
  BY <1>11, <1>12, <1>13, <1>14 DEF Core

(* Every step keeps the invariant on the rows.                              *)
LEMMA StepCore == TypeOK /\ TypeOK' /\ Core /\ [Next]_vars => Core'
<1> SUFFICES ASSUME TypeOK, TypeOK', Core, [Next]_vars PROVE Core'
  OBVIOUS
<1>1. ASSUME NEW l \in Logins, ReadUser(l) \/ SignInFails(l) PROVE Core'
  <2>1. Onwards /\ now <= now'
    BY <1>1 DEF ReadUser, SignInFails, TypeOK, Time, Onwards, Early
  <2> QED
    BY <1>1, <2>1, QuietKeeps DEF ReadUser, SignInFails
<1>2. ASSUME NEW l \in Logins, GrantSession(l) PROVE Core'
  BY <1>2, GrantKeeps
<1>3. ASSUME NEW r \in Refreshes, NEW t \in Tokens, LockToken(r, t) PROVE Core'
  BY <1>3, LockTokenKeeps
<1>4. ASSUME NEW r \in Refreshes, Rotate(r) PROVE Core'
  BY <1>4, RotateKeeps
<1>5. ASSUME NEW r \in Refreshes, Answer(r) \/ RefreshAborts(r) PROVE Core'
  <2>1. \A q \in Refreshes : refr'[q] = refr[q] \/ refr'[q].st = "done"
    BY <1>5, Constants DEF Answer, RefreshAborts, TypeOK
  <2> QED
    BY <1>5, <2>1, EndKeeps DEF Answer, RefreshAborts
<1>6. ASSUME NEW r \in Refreshes, EndSession(r) PROVE Core'
  <2>1. PICK S : S = {SessionOf(r)}
    OBVIOUS
  <2>2. \A q \in Refreshes : \/ refr'[q].st = "done" /\ refr[q].st = "locked"
                             \/ /\ refr'[q] = refr[q]
                                /\ refr[q].st = "locked" => tok[refr[q].tok].sess \notin S
    BY <1>6, <2>1, Constants DEF EndSession, TypeOK, FreeBut, Decided
  <2>3. /\ sess' = SessionsWithout(S) /\ tok' = TokensWithout(S) /\ UNCHANGED <<now, upgr, erasure>> /\ Onwards
        /\ \A u \in Upgrades : upgr[u].st = "locked" => upgr[u].sess \notin S
    BY <1>6, <2>1 DEF EndSession, FreeBut, Onwards
  <2> QED
    BY <2>2, <2>3, DeletionKeeps
<1>7. ASSUME NEW u \in Upgrades, NEW l \in Logins, LockSession(u, l) PROVE Core'
  BY <1>7, LockSessionKeeps
<1>8. ASSUME NEW u \in Upgrades, SwapToken(u) PROVE Core'
  BY <1>8, SwapKeeps
<1>9. ASSUME NEW u \in Upgrades, UpgradeAborts(u) PROVE Core'
  <2>1. \A v \in Upgrades : upgr'[v] = upgr[v] \/ upgr'[v].st = "done"
    BY <1>9, Constants DEF UpgradeAborts, TypeOK
  <2> QED
    BY <1>9, <2>1, EndKeeps DEF UpgradeAborts
<1>10. ASSUME NEW c \in Callers, NEW l \in Logins, Authenticate(c, l) PROVE Core'
  <2>1. Onwards /\ now <= now'
    BY <1>10 DEF Authenticate, TypeOK, Time, Onwards
  <2> QED
    BY <1>10, <2>1, QuietKeeps DEF Authenticate
<1>11. ASSUME NEW S, Delete(S), Onwards, UNCHANGED <<now, refr, upgr>>, erasure' = erasure \/ Logins \subseteq S
       PROVE  Core'
  BY <1>11, DeletionKeeps DEF Delete, Free
<1>12. ASSUME NEW c \in Callers, Logout(c) \/ ChangePassword(c) PROVE Core'
  <2>1. PICK S : Delete(S) /\ UNCHANGED <<now, login, refr, upgr, erasure>>
    BY <1>12 DEF Logout, ChangePassword
  <2>2. Onwards
    BY <2>1 DEF Onwards
  <2> QED
    BY <1>11, <2>1, <2>2
<1>13. CASE SetPassword \/ Ban \/ DeleteUser
  <2>1. Delete(Logins) /\ Overtake /\ UNCHANGED <<now, refr, upgr, erasure>>
    BY <1>13 DEF SetPassword, Ban, DeleteUser
  <2>2. Onwards
    BY <2>1 DEF Onwards, Overtake, Early
  <2> QED
    BY <1>11, <2>1, <2>2
<1>14. CASE EraseSessions
  <2>1. Onwards
    BY <1>14 DEF EraseSessions, Onwards
  <2> QED
    BY <1>11, <1>14, <2>1 DEF EraseSessions
<1>15. CASE SweepSessions
  <2>1. PICK S : Delete(S) /\ UNCHANGED <<now, login, refr, upgr, erasure>>
    BY <1>15 DEF SweepSessions
  <2>2. Onwards
    BY <2>1 DEF Onwards
  <2> QED
    BY <1>11, <2>1, <2>2
<1>16. CASE EraseRefreshTokens
  <2> DEFINE S == {t \in Tokens : Exists(t)}
  <2>1. PICK T \in SUBSET Tokens : T = S
    OBVIOUS
  <2>2. /\ \A t \in T : Exists(t) /\ ~RefreshLocks(t) /\ tok'[t].st = "gone"
        /\ \A t \in Tokens \ T : tok'[t] = tok[t]
        /\ erasure' = 2 /\ UNCHANGED <<now, sess, login, refr, upgr>>
    BY <1>16, <2>1, Constants DEF EraseRefreshTokens
  <2> QED
    BY <2>2, RemovalKeeps
<1>17. CASE SweepTokens
  <2>1. PICK T \in SUBSET Tokens : T = Spent
    BY DEF Spent
  <2>2. /\ \A t \in T : Exists(t) /\ ~RefreshLocks(t) /\ tok'[t].st = "gone" /\ tok[t].st = "revoked"
        /\ \A t \in Tokens \ T : tok'[t] = tok[t]
        /\ UNCHANGED <<now, sess, login, refr, upgr, erasure>>
    <3>1. \A t \in Spent : tok[t].st = "revoked" /\ Exists(t)
      BY DEF Spent, Exists
    <3> QED
      BY <1>17, <2>1, <3>1, Constants DEF SweepTokens
  <2> QED
    BY <2>2, RemovalKeeps
<1>18. CASE Unban \/ EraseCredential \/ EraseAccount \/ Tick
  <2>1. Onwards /\ now <= now' /\ (erasure = 2 => erasure' = 2)
    BY <1>18 DEF Unban, EraseCredential, EraseAccount, Tick, TypeOK, Time, Onwards
  <2> QED
    BY <1>18, <2>1, QuietKeeps DEF Unban, EraseCredential, EraseAccount, Tick
<1>19. CASE UNCHANGED vars
  <2>1. Onwards /\ now <= now'
    BY <1>19 DEF vars, TypeOK, Time, Onwards
  <2> QED
    BY <1>19, <2>1, QuietKeeps DEF vars
<1> QED
  BY <1>1, <1>2, <1>3, <1>4, <1>5, <1>6, <1>7, <1>8, <1>9, <1>10, <1>12, <1>13, <1>14, <1>15, <1>16,
     <1>17, <1>18, <1>19 DEF Next

-----------------------------------------------------------------------------
(***************************************************************************)
(* Bans and deletions.                                                     *)
(***************************************************************************)

(* The user starts in good standing, with nothing decided.                  *)
LEMMA InitStanding == Init => StandingInv
<1> SUFFICES ASSUME Init PROVE StandingInv
  OBVIOUS
<1>1. ~SwitchedOff
  BY DEF Init, SwitchedOff, Banned
<1>2. \A r \in Refreshes : refr[r].verdict = "none"
  BY Constants DEF Init
<1> QED
  BY <1>1, <1>2 DEF StandingInv, Standing, SwitchedOffIsSignedOut, SwitchedOffGetsNothing

\* Steps that neither switch the user off nor start anything.
LEMMA StandingKept ==
    ASSUME StandingInv, SwitchedOff' => SwitchedOff,
           \A l \in Logins : login'[l] = "read" => login[l] = "read",
           \A l \in Logins : Live(l)' => Live(l) /\ login'[l] = login[l],
           \A r \in Refreshes : refr'[r] = refr[r] \/ (refr'[r].st # "locked" /\ refr'[r].verdict = "none")
    PROVE  StandingInv'
<1>1. Standing'
  BY DEF StandingInv, Standing
<1>2. SwitchedOffIsSignedOut'
  BY DEF StandingInv, SwitchedOffIsSignedOut
<1>3. SwitchedOffGetsNothing'
  BY DEF StandingInv, SwitchedOffGetsNothing
<1> QED
  BY <1>1, <1>2, <1>3 DEF StandingInv

\* Every session ends, no sign-in is left that has read the user, and the
\* deletion waited for every refresh.
LEMMA SwitchOffKeeps ==
    ASSUME TypeOK, TypeOK', Core, StandingInv, Delete(Logins), Overtake, UNCHANGED refr
    PROVE  StandingInv'
<1>1. \A l \in Logins : ~Live(l)'
  BY Deleted DEF Delete, Live
<1>2. \A l \in Logins : login'[l] # "read"
  BY DEF Overtake
<1>3. \A r \in Refreshes : refr[r].st # "locked"
  BY DEF Delete, Free, Core, RowInv, Locks
<1>4. \A r \in Refreshes : refr[r].verdict = "none"
  BY <1>3 DEF StandingInv, Standing
<1> QED
  BY <1>1, <1>2, <1>3, <1>4 DEF StandingInv, Standing, SwitchedOffIsSignedOut, SwitchedOffGetsNothing

(* Every step keeps what the properties on bans and deletions rest on.      *)
LEMMA StepStanding == TypeOK /\ TypeOK' /\ Core /\ StandingInv /\ [Next]_vars => StandingInv'
<1> SUFFICES ASSUME TypeOK, TypeOK', Core, StandingInv, [Next]_vars PROVE StandingInv'
  OBVIOUS
<1> DEFINE Gone == \A l \in Logins : Live(l)' => Live(l)
<1>1. ASSUME UNCHANGED <<login, refr>>, Gone, SwitchedOff' => SwitchedOff PROVE StandingInv'
  BY <1>1, StandingKept
<1>2. ASSUME UNCHANGED <<now, user, erasure>> PROVE SwitchedOff' => SwitchedOff
  BY <1>2 DEF SwitchedOff, Banned
<1>3. ASSUME UNCHANGED sess PROVE Gone
  BY <1>3 DEF Live
<1>4. ASSUME NEW S, sess' = SessionsWithout(S) PROVE Gone
  BY <1>4, Deleted DEF Live
<1> HIDE DEF Gone
<1>5. ASSUME NEW l \in Logins, ReadUser(l) PROVE StandingInv'
  <2>1. ~SwitchedOff /\ ~SwitchedOff'
    BY <1>5 DEF ReadUser, SwitchedOff, Banned
  <2> QED
    BY <1>5, <2>1 DEF ReadUser, StandingInv, Standing, SwitchedOffIsSignedOut, SwitchedOffGetsNothing
<1>6. ASSUME NEW l \in Logins, SignInFails(l) PROVE StandingInv'
  <2>1. SwitchedOff' => SwitchedOff
    BY <1>2, <1>6 DEF SignInFails
  <2>2. ~Live(l) /\ UNCHANGED <<sess, refr>> /\ login'[l] = "failed" /\ \A x \in Logins \ {l} : login'[x] = login[x]
    BY <1>6 DEF SignInFails, TypeOK, Core, RowInv, Unmade, Live
  <2>3. /\ \A x \in Logins : login'[x] = "read" => login[x] = "read"
        /\ \A x \in Logins : Live(x)' => Live(x) /\ login'[x] = login[x]
    BY <2>2 DEF Live
  <2> QED
    BY <2>1, <2>2, <2>3, StandingKept
<1>7. ASSUME NEW l \in Logins, GrantSession(l) PROVE StandingInv'
  <2>1. SwitchedOff' => SwitchedOff
    BY <1>2, <1>7 DEF GrantSession
  <2>2. /\ UNCHANGED refr
        /\ \A x \in Logins \ {l} : sess'[x] = sess[x] /\ login'[x] = login[x]
        /\ login[l] = "read" \/ login'[l] = "late"
        /\ login'[l] # "read"
    BY <1>7 DEF GrantSession, TypeOK
  <2>3. Standing'
    BY <2>1, <2>2 DEF StandingInv, Standing
  <2>4. SwitchedOffIsSignedOut'
    BY <2>1, <2>2 DEF StandingInv, Standing, SwitchedOffIsSignedOut, Live
  <2> QED
    BY <2>1, <2>2, <2>3, <2>4 DEF StandingInv, SwitchedOffGetsNothing
<1>8. ASSUME NEW r \in Refreshes, NEW t \in Tokens, LockToken(r, t) PROVE StandingInv'
  <2>1. SwitchedOff' => SwitchedOff
    BY <1>2, <1>8 DEF LockToken, Lock
  <2>2. /\ UNCHANGED <<sess, login>> /\ \A q \in Refreshes \ {r} : refr'[q] = refr[q]
        /\ refr'[r].st = "locked" /\ refr'[r].verdict = Verdict(tok[t].sess, t)
    BY <1>8 DEF LockToken, Lock, TypeOK
  <2>3. SwitchedOff => Verdict(tok[t].sess, t) \notin {"rotated", "replayed"}
    <3>1. SwitchedOff => Refused
      BY DEF SwitchedOff, Refused
    <3> QED
      BY <3>1 DEF Verdict
  <2>4. Standing'
    BY <2>1, <2>2 DEF StandingInv, Standing
  <2>5. SwitchedOffIsSignedOut'
    BY <2>1, <2>2 DEF StandingInv, SwitchedOffIsSignedOut, Live
  <2>6. SwitchedOffGetsNothing'
    BY <2>1, <2>2, <2>3 DEF StandingInv, SwitchedOffGetsNothing
  <2> QED
    BY <2>4, <2>5, <2>6 DEF StandingInv
<1>9. ASSUME NEW r \in Refreshes, Rotate(r) \/ Answer(r) \/ EndSession(r) \/ RefreshAborts(r) PROVE StandingInv'
  <2>1. refr' = [refr EXCEPT ![r] = DoneRefresh] /\ UNCHANGED <<now, user, login, erasure>>
    BY <1>9 DEF Rotate, RotateAnd, Answer, EndSession, RefreshAborts
  <2>2. \A q \in Refreshes : refr'[q] = refr[q] \/ (refr'[q].st # "locked" /\ refr'[q].verdict = "none")
    BY <2>1, Constants DEF TypeOK
  <2>3. SwitchedOff' => SwitchedOff
    BY <1>2, <2>1
  <2>4. CASE Rotate(r)
    <3>1. PICK l \in Logins, at \in Time : Live(l) /\ sess' = [sess EXCEPT ![l].refreshed = at]
      BY <2>4, RotateFacts DEF Core, RowInv, Rotate, RotateAnd
    <3>2. \A x \in Logins : Live(x)' => Live(x)
      BY <3>1 DEF TypeOK, Live
    <3> QED
      BY <2>1, <2>2, <2>3, <3>2, StandingKept
  <2>5. CASE Answer(r) \/ RefreshAborts(r)
    BY <1>3, <2>1, <2>2, <2>3, <2>5, StandingKept DEF Answer, RefreshAborts, Gone
  <2>6. CASE EndSession(r)
    BY <1>4, <2>1, <2>2, <2>3, <2>6, StandingKept DEF EndSession, Gone
  <2> QED
    BY <1>9, <2>4, <2>5, <2>6
<1>10. ASSUME NEW u \in Upgrades,
              (\E l \in Logins : LockSession(u, l)) \/ UpgradeAborts(u)
       PROVE  StandingInv'
  <2>1. UNCHANGED <<now, user, sess, login, refr, erasure>>
    BY <1>10 DEF LockSession, UpgradeAborts
  <2> QED
    BY <1>1, <1>2, <1>3, <2>1
<1>11. ASSUME NEW u \in Upgrades, SwapToken(u) PROVE StandingInv'
  <2>1. PICK l \in Logins : l = upgr[u].sess /\ Live(l)
    BY <1>11 DEF SwapToken, Core, RowInv, Locks
  <2>2. sess' = [SessionsWithout(Lower(l)) EXCEPT ![l].aal = "aal2"] /\ UNCHANGED <<now, user, login, refr, erasure>>
    BY <1>11, <2>1 DEF SwapToken
  <2>3. /\ SessionsWithout(Lower(l)) \in [Logins -> SessRows]
        /\ \A x \in Logins : SessionsWithout(Lower(l))[x].st = "live" => Live(x)
    BY Deleted DEF Live
  <2>4. Gone
    BY <2>1, <2>2, <2>3, Raised DEF Gone, Live
  <2> QED
    BY <1>1, <1>2, <2>2, <2>4
<1>12. ASSUME NEW c \in Callers, NEW l \in Logins, Authenticate(c, l) PROVE StandingInv'
  BY <1>1, <1>2, <1>3, <1>12 DEF Authenticate
<1>13. ASSUME NEW c \in Callers, Logout(c) \/ ChangePassword(c) PROVE StandingInv'
  <2>1. PICK S : Delete(S) /\ UNCHANGED <<now, login, refr, erasure>>
    BY <1>13 DEF Logout, ChangePassword
  <2>2. user'.state = user.state /\ user'.until = user.until
    BY <1>13 DEF Logout, ChangePassword, TypeOK
  <2>3. SwitchedOff' => SwitchedOff
    BY <2>1, <2>2 DEF SwitchedOff, Banned
  <2> QED
    BY <1>1, <1>4, <2>1, <2>3 DEF Delete
<1>14. CASE SetPassword \/ Ban \/ DeleteUser
  BY <1>14, SwitchOffKeeps DEF SetPassword, Ban, DeleteUser
<1>15. CASE EraseSessions \/ SweepSessions
  <2>1. PICK S : Delete(S) /\ UNCHANGED <<now, user, login, refr>>
    BY <1>15 DEF EraseSessions, SweepSessions
  <2>2. SwitchedOff' => SwitchedOff
    BY <1>15 DEF EraseSessions, SweepSessions, SwitchedOff, Banned
  <2> QED
    BY <1>1, <1>4, <2>1, <2>2 DEF Delete
<1>16. CASE Unban \/ EraseCredential \/ EraseAccount \/ EraseRefreshTokens \/ SweepTokens \/ Tick \/ UNCHANGED vars
  <2>1. UNCHANGED <<sess, login, refr>>
    BY <1>16 DEF Unban, EraseCredential, EraseAccount, EraseRefreshTokens, SweepTokens, Tick, vars
  <2>2. SwitchedOff' => SwitchedOff
    <3>1. CASE Unban
      BY <3>1 DEF Unban, SwitchedOff, Banned, TypeOK, Time
    <3>2. CASE EraseCredential \/ EraseRefreshTokens
      <4>1. /\ user'.state = user.state /\ user'.until = user.until /\ now' = now
            /\ erasure < 4
        BY <3>2 DEF EraseCredential, EraseRefreshTokens, TypeOK
      <4> QED
        BY <4>1 DEF SwitchedOff, Banned
    <3>3. CASE EraseAccount
      BY <3>3 DEF EraseAccount, SwitchedOff, Banned, TypeOK
    <3>4. CASE SweepTokens \/ UNCHANGED vars
      BY <1>2, <3>4 DEF SweepTokens, vars
    <3>5. CASE Tick
      BY <3>5 DEF Tick, SwitchedOff, Banned, TypeOK, Time
    <3> QED
      BY <1>16, <3>1, <3>2, <3>3, <3>4, <3>5
  <2> QED
    BY <1>1, <1>3, <2>1, <2>2
<1> QED
  BY <1>5, <1>6, <1>7, <1>8, <1>9, <1>10, <1>11, <1>12, <1>13, <1>14, <1>15, <1>16 DEF Next

-----------------------------------------------------------------------------
(***************************************************************************)
(* The theorems.                                                           *)
(***************************************************************************)

(* The invariant of the four parts holds in every reachable state.          *)
THEOREM Inductive == Spec => [](TypeOK /\ Inv)
<1>1. Init => TypeOK /\ Core /\ StandingInv
  BY InitTyped, InitCore, InitStanding
<1>2. (TypeOK /\ Core /\ StandingInv) /\ [Next]_vars => (TypeOK /\ Core /\ StandingInv)'
  <2> SUFFICES ASSUME TypeOK, Core, StandingInv, [Next]_vars PROVE (TypeOK /\ Core /\ StandingInv)'
    OBVIOUS
  <2>1. TypeOK'
    BY StepTyped DEF Core, RowInv
  <2> QED
    BY <2>1, StepCore, StepStanding
<1>3. (TypeOK /\ Core /\ StandingInv) => (TypeOK /\ Inv)
  BY DEF Core, Inv
<1> QED
  BY <1>1, <1>2, <1>3, PTL DEF Spec

(* Every row of auth.users, auth.sessions and auth.refresh_tokens, and what *)
(* each request in flight keeps, has the type the code gives it.            *)
THEOREM TypeCorrect == Spec => []TypeOK
BY Inductive, PTL

(* A session has exactly one active refresh token, and no token outlives    *)
(* its session (refreshTokenGrant, finalizeFactorVerification, logout).     *)
THEOREM OneActiveTokenAlways == Spec => []OneActiveToken
<1>1. TypeOK /\ Inv => OneActiveToken
  BY DEF Inv, TokenInv
<1> QED
  BY <1>1, Inductive, PTL

(* A refresh token is rotated at most once, however many requests present   *)
(* it at the same time (findRefreshTokenForUpdate).                         *)
THEOREM TokensRotateOnceAlways == Spec => []TokensRotateOnce
<1>1. TypeOK /\ Inv => TokensRotateOnce
  BY DEF Inv, ParentInv
<1> QED
  BY <1>1, Inductive, PTL

(* A banned or deleted user has no session but that of a sign-in which had  *)
(* read the user before (adminUpdateUser, adminDeleteUser, grantSession).   *)
THEOREM SwitchedOffIsSignedOutAlways == Spec => []SwitchedOffIsSignedOut
<1>1. TypeOK /\ Inv => SwitchedOffIsSignedOut
  BY DEF Inv, StandingInv
<1> QED
  BY <1>1, Inductive, PTL

(* A banned or deleted user gets nothing from the refresh grant, not even   *)
(* from one that was under way (refreshTokenGrant, loadRefreshUser).        *)
THEOREM SwitchedOffGetsNothingAlways == Spec => []SwitchedOffGetsNothing
<1>1. TypeOK /\ Inv => SwitchedOffGetsNothing
  BY DEF Inv, StandingInv
<1> QED
  BY <1>1, Inductive, PTL

(* Whatever the cleanup deletes for its age or idleness, the refresh grant  *)
(* would refuse as expired (cleanupOnce against checkSessionValidity).      *)
THEOREM CleanupTakesUnusableAlways == Spec => []CleanupTakesUnusable
<1>1. TypeOK /\ Inv => CleanupTakesUnusable
  <2> SUFFICES ASSUME TypeOK, Inv, NEW l \in Aged \cup Idle, NEW t \in ActiveOf(l) \ Upgrades
               PROVE  Expired(l, t)
    BY DEF CleanupTakesUnusable
  <2>1. l \in Logins /\ Live(l) /\ t \in Tokens /\ tok[t].st = "active" /\ tok[t].sess = l
    BY DEF Aged, Idle, ActiveOf, TokensOf
  <2>2. t \in Logins \cup Refreshes
    BY <2>1 DEF Tokens
  <2>3. sess[l].created <= sess[l].refreshed /\ tok[t].updated <= sess[l].refreshed
    BY <2>1, <2>2 DEF Inv, Times
  <2>4. sess[l].created \in Nat /\ sess[l].refreshed \in Nat /\ tok[t].updated \in Nat /\ now \in Nat
    BY <2>1 DEF TypeOK, Time
  <2>5. LastRefreshedWith(l, t) = sess[l].refreshed
    BY <2>3, <2>4 DEF LastRefreshedWith, LastRefreshed, Later
  <2>6. \/ Timebox > 0 /\ sess[l].created + Timebox < now
        \/ Inactivity > 0 /\ sess[l].refreshed + Inactivity < now
    BY DEF Aged, Idle
  <2> QED
    BY <2>4, <2>5, <2>6, SessionAssumption DEF Expired, TooOld
<1> QED
  BY <1>1, Inductive, PTL

(* refreshed_at never goes back, although a refresh writes the time at      *)
(* which it took the token's row and another may have committed since       *)
(* (touchSession).                                                          *)
THEOREM RefreshedNeverGoesBackAlways == Spec => RefreshedNeverGoesBack
<1> DEFINE Ahead == \A l \in Logins : Live(l) /\ Live(l)' => sess[l].refreshed <= sess'[l].refreshed
<1>1. ASSUME TypeOK, TypeOK', Inv, [Next]_vars PROVE Ahead
  <2> SUFFICES ASSUME NEW l \in Logins, Live(l), Live(l)' PROVE sess[l].refreshed <= sess'[l].refreshed
    OBVIOUS
  <2>1. sess[l].refreshed \in Nat /\ Locks
    BY <1>1 DEF TypeOK, Time, Inv, RowInv
  <2>2. ASSUME sess'[l].refreshed = sess[l].refreshed PROVE sess[l].refreshed <= sess'[l].refreshed
    BY <2>1, <2>2
  <2>3. ASSUME NEW S, sess' = SessionsWithout(S) PROVE sess'[l].refreshed = sess[l].refreshed
    BY <1>1, <2>3, Deleted DEF Live
  <2>4. ASSUME NEW k \in Logins, GrantSession(k) PROVE sess'[l].refreshed = sess[l].refreshed
    <3>1. k # l
      BY <1>1, <2>4 DEF GrantSession, Inv, RowInv, Unmade, Live
    <3> QED
      BY <1>1, <2>4, <3>1 DEF GrantSession, TypeOK
  <2>5. ASSUME NEW r \in Refreshes, Rotate(r) PROVE sess[l].refreshed <= sess'[l].refreshed
    <3>1. /\ refr[r].st = "locked" /\ refr[r].verdict = "rotated"
          /\ sess' = [sess EXCEPT ![SessionOf(r)].refreshed = refr[r].at]
      BY <1>1, <2>1, <2>5, RotateFacts DEF Rotate, RotateAnd
    <3>2. sess[SessionOf(r)].refreshed <= refr[r].at
      BY <1>1, <3>1 DEF Inv, Times
    <3>3. sess'[l].refreshed = IF l = SessionOf(r) THEN refr[r].at ELSE sess[l].refreshed
      BY <1>1, <3>1 DEF TypeOK
    <3> QED
      BY <2>1, <3>2, <3>3
  <2>6. ASSUME NEW u \in Upgrades, SwapToken(u) PROVE sess'[l].refreshed = sess[l].refreshed
    <3>1. PICK k \in Logins : k = upgr[u].sess
      BY <2>1, <2>6 DEF SwapToken, Locks
    <3>2. PICK S : S = Lower(k)
      OBVIOUS
    <3>3. sess' = [SessionsWithout(S) EXCEPT ![k].aal = "aal2"]
      BY <2>6, <3>1, <3>2 DEF SwapToken
    <3>4. sess'[l].st = SessionsWithout(S)[l].st /\ sess'[l].refreshed = SessionsWithout(S)[l].refreshed
      BY <1>1, <3>3, Deleted, Raised
    <3> QED
      BY <1>1, <3>4, Deleted DEF Live
  <2>7. ASSUME UNCHANGED sess PROVE sess'[l].refreshed = sess[l].refreshed
    BY <2>7
  <2>8. \/ UNCHANGED sess
        \/ \E S : sess' = SessionsWithout(S)
        \/ \E k \in Logins : GrantSession(k)
        \/ \E r \in Refreshes : Rotate(r)
        \/ \E u \in Upgrades : SwapToken(u)
    BY <1>1 DEF Next, vars, ReadUser, SignInFails, LockToken, Lock, Answer, EndSession, RefreshAborts, LockSession,
       UpgradeAborts, Authenticate, Logout, ChangePassword, SetPassword, Ban, Unban, DeleteUser, Delete,
       EraseCredential, EraseRefreshTokens, EraseSessions, EraseAccount, SweepTokens, SweepSessions, Tick
  <2> QED
    BY <2>2, <2>3, <2>4, <2>5, <2>6, <2>7, <2>8
<1>2. (TypeOK /\ Inv) /\ (TypeOK /\ Inv)' /\ [Next]_vars => [Ahead]_vars
  BY <1>1
<1> QED
  BY <1>2, Inductive, PTL DEF Spec, RefreshedNeverGoesBack

-----------------------------------------------------------------------------
(***************************************************************************)
(* The sessions keep the promise of SessionLifecycle.                      *)
(***************************************************************************)

\* KeyOf without the CHOOSE: the token is active, and the session's.
IsKey(l, t) == tok[t].st = "active" /\ tok[t].sess = l

\* An active token is its session's key, and there is none without one.
LEMMA KeyIs ==
    ASSUME OneActiveToken, NEW l \in Logins, NEW t \in Tokens, IsKey(l, t) PROVE KeyOf(l) = t
<1>1. t \in ActiveOf(l)
  BY DEF IsKey, ActiveOf, TokensOf, Exists
<1>2. \A x \in ActiveOf(l) : x = t
  BY <1>1 DEF OneActiveToken
<1> QED
  BY <1>1, <1>2 DEF KeyOf

LEMMA NoKeyIs ==
    ASSUME NEW l \in Logins, \A t \in Tokens : ~IsKey(l, t) PROVE KeyOf(l) = NoToken
BY DEF IsKey, KeyOf, ActiveOf, TokensOf

\* The same of the state after a step.
LEMMA KeyIsNext ==
    ASSUME OneActiveToken', NEW l \in Logins, NEW t \in Tokens, IsKey(l, t)' PROVE KeyOf(l)' = t
<1>1. t \in ActiveOf(l)'
  BY DEF IsKey, ActiveOf, TokensOf, Exists
<1>2. \A x \in ActiveOf(l)' : x = t
  BY <1>1 DEF OneActiveToken
<1> QED
  BY <1>1, <1>2 DEF KeyOf

LEMMA NoKeyIsNext ==
    ASSUME NEW l \in Logins, \A t \in Tokens : ~IsKey(l, t)' PROVE KeyOf(l)' = NoToken
BY DEF IsKey, KeyOf, ActiveOf, TokensOf

\* A step that leaves a session its active token leaves it its key.
LEMMA KeyKept ==
    ASSUME NEW l \in Logins, \A t \in Tokens : IsKey(l, t)' <=> IsKey(l, t) PROVE KeyOf(l)' = KeyOf(l)
<1>1. ActiveOf(l)' = ActiveOf(l)
  BY DEF IsKey, ActiveOf, TokensOf, Exists
<1> QED
  BY <1>1 DEF KeyOf

\* What SessionLifecycle sees of the rows.
Phases == [l \in Logins |-> sess[l].st]
Heads == [l \in Logins |-> KeyOf(l)]
Issued == {t \in Tokens : tok[t].st # "none"}

\* Sessions that are deleted take their tokens with them.
LEMMA DeletionCloses ==
    ASSUME TypeOK, OneActiveToken, NEW S,
           sess' = SessionsWithout(S), tok' = TokensWithout(S)
    PROVE  \E ended \in SUBSET Logins : Lifecycle!Close(ended)
<1>0. PICK ended \in SUBSET Logins : ended = {l \in Logins : l \in S /\ Live(l)}
  OBVIOUS
<1>1. \A l \in Logins : sess'[l].st = IF l \in ended THEN "gone" ELSE sess[l].st
  BY <1>0, Deleted
<1>2. \A t \in Tokens : tok'[t].st # "none" <=> tok[t].st # "none"
  BY Deleted DEF Exists
<1>3. \A l \in Logins : l \in ended => \A t \in Tokens : ~IsKey(l, t)'
  <2> SUFFICES ASSUME NEW l \in ended, NEW t \in Tokens PROVE ~IsKey(l, t)'
    OBVIOUS
  <2>1. CASE Exists(t) /\ tok[t].sess \in S
    BY <2>1, Deleted DEF IsKey
  <2>2. CASE ~(Exists(t) /\ tok[t].sess \in S)
    BY <1>0, <2>2, Deleted DEF IsKey, Exists
  <2> QED
    BY <2>1, <2>2
<1>4. \A l \in Logins : l \notin ended => KeyOf(l)' = KeyOf(l)
  <2> SUFFICES ASSUME NEW l \in Logins, l \notin ended PROVE KeyOf(l)' = KeyOf(l)
    OBVIOUS
  <2>1. ASSUME NEW t \in Tokens PROVE IsKey(l, t)' <=> IsKey(l, t)
    <3>1. CASE Exists(t) /\ tok[t].sess \in S
      <4>1. tok[t].sess # l
        BY <1>0, <3>1 DEF OneActiveToken
      <4>2. tok'[t].st = "gone"
        BY <3>1, Deleted
      <4> QED
        BY <4>1, <4>2 DEF IsKey
    <3>2. CASE ~(Exists(t) /\ tok[t].sess \in S)
      BY <3>2, Deleted DEF IsKey
    <3> QED
      BY <3>1, <3>2
  <2> QED
    BY <2>1, KeyKept
<1>5. \A l \in Logins : KeyOf(l)' = IF l \in ended THEN NoToken ELSE KeyOf(l)
  BY <1>3, <1>4, NoKeyIsNext
<1>6. Phases' = Lifecycle!Ended(ended)
  BY <1>1 DEF Phases, Lifecycle!Ended
<1>7. Heads' = Lifecycle!Keyless(ended)
  BY <1>5 DEF Heads, Lifecycle!Keyless
<1>8. Issued' = Issued
  BY <1>2 DEF Issued
<1>9. \A l \in ended : Phases[l] = "live"
  BY <1>0 DEF Phases, Live
<1>10. Lifecycle!Close(ended)
  BY <1>6, <1>7, <1>8, <1>9 DEF Lifecycle!Close, Phases, Heads, Issued
<1> QED
  BY <1>10

\* A token that was not there becomes the key of a session; other sessions may
\* end beside it.
LEMMA NewKey ==
    ASSUME OneActiveToken', NEW l \in Logins, NEW k \in Tokens, NEW ended \in SUBSET Logins,
           l \notin ended, tok[k].st = "none", IsKey(l, k)',
           \A t \in Tokens \ {k} : tok'[t].st # "none" <=> tok[t].st # "none",
           \A o \in Logins \ {l} : \A t \in Tokens : IsKey(o, t)' <=> (o \notin ended /\ IsKey(o, t))
    PROVE  /\ Heads' = [Lifecycle!Keyless(ended) EXCEPT ![l] = k]
           /\ Lifecycle!Issue(k)
<1>1. KeyOf(l)' = k
  BY KeyIsNext
<1>2. \A o \in Logins \ {l} : KeyOf(o)' = IF o \in ended THEN NoToken ELSE KeyOf(o)
  BY KeyKept, NoKeyIsNext
<1>3. Heads' = [Lifecycle!Keyless(ended) EXCEPT ![l] = k]
  BY <1>1, <1>2 DEF Heads, Lifecycle!Keyless
<1>4. k \notin Issued /\ Issued' = Issued \cup {k}
  BY DEF Issued, IsKey
<1> QED
  BY <1>3, <1>4 DEF Lifecycle!Issue, Issued

\* A sign-in inserts the session and its first token together.
LEMMA GrantOpens ==
    ASSUME TypeOK, Unmade, OneActiveToken, OneActiveToken', NEW l \in Logins, GrantSession(l)
    PROVE  Lifecycle!Open(l, l)
<1>1. l \in Tokens /\ sess[l].st = "none" /\ tok[l].st = "none"
  BY Kinds DEF GrantSession, Unmade
<1>2. tok'[l].st = "active" /\ tok'[l].sess = l /\ \A t \in Tokens \ {l} : tok'[t] = tok[t]
  BY <1>1 DEF GrantSession, TypeOK
<1>3. \A o \in Logins : sess'[o].st = IF o = l THEN "live" ELSE sess[o].st
  BY DEF GrantSession, TypeOK
<1>4. \A o \in Logins \ {l} : \A t \in Tokens : IsKey(o, t)' <=> IsKey(o, t)
  BY <1>1, <1>2 DEF IsKey
<1>5. Heads' = [Lifecycle!Keyless({}) EXCEPT ![l] = l] /\ Lifecycle!Issue(l)
  BY <1>1, <1>2, <1>4, NewKey DEF IsKey
<1>6. Heads' = [Heads EXCEPT ![l] = l]
  BY <1>5 DEF Heads, Lifecycle!Keyless
<1>7. Phases[l] = "none" /\ Phases' = [Phases EXCEPT ![l] = "live"]
  BY <1>1, <1>3 DEF Phases
<1> QED
  BY <1>5, <1>6, <1>7 DEF Lifecycle!Open, Phases, Heads

\* The refresh revokes the token it locked, which was the key, for its own.
LEMMA RotateTurns ==
    ASSUME TypeOK, Unmade, Locks, Chosen, OneActiveToken, OneActiveToken', NEW r \in Refreshes, Rotate(r)
    PROVE  Lifecycle!Turn(SessionOf(r), r, {})
<1> DEFINE l == SessionOf(r)
           p == refr[r].tok
<1>1. l \in Logins /\ Live(l) /\ p \in Tokens /\ tok[p].sess = l /\ refr[r].at \in Time /\ refr[r].st = "locked"
  BY RotateFacts
<1>2. r \in Tokens /\ tok[r].st = "none" /\ r # p
  BY <1>1, Kinds, RotateFacts DEF Unmade, Exists
<1> HIDE DEF l
<1>3. tok \in [Tokens -> TokRows] /\ tok' = [Revoke(tok, p, refr[r].at) EXCEPT
              ![r] = [st |-> "active", sess |-> l, parent |-> p, updated |-> refr[r].at, aal |-> sess[l].aal]]
  BY DEF Rotate, RotateAnd, TypeOK, TokRows, l
<1>4. /\ tok'[r].st = "active" /\ tok'[r].sess = l
      /\ tok'[p].st = "revoked"
      /\ \A t \in Tokens \ {r, p} : tok'[t] = tok[t]
  BY <1>1, <1>2, <1>3, Revoked
<1>5. \A o \in Logins : sess'[o].st = sess[o].st
  BY DEF Rotate, RotateAnd, TypeOK
<1>6. \A o \in Logins \ {l} : \A t \in Tokens : IsKey(o, t)' <=> IsKey(o, t)
  BY <1>1, <1>2, <1>4 DEF IsKey
<1>7. \A t \in Tokens \ {r} : tok'[t].st # "none" <=> tok[t].st # "none"
  BY <1>1, <1>4, RotateFacts DEF Exists
<1>8. Heads' = [Lifecycle!Keyless({}) EXCEPT ![l] = r] /\ Lifecycle!Issue(r)
  BY <1>1, <1>2, <1>4, <1>6, <1>7, NewKey DEF IsKey
<1>9. Phases[l] = "live" /\ Phases' = Lifecycle!Ended({})
  BY <1>1, <1>5 DEF Phases, Lifecycle!Ended, Live
<1>10. Lifecycle!Turn(l, r, {})
  BY <1>8, <1>9 DEF Lifecycle!Turn, Phases, Heads
<1> QED
  BY <1>10 DEF l

\* The verification revokes the token it read, if that is still there, and
\* deletes the sessions below its level.
LEMMA SwapTurns ==
    ASSUME TypeOK, Unmade, Locks, Chosen, OneActiveToken, OneActiveToken', NEW u \in Upgrades, SwapToken(u)
    PROVE  \E l \in Logins, ended \in SUBSET Logins : Lifecycle!Turn(l, u, ended)
<1>1. PICK l : l = upgr[u].sess
  OBVIOUS
<1>2. PICK c : c = upgr[u].cur
  OBVIOUS
<1>3. PICK ended : ended = Lower(l)
  OBVIOUS
<1>4. l \in Logins /\ Live(l) /\ ended \in SUBSET Logins /\ l \notin ended /\ \A o \in ended : Live(o)
  BY <1>1, <1>3 DEF SwapToken, Locks, Lower
<1>5. u \in Tokens /\ tok[u].st = "none" /\ upgr[u].at \in Time /\ c \in Tokens \cup {NoToken}
  BY <1>2, Kinds DEF SwapToken, Unmade, TypeOK
<1>6. PICK rest \in [Tokens -> TokRows] : rest = TokensWithout(ended)
  BY Deleted
<1>7. PICK retired \in [Tokens -> TokRows] :
        retired = IF c \in Tokens /\ Exists(c) THEN Revoke(rest, c, upgr[u].at) ELSE rest
  BY <1>5, <1>6, Revoked
<1>8. tok' = [retired EXCEPT ![u] = [st |-> "active", sess |-> l, parent |-> c,
                                     updated |-> upgr[u].at, aal |-> "aal2"]]
  BY <1>1, <1>2, <1>3, <1>6, <1>7 DEF SwapToken
<1>9. tok'[u].st = "active" /\ tok'[u].sess = l /\ \A t \in Tokens \ {u} : tok'[t] = retired[t]
  BY <1>5, <1>7, <1>8
<1>10. \A t \in Tokens : \/ t = c /\ Exists(c) /\ retired[t].st = "revoked"
                         \/ ~(t = c /\ Exists(c)) /\ retired[t] = rest[t]
  BY <1>5, <1>6, <1>7, Revoked
<1>11. \A t \in Tokens : /\ Exists(t) /\ tok[t].sess \in ended => rest[t].st = "gone"
                         /\ ~(Exists(t) /\ tok[t].sess \in ended) => rest[t] = tok[t]
  BY <1>6, Deleted
<1>12. ASSUME Exists(c), c \in Tokens PROVE tok[c].sess = l /\ tok[c].st = "active"
  BY <1>1, <1>2, <1>5, <1>12, Kinds DEF SwapToken, Chosen, Exists
<1>13. \A o \in Logins \ {l} : \A t \in Tokens : IsKey(o, t)' <=> (o \notin ended /\ IsKey(o, t))
  <2> SUFFICES ASSUME NEW o \in Logins \ {l}, NEW t \in Tokens
               PROVE  IsKey(o, t)' <=> (o \notin ended /\ IsKey(o, t))
    OBVIOUS
  <2>1. CASE t = u
    BY <1>5, <1>9, <2>1 DEF IsKey
  <2>2. CASE t = c /\ Exists(c) /\ t # u
    BY <1>9, <1>10, <1>12, <2>2 DEF IsKey
  <2>3. CASE ~(t = c /\ Exists(c)) /\ t # u
    <3>1. tok'[t] = rest[t]
      BY <1>9, <1>10, <2>3
    <3> QED
      BY <1>11, <3>1 DEF IsKey, Exists
  <2> QED
    BY <2>1, <2>2, <2>3
<1>14. \A t \in Tokens \ {u} : tok'[t].st # "none" <=> tok[t].st # "none"
  BY <1>9, <1>10, <1>11 DEF Exists
<1>15. Heads' = [Lifecycle!Keyless(ended) EXCEPT ![l] = u] /\ Lifecycle!Issue(u)
  BY <1>4, <1>5, <1>9, <1>13, <1>14, NewKey DEF IsKey
<1>16. \A o \in Logins : sess'[o].st = IF o \in ended THEN "gone" ELSE sess[o].st
  <2>1. PICK less \in [Logins -> SessRows] : less = SessionsWithout(ended)
    BY Deleted
  <2>2. sess' = [less EXCEPT ![l].aal = "aal2"]
    BY <1>1, <1>3, <2>1 DEF SwapToken
  <2>3. \A o \in Logins : sess'[o].st = less[o].st
    BY <1>4, <2>1, <2>2, Raised
  <2>4. \A o \in Logins : less[o].st = IF o \in ended THEN "gone" ELSE sess[o].st
    BY <1>4, <2>1, Deleted
  <2> QED
    BY <2>3, <2>4
<1>17. Phases' = Lifecycle!Ended(ended)
  BY <1>16 DEF Phases, Lifecycle!Ended
<1>18. Phases[l] = "live" /\ \A o \in ended : Phases[o] = "live"
  BY <1>4 DEF Phases, Live
<1>19. Lifecycle!Turn(l, u, ended)
  BY <1>4, <1>15, <1>17, <1>18 DEF Lifecycle!Turn, Phases, Heads
<1> QED
  BY <1>4, <1>19

\* The second step of an erasure leaves sessions without a token.
LEMMA EraseForgets ==
    ASSUME TypeOK, EraseRefreshTokens PROVE Lifecycle!Forget
<1>1. \A t \in Tokens : tok'[t] = IF Exists(t) THEN GoneTok ELSE tok[t]
  BY DEF EraseRefreshTokens
<1>2. \A l \in Logins : \A t \in Tokens : ~IsKey(l, t)'
  BY <1>1, Constants DEF IsKey, Exists
<1>3. Heads' = Lifecycle!Keyless(Logins)
  BY <1>2, NoKeyIsNext DEF Heads, Lifecycle!Keyless
<1>4. Phases' = Phases /\ Issued' = Issued
  BY <1>1, Constants DEF Phases, Issued, Exists, EraseRefreshTokens
<1> QED
  BY <1>3, <1>4 DEF Lifecycle!Forget, Phases, Heads, Issued

\* The sweep of revoked tokens takes no key.
LEMMA SweepStutters ==
    ASSUME TypeOK, SweepTokens PROVE UNCHANGED <<Phases, Heads, Issued>>
<1>1. \A t \in Tokens : tok'[t] = IF t \in Spent THEN GoneTok ELSE tok[t]
  BY DEF SweepTokens
<1>2. \A l \in Logins : \A t \in Tokens : IsKey(l, t)' <=> IsKey(l, t)
  BY <1>1, Constants DEF IsKey, Spent
<1>3. \A l \in Logins : KeyOf(l)' = KeyOf(l)
  BY <1>2, KeyKept
<1>4. Heads' = Heads
  BY <1>3 DEF Heads
<1>5. Phases' = Phases /\ Issued' = Issued
  BY <1>1, Constants DEF Phases, Issued, Spent, SweepTokens
<1> QED
  BY <1>4, <1>5

(* A session has one key at a time, a key is replaced by a token that was   *)
(* never issued before, and what was replaced or deleted is a key of no     *)
(* session again, however refreshes, verifications, deletions and sweeps    *)
(* interleave.                                                              *)
THEOREM SessionsKeepTheirPromise == Spec => ImplementsSessions
<1>1. Init => Lifecycle!Init
  <2> SUFFICES ASSUME Init PROVE Lifecycle!Init
    OBVIOUS
  <2>1. /\ \A l \in Logins : sess[l].st = "none"
        /\ \A t \in Tokens : tok[t].st = "none"
    BY Constants DEF Init
  <2>2. \A l \in Logins : KeyOf(l) = NoToken
    BY <2>1, NoKeyIs DEF IsKey
  <2> QED
    BY <2>1, <2>2 DEF Lifecycle!Init
<1>2. (TypeOK /\ Inv) /\ (TypeOK /\ Inv)' /\ [Next]_vars
        => [Lifecycle!Next]_<<[l \in Logins |-> sess[l].st], [l \in Logins |-> KeyOf(l)],
                              {t \in Tokens : tok[t].st # "none"}>>
  <2> SUFFICES ASSUME TypeOK, Inv, Inv', [Next]_vars
               PROVE  Lifecycle!Next \/ UNCHANGED <<Phases, Heads, Issued>>
    BY DEF Phases, Heads, Issued
  <2>1. Unmade /\ Locks /\ Chosen /\ OneActiveToken /\ OneActiveToken'
    BY DEF Inv, RowInv, TokenInv
  <2>2. ASSUME UNCHANGED <<sess, tok>> PROVE UNCHANGED <<Phases, Heads, Issued>>
    <3>1. \A l \in Logins : KeyOf(l)' = KeyOf(l)
      BY <2>2, KeyKept DEF IsKey
    <3> QED
      BY <2>2, <3>1 DEF Phases, Heads, Issued
  <2>3. ASSUME NEW S, sess' = SessionsWithout(S), tok' = TokensWithout(S) PROVE Lifecycle!Next
    <3>1. PICK ended \in SUBSET Logins : Lifecycle!Close(ended)
      BY <2>1, <2>3, DeletionCloses
    <3> QED
      BY <3>1 DEF Lifecycle!Next
  <2>4. ASSUME NEW l \in Logins, GrantSession(l) PROVE Lifecycle!Next
    BY <2>1, <2>4, GrantOpens, Kinds DEF Lifecycle!Next
  <2>5. ASSUME NEW r \in Refreshes, Rotate(r) PROVE Lifecycle!Next
    BY <2>1, <2>5, RotateTurns, RotateFacts, Kinds DEF Lifecycle!Next
  <2>6. ASSUME NEW u \in Upgrades, SwapToken(u) PROVE Lifecycle!Next
    <3>1. PICK l \in Logins, ended \in SUBSET Logins : Lifecycle!Turn(l, u, ended)
      BY <2>1, <2>6, SwapTurns
    <3> QED
      BY <3>1, Kinds DEF Lifecycle!Next
  <2>7. CASE EraseRefreshTokens
    BY <2>7, EraseForgets DEF Lifecycle!Next
  <2>8. CASE SweepTokens
    BY <2>8, SweepStutters
  <2>9. \/ UNCHANGED <<sess, tok>>
        \/ \E S : sess' = SessionsWithout(S) /\ tok' = TokensWithout(S)
        \/ \E l \in Logins : GrantSession(l)
        \/ \E r \in Refreshes : Rotate(r)
        \/ \E u \in Upgrades : SwapToken(u)
        \/ EraseRefreshTokens \/ SweepTokens
    BY DEF Next, vars, ReadUser, SignInFails, LockToken, Lock, Answer, EndSession, RefreshAborts, LockSession,
       UpgradeAborts, Authenticate, Logout, ChangePassword, SetPassword, Ban, Unban, DeleteUser, Delete,
       EraseCredential, EraseSessions, EraseAccount, SweepSessions, Tick
  <2> QED
    BY <2>2, <2>3, <2>4, <2>5, <2>6, <2>7, <2>8, <2>9
<1> QED
  BY <1>1, <1>2, Inductive, PTL DEF Spec, ImplementsSessions, Lifecycle!Spec

-----------------------------------------------------------------------------
(***************************************************************************)
(* The subject vault (SubjectVault), which shares nothing with the         *)
(* sessions above: its safety for any number of calls, fields, requests,   *)
(* holds and halts.  The argument has three parts on top of the types: the *)
(* key a call has in memory is the key of the row or a shredded one        *)
(* (KeyInv); a row version names one document (VersionInv); and while a    *)
(* run is at work its request is active, so that no patch commits between  *)
(* its statements (EraseInv).                                              *)
(***************************************************************************)
LEMMA VaultConstants ==
    /\ NoFields \in Documents
    /\ NoProfile \in Profiles
    /\ NoProfile.ver = 0 /\ NoProfile.key = NoKey /\ NoProfile.fields = NoFields
BY VaultAssumption DEF NoFields, NoProfile, Documents, Profiles, KeyRows, Values

LEMMA MergeType ==
    ASSUME NEW p \in Patchers, NEW doc \in Documents
    PROVE  Merge(doc, p) \in Documents
BY DEF Merge, Documents, Values

LEMMA AfterDecodeType ==
    ASSUME NEW p, NEW doc
    PROVE  /\ AfterDecode(p, doc) \in {"invalid", "commit", "load"}
           /\ AfterDecode(p, doc) = "commit" => Merge(doc, p) = NoFields
BY DEF AfterDecode

LEMMA ContinueType ==
    ASSUME VaultTypeOK, NEW c \in Calls, NEW where \in CallPCs, NEW k \in KeyRows, NEW b \in Profiles,
           Continue(c, where, k, b)
    PROVE  /\ pc' \in [Calls -> CallPCs]
           /\ dek' \in [Calls -> KeyRows]
           /\ before' \in [Calls -> Profiles]
           /\ \A d \in Calls \ {c} : pc'[d] = pc[d] /\ dek'[d] = dek[d] /\ before'[d] = before[d]
           /\ pc'[c] = where
           /\ where \notin Returned \cup {"start"} => dek'[c] = k /\ before'[c] = b
           /\ where \in Returned \cup {"start"} => dek'[c] = NoKey /\ before'[c] = NoProfile
<1>1. NoKey \in KeyRows /\ NoProfile \in Profiles
  BY VaultConstants DEF KeyRows
<1> QED
  BY <1>1 DEF Continue, VaultTypeOK, CallPCs

LEMMA TakeKeyType ==
    ASSUME VaultTypeOK, NEW c \in Calls, NEW onMissing \in {"mint", "failed"}, TakeKey(c, onMissing)
    PROVE  \E where \in {"mint", "failed", "commit"} :
              /\ Continue(c, where, key[Scope(c)], before[c])
              /\ where = "commit" => key[Scope(c)] \in Keys
              /\ key[Scope(c)] \in KeyRows /\ before[c] \in Profiles
<1>1. key[Scope(c)] \in KeyRows /\ before[c] \in Profiles
  BY DEF VaultTypeOK, Scope, Scopes
<1>2. CASE key[Scope(c)] = NoKey
  BY <1>1, <1>2 DEF TakeKey
<1>3. CASE key[Scope(c)] = Shredded
  BY <1>1, <1>3, VaultAssumption DEF TakeKey
<1>4. CASE key[Scope(c)] \in Keys
  <2>1. key[Scope(c)] # NoKey /\ key[Scope(c)] # Shredded
    BY <1>4, VaultAssumption
  <2> QED
    BY <1>1, <1>4, <2>1 DEF TakeKey
<1> QED
  BY <1>1, <1>2, <1>3, <1>4 DEF KeyRows

-----------------------------------------------------------------------------
LEMMA VaultInitTyped == VaultInit => VaultTypeOK
<1> SUFFICES ASSUME VaultInit PROVE VaultTypeOK
  OBVIOUS
<1>1. NoFields \in Documents /\ NoProfile \in Profiles
  BY VaultConstants
<1>2. \A d \in Stored : d \in Documents
  BY VaultAssumption DEF Documents, Values
<1>3. profile \in Profiles
  BY <1>1, <1>2 DEF VaultInit, Profiles, KeyRows, Keys
<1>4. profile.fields \in Documents
  BY <1>3 DEF Profiles
<1>5. key \in [Scopes -> KeyRows]
  BY DEF VaultInit, KeyRows, Keys
<1>6. evidence \subseteq Keys
  BY DEF VaultInit, Keys, Scopes
<1>7. pc \in [Calls -> CallPCs] /\ dek \in [Calls -> KeyRows] /\ before \in [Calls -> Profiles]
  BY <1>1 DEF VaultInit, CallPCs, KeyRows
<1>8. \A c \in Recorders : pc[c] = "commit" => dek[c] \in Keys
  BY DEF VaultInit, Calls
<1>9. tries \in [Patchers -> Nat]
  BY VaultAssumption DEF VaultInit
<1> QED
  BY <1>1, <1>3, <1>4, <1>5, <1>6, <1>7, <1>8, <1>9 DEF VaultInit, VaultTypeOK, RunPCs

USE DEF rowVars, callVars, runVars, holdVars, histVars

LEMMA CallTyped ==
    ASSUME VaultTypeOK, NEW c \in Calls, Call(c)
    PROVE  VaultTypeOK'
<1>1. NoKey \in KeyRows /\ NoProfile \in Profiles /\ c \in Keys /\ c \in KeyRows
      /\ before[c] \in Profiles /\ dek[c] \in KeyRows /\ Scope(c) \in Scopes
  BY VaultConstants DEF KeyRows, Keys, VaultTypeOK, Scope, Scopes
<1>2. \A d \in Recorders : d \in Calls
  BY DEF Calls
<1>3. CASE Load(c) \/ Reload(c)
  <2>1. PICK where \in {"mint", "failed", "commit"} :
              /\ Continue(c, where, key[Scope(c)], before[c])
              /\ where = "commit" => key[Scope(c)] \in Keys
              /\ key[Scope(c)] \in KeyRows
    BY <1>3, TakeKeyType DEF Load, Reload
  <2>2. where \in CallPCs
    BY DEF CallPCs, Returned
  <2>3. UNCHANGED <<rowVars, patch, tries, runVars, holdVars, sweep, histVars>>
    BY <1>3 DEF Load, Reload
  <2>4. pc' \in [Calls -> CallPCs] /\ dek' \in [Calls -> KeyRows] /\ before' \in [Calls -> Profiles]
    BY <1>1, <2>1, <2>2, ContinueType
  <2>6. where = "commit" => dek'[c] \in Keys
    BY <1>1, <2>1, <2>2, ContinueType DEF Returned
  <2>7. pc'[c] = where /\ \A d \in Calls \ {c} : pc'[d] = pc[d] /\ dek'[d] = dek[d]
    BY <1>1, <2>1, <2>2, ContinueType
  <2>5. \A d \in Recorders : pc'[d] = "commit" => dek'[d] \in Keys
    BY <1>2, <2>6, <2>7 DEF VaultTypeOK
  <2> QED
    BY <2>3, <2>4, <2>5 DEF VaultTypeOK
<1>4. CASE Mint(c)
  <2>1. CASE key[Scope(c)] = NoKey
    <3>1. Continue(c, "commit", c, before[c]) /\ "commit" \in CallPCs
      BY <1>4, <2>1 DEF Mint, CallPCs
    <3>2. key' \in [Scopes -> KeyRows]
      BY <1>1, <1>4, <2>1 DEF Mint, VaultTypeOK
    <3>3. pc' \in [Calls -> CallPCs] /\ dek' \in [Calls -> KeyRows] /\ before' \in [Calls -> Profiles]
      BY <1>1, <3>1, ContinueType
    <3>4. \A d \in Recorders : pc'[d] = "commit" => dek'[d] \in Keys
      BY <1>1, <1>2, <3>1, ContinueType DEF VaultTypeOK, Returned
    <3> QED
      BY <1>4, <3>2, <3>3, <3>4 DEF Mint, VaultTypeOK
  <2>2. CASE key[Scope(c)] # NoKey
    <3>1. Continue(c, "reload", NoKey, before[c]) /\ "reload" \in CallPCs /\ key' = key
      BY <1>4, <2>2 DEF Mint, CallPCs
    <3>3. pc' \in [Calls -> CallPCs] /\ dek' \in [Calls -> KeyRows] /\ before' \in [Calls -> Profiles]
      BY <1>1, <3>1, ContinueType
    <3>4. \A d \in Recorders : pc'[d] = "commit" => dek'[d] \in Keys
      BY <1>1, <1>2, <3>1, ContinueType DEF VaultTypeOK, Returned
    <3> QED
      BY <1>4, <3>1, <3>3, <3>4 DEF Mint, VaultTypeOK
  <2> QED
    BY <2>1, <2>2
<1>5. CASE CommitPatch(c)
  <2>1. c \in Patchers
    BY <1>5 DEF CommitPatch
  <2>2. PICK where \in {"conflict", "start", "ok"} : Continue(c, where, NoKey, NoProfile)
    BY <1>5 DEF CommitPatch
  <2>3. where \in CallPCs
    BY DEF CallPCs, Returned
  <2>4. pc' \in [Calls -> CallPCs] /\ dek' \in [Calls -> KeyRows] /\ before' \in [Calls -> Profiles]
    BY <1>1, <2>2, <2>3, ContinueType
  <2>5. \A d \in Recorders : pc'[d] = "commit" => dek'[d] \in Keys
    BY <1>1, <1>2, <2>2, <2>3, ContinueType DEF VaultTypeOK
  <2>6. Merge(before[c].fields, c) \in Documents /\ Merge(meant, c) \in Documents
    BY <1>1, <2>1, MergeType DEF VaultTypeOK, Profiles
  <2>7. profile' \in Profiles /\ index' \in Documents /\ meant' \in Documents /\ seals' \in Nat
    BY <1>1, <1>5, <2>6 DEF CommitPatch, SyncSearchIndex, VaultTypeOK, Profiles
  <2>8. tries' \in [Patchers -> Nat]
    BY <1>5, <2>1, VaultAssumption DEF CommitPatch, VaultTypeOK, UnchangedSince
  <2> QED
    BY <1>5, <2>4, <2>5, <2>7, <2>8 DEF CommitPatch, VaultTypeOK
<1>6. CASE CommitConsent(c)
  <2>1. Continue(c, "ok", NoKey, NoProfile) /\ "ok" \in CallPCs /\ c \in Recorders /\ dek[c] \in Keys
    BY <1>6 DEF CommitConsent, CallPCs, Returned, VaultTypeOK
  <2>4. pc' \in [Calls -> CallPCs] /\ dek' \in [Calls -> KeyRows] /\ before' \in [Calls -> Profiles]
    BY <1>1, <2>1, ContinueType
  <2>5. \A d \in Recorders : pc'[d] = "commit" => dek'[d] \in Keys
    BY <1>1, <1>2, <2>1, ContinueType DEF VaultTypeOK
  <2> QED
    BY <1>6, <2>1, <2>4, <2>5 DEF CommitConsent, VaultTypeOK
<1> QED
  BY <1>3, <1>4, <1>5, <1>6 DEF Call

LEMMA PatchingTyped ==
    ASSUME VaultTypeOK, NEW p \in Patchers, Patching(p)
    PROVE  VaultTypeOK'
<1>1. NoKey \in KeyRows /\ NoProfile \in Profiles /\ p \in Calls /\ before[p] \in Profiles
      /\ profile \in Profiles
  BY VaultConstants DEF KeyRows, Calls, VaultTypeOK
<1>2. PICK where \in {"conflict", "read", "decode", "notfound", "invalid", "commit", "load"},
           b \in Profiles : Continue(p, where, NoKey, b)
  <2>1. CASE StartPatch(p)
    BY <1>1, <2>1 DEF StartPatch
  <2>2. CASE ReadProfile(p)
    BY <1>1, <2>2, AfterDecodeType DEF ReadProfile
  <2>3. CASE DecodeProfile(p)
    BY <1>1, <2>3, AfterDecodeType DEF DecodeProfile
  <2> QED
    BY <2>1, <2>2, <2>3 DEF Patching
<1>3. where \in CallPCs
  BY DEF CallPCs, Returned
<1>4. pc' \in [Calls -> CallPCs] /\ dek' \in [Calls -> KeyRows] /\ before' \in [Calls -> Profiles]
  BY <1>1, <1>2, <1>3, ContinueType
<1>5. \A d \in Recorders : d \in Calls /\ d # p
  BY VaultAssumption DEF Calls
<1>6. \A d \in Recorders : pc'[d] = "commit" => dek'[d] \in Keys
  BY <1>1, <1>2, <1>3, <1>5, ContinueType DEF VaultTypeOK
<1>7. UNCHANGED <<rowVars, patch, tries, runVars, holdVars, sweep, histVars>>
  BY DEF Patching, StartPatch, ReadProfile, DecodeProfile
<1> QED
  BY <1>4, <1>6, <1>7 DEF VaultTypeOK

\* The steps that leave the calls alone.
Background ==
    \/ CreateRequest \/ CancelRequest \/ Erasing \/ Halt
    \/ ShredFallsDue \/ Sweeping \/ CreateHold \/ ReleaseHold

LEMMA BackgroundTyped ==
    ASSUME VaultTypeOK, Background
    PROVE  VaultTypeOK'
<1>1. NoFields \in Documents /\ NoProfile \in Profiles /\ Shredded \in KeyRows
  BY VaultConstants DEF KeyRows
<1>2. \A log : NextStep(log) \in RunPCs
  BY DEF NextStep, RunPCs
<1>3. CASE CreateRequest
  BY <1>3, VaultAssumption DEF CreateRequest, VaultTypeOK
<1>4. CASE CancelRequest
  BY <1>4 DEF CancelRequest, VaultTypeOK
<1>5. CASE BeginRun
  BY <1>2, <1>5 DEF BeginRun, VaultTypeOK
<1>6. CASE ShredDefaultKey
  <2>1. key' \in [Scopes -> KeyRows] /\ epc' \in RunPCs
    BY <1>1, <1>6 DEF ShredDefaultKey, DestroyDEK, VaultTypeOK, RunPCs
  <2> QED
    BY <1>6, <2>1 DEF ShredDefaultKey, VaultTypeOK
<1>7. CASE ExpireConsentKey
  <2>1. key' \in [Scopes -> KeyRows] /\ shredAfter' \in {"unset", "set", "due"}
    BY <1>1, <1>7 DEF ExpireConsentKey, DestroyDEK, VaultTypeOK
  <2>2. logged' \subseteq Steps /\ epc' \in RunPCs
    BY <1>2, <1>7 DEF ExpireConsentKey, VaultTypeOK, Steps
  <2> QED
    BY <1>7, <2>1, <2>2 DEF ExpireConsentKey, VaultTypeOK
<1>8. CASE DeleteProfile
  BY <1>1, <1>8 DEF DeleteProfile, VaultTypeOK, RunPCs
<1>9. CASE DeleteConsentState
  BY <1>9 DEF DeleteConsentState, VaultTypeOK, RunPCs
<1>10. CASE DeleteIndex
  BY <1>1, <1>10 DEF DeleteIndex, VaultTypeOK, RunPCs
<1>11. CASE WriteTombstone
  BY <1>11 DEF WriteTombstone, VaultTypeOK, RunPCs, Steps
<1>12. CASE Finish
  BY <1>12 DEF Finish, VaultTypeOK, RunPCs
<1>13. CASE Halt
  BY <1>13 DEF Halt, VaultTypeOK, RunPCs
<1>14. CASE ShredFallsDue
  BY <1>14 DEF ShredFallsDue, VaultTypeOK
<1>15. CASE SweepSelect \/ SweepCheck
  BY <1>15 DEF SweepSelect, SweepCheck, VaultTypeOK
<1>16. CASE SweepShred
  BY <1>1, <1>16 DEF SweepShred, DestroyDEK, VaultTypeOK
<1>17. CASE CreateHold
  BY <1>17 DEF CreateHold, VaultTypeOK
<1>18. CASE ReleaseHold
  BY <1>18 DEF ReleaseHold, VaultTypeOK
<1> QED
  BY <1>3, <1>4, <1>5, <1>6, <1>7, <1>8, <1>9, <1>10, <1>11, <1>12, <1>13, <1>14,
     <1>15, <1>16, <1>17, <1>18 DEF Background, Erasing, Sweeping

LEMMA NextTyped == VaultTypeOK /\ [VaultNext]_vaultVars => VaultTypeOK'
<1> SUFFICES ASSUME VaultTypeOK, [VaultNext]_vaultVars PROVE VaultTypeOK'
  OBVIOUS
<1>1. CASE UNCHANGED vaultVars
  BY <1>1 DEF vaultVars, VaultTypeOK
<1> QED
  BY <1>1, CallTyped, PatchingTyped, BackgroundTyped DEF VaultNext, Background

(* Every variable of the vault keeps its type, and evidence is sealed with  *)
(* a key that was minted, never with the junk of a shredded row (KMS.dek).  *)
THEOREM VaultTypeCorrect == VaultSpec => []VaultTypeOK
BY VaultInitTyped, NextTyped, PTL DEF VaultSpec

-----------------------------------------------------------------------------
(***************************************************************************)
(* The row and what calls read of it.                                      *)
(***************************************************************************)

\* The steps of the background leave the calls, the profile and the evidence
\* alone, or remove the profile.
LEMMA BackgroundChanges ==
    ASSUME Background
    PROVE  /\ UNCHANGED callVars
           /\ UNCHANGED <<evidence, seals>>
           /\ UNCHANGED <<profile, meant>> \/ (profile' = NoProfile /\ meant' = NoFields)
<1>1. CASE CreateRequest \/ CancelRequest \/ BeginRun \/ Halt \/ ShredFallsDue
           \/ CreateHold \/ ReleaseHold \/ SweepSelect \/ SweepCheck
  BY <1>1 DEF CreateRequest, CancelRequest, BeginRun, Halt, ShredFallsDue,
     CreateHold, ReleaseHold, SweepSelect, SweepCheck
<1>2. CASE DeleteProfile \/ DeleteConsentState \/ DeleteIndex \/ WriteTombstone \/ Finish
  BY <1>2 DEF DeleteProfile, DeleteConsentState, DeleteIndex, WriteTombstone, Finish
<1>3. CASE ShredDefaultKey \/ ExpireConsentKey \/ SweepShred
  BY <1>3 DEF ShredDefaultKey, ExpireConsentKey, SweepShred
<1> QED
  BY <1>1, <1>2, <1>3 DEF Background, Erasing, Sweeping

\* A version names one document, and version 0 is the missing row.
VersionInv ==
    /\ profile.ver <= seals
    /\ profile.ver = 0 => profile = NoProfile
    /\ \A c \in Calls :
          /\ before[c].ver <= seals
          /\ before[c].ver = 0 => before[c] = NoProfile
          /\ before[c].ver = profile.ver => before[c] = profile
    /\ profile.fields = meant

LEMMA InitVersions == VaultInit => VersionInv
<1> SUFFICES ASSUME VaultInit PROVE VersionInv
  OBVIOUS
<1>1. \A c \in Calls : before[c] = NoProfile
  BY DEF VaultInit
<1>2. profile = NoProfile \/ profile.ver = 1
  BY DEF VaultInit
<1> QED
  BY <1>1, <1>2, VaultConstants DEF VaultInit, VersionInv

\* A call that goes on with the stored row, with the row it had or with none.
LEMMA ContinueKeepsVersions ==
    ASSUME VaultTypeOK, VersionInv, UNCHANGED <<profile, meant, seals>>,
           NEW c \in Calls, NEW where \in CallPCs, NEW k \in KeyRows,
           NEW b \in {profile, before[c], NoProfile}, Continue(c, where, k, b)
    PROVE  VersionInv'
<1>1. b \in Profiles /\ seals \in Nat /\ profile.ver \in Nat
  BY VaultConstants DEF VaultTypeOK, Profiles
<1>2. before'[c] \in {profile, before[c], NoProfile}
  BY <1>1, ContinueType
<1>3. \A d \in Calls : before'[d] \in {profile, before[d], NoProfile}
  BY <1>1, <1>2, ContinueType
<1> QED
  BY <1>1, <1>3, VaultConstants DEF VersionInv

LEMMA NextKeepsVersions == VaultTypeOK /\ VersionInv /\ [VaultNext]_vaultVars => VersionInv'
<1> SUFFICES ASSUME VaultTypeOK, VersionInv, [VaultNext]_vaultVars PROVE VersionInv'
  OBVIOUS
<1>1. NoKey \in KeyRows /\ NoProfile \in Profiles /\ profile \in Profiles /\ seals \in Nat
      /\ \A c \in Calls : c \in KeyRows /\ before[c] \in Profiles
  BY VaultConstants DEF KeyRows, Keys, VaultTypeOK
<1>2. ASSUME NEW c \in Calls, Load(c) \/ Reload(c) PROVE VersionInv'
  <2>1. PICK where \in {"mint", "failed", "commit"} :
              /\ Continue(c, where, key[Scope(c)], before[c])
              /\ key[Scope(c)] \in KeyRows
    BY <1>2, TakeKeyType DEF Load, Reload
  <2>2. where \in CallPCs /\ UNCHANGED <<profile, meant, seals>>
    BY <1>2 DEF CallPCs, Returned, Load, Reload
  <2> QED
    BY <2>1, <2>2, ContinueKeepsVersions
<1>3. ASSUME NEW c \in Calls, Mint(c) PROVE VersionInv'
  <2>1. PICK where \in {"commit", "reload"}, k \in KeyRows : Continue(c, where, k, before[c])
    BY <1>1, <1>3 DEF Mint
  <2>2. where \in CallPCs /\ UNCHANGED <<profile, meant, seals>>
    BY <1>3 DEF CallPCs, Mint
  <2> QED
    BY <2>1, <2>2, ContinueKeepsVersions
<1>4. ASSUME NEW p \in Patchers, Patching(p) PROVE VersionInv'
  <2>1. PICK where \in {"conflict", "read", "decode", "notfound", "invalid", "commit", "load"},
             b \in {profile, before[p], NoProfile} : Continue(p, where, NoKey, b)
    <3>1. CASE StartPatch(p)
      BY <3>1 DEF StartPatch
    <3>2. CASE ReadProfile(p)
      BY <3>2, AfterDecodeType DEF ReadProfile
    <3>3. CASE DecodeProfile(p)
      BY <3>3, AfterDecodeType DEF DecodeProfile
    <3> QED
      BY <1>4, <3>1, <3>2, <3>3 DEF Patching
  <2>2. where \in CallPCs /\ UNCHANGED <<profile, meant, seals>> /\ p \in Calls
    BY <1>4 DEF CallPCs, Returned, Calls, Patching, StartPatch, ReadProfile, DecodeProfile
  <2> QED
    BY <1>1, <2>1, <2>2, ContinueKeepsVersions
<1>5. ASSUME NEW c \in Calls, CommitConsent(c) PROVE VersionInv'
  <2>1. Continue(c, "ok", NoKey, NoProfile) /\ UNCHANGED <<profile, meant, seals>> /\ "ok" \in CallPCs
    BY <1>5 DEF CommitConsent, CallPCs, Returned
  <2> QED
    BY <1>1, <2>1, ContinueKeepsVersions
<1>6. ASSUME NEW c \in Calls, CommitPatch(c) PROVE VersionInv'
  <2>1. PICK where \in {"conflict", "start", "ok"} : Continue(c, where, NoKey, NoProfile)
    BY <1>6 DEF CommitPatch
  <2>2. where \in CallPCs
    BY DEF CallPCs, Returned
  <2>3. CASE UNCHANGED <<profile, meant, seals>>
    BY <1>1, <2>1, <2>2, <2>3, ContinueKeepsVersions
  <2>4. CASE ~ UNCHANGED <<profile, meant, seals>>
    <3> DEFINE doc == Merge(before[c].fields, c)
    <3>1. /\ UnchangedSince(c)
          /\ profile' = IF doc = NoFields THEN NoProfile
                        ELSE [ver |-> seals + 1, key |-> dek[c], fields |-> doc]
          /\ meant' = Merge(meant, c)
          /\ seals' = seals + 1
      BY <1>6, <2>4 DEF CommitPatch
    <3>2. before[c] = profile /\ doc = meant'
      BY <3>1 DEF UnchangedSince, VersionInv
    <3>3. profile'.fields = meant'
      BY <3>1, <3>2, VaultConstants
    <3>4. \A d \in Calls : before'[d] \in {before[d], NoProfile}
      BY <1>1, <2>1, <2>2, ContinueType
    <3>5. profile' = NoProfile \/ profile'.ver = seals + 1
      BY <3>1
    <3>6. \A d \in Calls : before'[d].ver <= seals /\ (before'[d].ver = 0 => before'[d] = NoProfile)
      BY <1>1, <3>4, VaultConstants DEF VersionInv
    <3>7. \A d \in Calls : before'[d].ver \in Nat
      BY <1>1, <3>4, VaultConstants DEF Profiles
    <3> QED
      BY <1>1, <3>1, <3>3, <3>5, <3>6, <3>7, VaultConstants DEF VersionInv
  <2> QED
    BY <2>3, <2>4
<1>7. CASE Background
  <2>1. UNCHANGED <<before, seals>>
    BY <1>7, BackgroundChanges
  <2>2. UNCHANGED <<profile, meant>> \/ (profile' = NoProfile /\ meant' = NoFields)
    BY <1>7, BackgroundChanges
  <2> QED
    BY <1>1, <2>1, <2>2, VaultConstants DEF VersionInv
<1>8. CASE UNCHANGED vaultVars
  BY <1>8 DEF vaultVars, VersionInv
<1> QED
  BY <1>2, <1>3, <1>4, <1>5, <1>6, <1>7, <1>8 DEF VaultNext, Call, Background

(* Concurrent patches merge (patchProfile): whatever the interleaving, the  *)
(* stored profile is the committed patches applied one after the other, and *)
(* none of them is lost to one that started from an older row.              *)
THEOREM PatchesMergeAlways == VaultSpec => []PatchesMerge
<1>1. VersionInv => PatchesMerge
  BY DEF VersionInv, PatchesMerge
<1> QED
  BY <1>1, VaultInitTyped, NextTyped, InitVersions, NextKeepsVersions, PTL DEF VaultSpec

-----------------------------------------------------------------------------
(***************************************************************************)
(* The keys.                                                               *)
(***************************************************************************)

\* A call that is about to commit has the key of the row, or the row was
\* shredded since, or it is a patch that leaves nothing to seal.
CallsHoldKey ==
    \A c \in Calls : pc[c] = "commit" =>
        \/ dek[c] \in Keys /\ key[Scope(c)] \in {dek[c], Shredded}
        \/ c \in Patchers /\ Merge(before[c].fields, c) = NoFields

RowsHoldKey ==
    /\ profile.ver # 0 => profile.key \in Keys /\ key["DEFAULT"] \in {profile.key, Shredded}
    /\ \A e \in evidence : key["CONSENT"] \in {e, Shredded}

KeyInv == CallsHoldKey /\ RowsHoldKey

\* How a step may change the keys.
KeysAge ==
    \A s \in Scopes : key'[s] # key[s] => key[s] # Shredded /\ (key[s] = NoKey \/ key'[s] = Shredded)

LEMMA NextAgesKeys == VaultTypeOK /\ [VaultNext]_vaultVars => KeysAge
<1> SUFFICES ASSUME VaultTypeOK, [VaultNext]_vaultVars PROVE KeysAge
  OBVIOUS
<1>1. ASSUME NEW c \in Calls, Mint(c) PROVE KeysAge
  BY <1>1, VaultAssumption DEF Mint, KeysAge, VaultTypeOK, Scope, Scopes
<1>2. CASE ShredDefaultKey \/ SweepShred
  BY <1>2 DEF ShredDefaultKey, SweepShred, DestroyDEK, KeysAge, VaultTypeOK, Scopes
<1>3. CASE ExpireConsentKey
  BY <1>3 DEF ExpireConsentKey, DestroyDEK, KeysAge, VaultTypeOK, Scopes
<1>4. CASE UNCHANGED key
  BY <1>4 DEF KeysAge
<1>5. ASSUME NEW c \in Calls, Call(c) PROVE Mint(c) \/ UNCHANGED key
  BY <1>5 DEF Call, Load, Reload, CommitPatch, CommitConsent
<1>6. ASSUME NEW p \in Patchers, Patching(p) PROVE UNCHANGED key
  BY <1>6 DEF Patching, StartPatch, ReadProfile, DecodeProfile
<1>7. CASE CreateRequest \/ CancelRequest \/ BeginRun \/ Halt \/ ShredFallsDue
           \/ CreateHold \/ ReleaseHold \/ SweepSelect \/ SweepCheck
  BY <1>4, <1>7 DEF CreateRequest, CancelRequest, BeginRun, Halt, ShredFallsDue,
     CreateHold, ReleaseHold, SweepSelect, SweepCheck
<1>8. CASE DeleteProfile \/ DeleteConsentState \/ DeleteIndex \/ WriteTombstone \/ Finish
  BY <1>4, <1>8 DEF DeleteProfile, DeleteConsentState, DeleteIndex, WriteTombstone, Finish
<1>9. CASE UNCHANGED vaultVars
  BY <1>4, <1>9 DEF vaultVars
<1> QED
  BY <1>1, <1>2, <1>3, <1>4, <1>5, <1>6, <1>7, <1>8, <1>9 DEF VaultNext, Erasing, Sweeping

\* A key that is the row's, or shredded, stays so while keys age.
LEMMA AgingKeepsKey ==
    ASSUME VaultTypeOK, KeysAge, NEW s \in Scopes, NEW k \in Keys, key[s] \in {k, Shredded}
    PROVE  key'[s] \in {k, Shredded}
BY VaultAssumption DEF KeysAge

LEMMA InitKeys == VaultInit => KeyInv
<1> SUFFICES ASSUME VaultInit PROVE KeyInv
  OBVIOUS
<1>1. CallsHoldKey
  BY DEF VaultInit, CallsHoldKey
<1>2. profile.ver # 0 => profile.key = Earlier /\ key["DEFAULT"] = profile.key
  BY VaultConstants DEF VaultInit
<1> QED
  BY <1>1, <1>2 DEF VaultInit, KeyInv, RowsHoldKey, Keys

\* One call moves on: the others keep what they hold.
LEMMA ContinueKeepsKeys ==
    ASSUME VaultTypeOK, CallsHoldKey, KeysAge, patch' = patch,
           NEW c \in Calls, NEW where \in CallPCs, NEW k \in KeyRows, NEW b \in Profiles,
           Continue(c, where, k, b),
           where = "commit" => \/ k \in Keys /\ key'[Scope(c)] \in {k, Shredded}
                               \/ c \in Patchers /\ Merge(b.fields, c) = NoFields
    PROVE  CallsHoldKey'
<1>0. \A d \in Calls : Merge(before[d].fields, d)' = [f \in Fields |->
           IF f \in patch[d].remove THEN NoValue
           ELSE IF f \in patch[d].set THEN d ELSE before'[d].fields[f]]
  BY DEF Merge
<1> SUFFICES ASSUME NEW d \in Calls, pc'[d] = "commit"
             PROVE  \/ dek'[d] \in Keys /\ key'[Scope(d)] \in {dek'[d], Shredded}
                    \/ d \in Patchers /\ Merge(before[d].fields, d)' = NoFields
  BY DEF CallsHoldKey, Scope, NoFields
<1>1. CASE d = c
  <2>1. where = "commit" /\ dek'[d] = k /\ before'[d] = b
    BY <1>1, ContinueType DEF Returned
  <2>2. Merge(before[d].fields, d)' = Merge(b.fields, c)
    BY <1>0, <1>1, <2>1 DEF Merge
  <2> QED
    BY <1>1, <2>1, <2>2
<1>2. CASE d # c
  <2>1. pc'[d] = pc[d] /\ dek'[d] = dek[d] /\ before'[d] = before[d]
    BY <1>2, ContinueType
  <2>2. Merge(before[d].fields, d)' = Merge(before[d].fields, d)
    BY <1>0, <2>1 DEF Merge
  <2>3. Scope(d) \in Scopes
    BY DEF Scope, Scopes
  <2> QED
    BY <2>1, <2>2, <2>3, AgingKeepsKey DEF CallsHoldKey
<1> QED
  BY <1>1, <1>2

LEMMA NextKeepsCallKeys == VaultTypeOK /\ VersionInv /\ KeyInv /\ [VaultNext]_vaultVars => CallsHoldKey'
<1> SUFFICES ASSUME VaultTypeOK, VersionInv, KeyInv, [VaultNext]_vaultVars PROVE CallsHoldKey'
  OBVIOUS
<1>1. KeysAge /\ CallsHoldKey
  BY NextAgesKeys DEF KeyInv
<1>2. NoKey \in KeyRows /\ NoProfile \in Profiles /\ profile \in Profiles
      /\ \A c \in Calls : c \in KeyRows /\ c \in Keys /\ before[c] \in Profiles /\ Scope(c) \in Scopes
  BY VaultConstants DEF KeyRows, Keys, VaultTypeOK, Scope, Scopes
<1>3. ASSUME NEW c \in Calls, Load(c) \/ Reload(c) PROVE CallsHoldKey'
  <2>1. PICK where \in {"mint", "failed", "commit"} :
              /\ Continue(c, where, key[Scope(c)], before[c])
              /\ where = "commit" => key[Scope(c)] \in Keys
              /\ key[Scope(c)] \in KeyRows
    BY <1>3, TakeKeyType DEF Load, Reload
  <2>2. where \in CallPCs
    BY DEF CallPCs, Returned
  <2>3. patch' = patch /\ key' = key
    BY <1>3 DEF Load, Reload
  <2> QED
    BY <1>1, <1>2, <2>1, <2>2, <2>3, ContinueKeepsKeys
<1>4. ASSUME NEW c \in Calls, Mint(c) PROVE CallsHoldKey'
  <2>1. patch' = patch
    BY <1>4 DEF Mint
  <2>2. CASE key[Scope(c)] = NoKey
    <3>1. Continue(c, "commit", c, before[c]) /\ "commit" \in CallPCs /\ key'[Scope(c)] = c
      BY <1>2, <1>4, <2>2 DEF Mint, CallPCs, VaultTypeOK
    <3> QED
      BY <1>1, <1>2, <2>1, <3>1, ContinueKeepsKeys
  <2>3. CASE key[Scope(c)] # NoKey
    <3>1. Continue(c, "reload", NoKey, before[c]) /\ "reload" \in CallPCs
      BY <1>4, <2>3 DEF Mint, CallPCs
    <3> QED
      BY <1>1, <1>2, <2>1, <3>1, ContinueKeepsKeys
  <2> QED
    BY <2>2, <2>3
<1>5. ASSUME NEW c \in Calls, CommitPatch(c) \/ CommitConsent(c) PROVE CallsHoldKey'
  <2>1. PICK where \in {"conflict", "start", "ok"} : Continue(c, where, NoKey, NoProfile)
    BY <1>5 DEF CommitPatch, CommitConsent
  <2>2. where \in CallPCs /\ where # "commit" /\ patch' = patch
    BY <1>5 DEF CallPCs, Returned, CommitPatch, CommitConsent
  <2> QED
    BY <1>1, <1>2, <2>1, <2>2, ContinueKeepsKeys
<1>6. ASSUME NEW p \in Patchers, StartPatch(p) PROVE CallsHoldKey'
  <2>1. PICK where \in {"conflict", "read"} : Continue(p, where, NoKey, NoProfile)
    BY <1>6 DEF StartPatch
  <2>2. where \in CallPCs /\ where # "commit" /\ patch' = patch /\ p \in Calls
    BY <1>6 DEF CallPCs, Returned, StartPatch, Calls
  <2> QED
    BY <1>1, <1>2, <2>1, <2>2, ContinueKeepsKeys
<1>7. ASSUME NEW p \in Patchers, ReadProfile(p) PROVE CallsHoldKey'
  <2>1. PICK where \in {"decode", "invalid", "commit", "load"} :
              /\ Continue(p, where, NoKey, profile)
              /\ where = "commit" => Merge(profile.fields, p) = NoFields
    <3>1. profile.ver = 0 => profile.fields = NoFields
      BY VaultConstants DEF VersionInv
    <3> QED
      BY <1>7, <3>1, AfterDecodeType DEF ReadProfile
  <2>2. where \in CallPCs /\ patch' = patch /\ p \in Calls
    BY <1>7 DEF CallPCs, Returned, ReadProfile, Calls
  <2> QED
    BY <1>1, <1>2, <2>1, <2>2, ContinueKeepsKeys
<1>8. ASSUME NEW p \in Patchers, DecodeProfile(p) PROVE CallsHoldKey'
  <2>1. PICK where \in {"notfound", "invalid", "commit", "load"} :
              /\ Continue(p, where, NoKey, before[p])
              /\ where = "commit" => Merge(before[p].fields, p) = NoFields
    BY <1>8, AfterDecodeType DEF DecodeProfile
  <2>2. where \in CallPCs /\ patch' = patch /\ p \in Calls
    BY <1>8 DEF CallPCs, Returned, DecodeProfile, Calls
  <2> QED
    BY <1>1, <1>2, <2>1, <2>2, ContinueKeepsKeys
<1>9. CASE Background \/ UNCHANGED vaultVars
  <2>1. UNCHANGED <<pc, patch, before, dek>>
    BY <1>9, BackgroundChanges DEF vaultVars
  <2>2. \A d \in Calls : Merge(before[d].fields, d)' = Merge(before[d].fields, d)
    BY <2>1 DEF Merge
  <2>3. ASSUME NEW d \in Calls, pc[d] = "commit"
        PROVE  \/ dek[d] \in Keys /\ key'[Scope(d)] \in {dek[d], Shredded}
               \/ d \in Patchers /\ Merge(before[d].fields, d) = NoFields
    BY <1>1, <1>2, <2>3, AgingKeepsKey DEF CallsHoldKey
  <2> QED
    BY <2>1, <2>2, <2>3 DEF CallsHoldKey, Scope, NoFields
<1> QED
  BY <1>3, <1>4, <1>5, <1>6, <1>7, <1>8, <1>9 DEF VaultNext, Call, Patching, Background

LEMMA NextKeepsRowKeys == VaultTypeOK /\ KeyInv /\ [VaultNext]_vaultVars => RowsHoldKey'
<1> SUFFICES ASSUME VaultTypeOK, KeyInv, [VaultNext]_vaultVars PROVE RowsHoldKey'
  OBVIOUS
<1>1. KeysAge /\ CallsHoldKey /\ RowsHoldKey
  BY NextAgesKeys DEF KeyInv
<1>2. "DEFAULT" \in Scopes /\ "CONSENT" \in Scopes /\ evidence \subseteq Keys
  BY DEF Scopes, VaultTypeOK
<1>3. profile' \in {profile, NoProfile} /\ profile'.ver # 0 =>
          profile'.key \in Keys /\ key'["DEFAULT"] \in {profile'.key, Shredded}
  BY <1>1, <1>2, AgingKeepsKey, VaultConstants DEF RowsHoldKey
<1>4. evidence' = evidence => \A e \in evidence' : key'["CONSENT"] \in {e, Shredded}
  BY <1>1, <1>2, AgingKeepsKey DEF RowsHoldKey
<1>5. ASSUME NEW c \in Calls, CommitPatch(c) PROVE RowsHoldKey'
  <2>1. evidence' = evidence /\ key' = key /\ pc[c] = "commit" /\ Scope(c) = "DEFAULT"
    BY <1>5 DEF CommitPatch, Scope
  <2>2. CASE profile' = profile
    BY <1>3, <1>4, <2>1, <2>2 DEF RowsHoldKey
  <2>3. CASE profile' # profile
    <3> DEFINE doc == Merge(before[c].fields, c)
    <3>1. profile' = IF doc = NoFields THEN NoProfile
                     ELSE [ver |-> seals + 1, key |-> dek[c], fields |-> doc]
      BY <1>5, <2>3 DEF CommitPatch
    <3>2. CASE doc = NoFields
      BY <1>3, <1>4, <2>1, <3>1, <3>2 DEF RowsHoldKey
    <3>3. CASE doc # NoFields
      BY <1>1, <1>4, <2>1, <3>1, <3>3 DEF RowsHoldKey, CallsHoldKey
    <3> QED
      BY <3>2, <3>3
  <2> QED
    BY <2>2, <2>3
<1>6. ASSUME NEW c \in Calls, CommitConsent(c) PROVE RowsHoldKey'
  <2>1. evidence' = evidence \cup {dek[c]} /\ key' = key /\ profile' = profile
        /\ pc[c] = "commit" /\ c \notin Patchers /\ Scope(c) = "CONSENT"
    BY <1>6, VaultAssumption DEF CommitConsent, Scope
  <2> QED
    BY <1>1, <1>3, <2>1 DEF RowsHoldKey, CallsHoldKey
<1>7. ASSUME NEW c \in Calls, Load(c) \/ Reload(c) \/ Mint(c) PROVE UNCHANGED <<profile, evidence>>
  BY <1>7 DEF Load, Reload, Mint
<1>8. ASSUME NEW p \in Patchers, Patching(p) PROVE UNCHANGED <<profile, evidence>>
  BY <1>8 DEF Patching, StartPatch, ReadProfile, DecodeProfile
<1>9. CASE UNCHANGED evidence /\ profile' \in {profile, NoProfile}
  BY <1>3, <1>4, <1>9 DEF RowsHoldKey
<1>10. CASE Background
  BY <1>9, <1>10, BackgroundChanges
<1>11. CASE UNCHANGED vaultVars
  BY <1>9, <1>11 DEF vaultVars
<1> QED
  BY <1>5, <1>6, <1>7, <1>8, <1>9, <1>10, <1>11 DEF VaultNext, Call, Background

VaultInv == VaultTypeOK /\ VersionInv /\ KeyInv

LEMMA VaultInvariant == VaultSpec => []VaultInv
<1>1. VaultInit => VaultInv
  BY VaultInitTyped, InitVersions, InitKeys DEF VaultInv
<1>2. VaultInv /\ [VaultNext]_vaultVars => VaultInv'
  BY NextTyped, NextKeepsVersions, NextKeepsCallKeys, NextKeepsRowKeys DEF VaultInv, KeyInv
<1> QED
  BY <1>1, <1>2, PTL DEF VaultSpec

(* What is stored can be opened (KMS.dek): the races to mint the first key  *)
(* leave no profile and no evidence sealed with a key that was not stored.  *)
THEOREM SealedUnderStoredKeyAlways == VaultSpec => []SealedUnderStoredKey
<1>1. VaultInv => SealedUnderStoredKey
  BY DEF VaultInv, KeyInv, RowsHoldKey, SealedUnderStoredKey
<1> QED
  BY <1>1, VaultInvariant, PTL

(* A shredded key never comes back and a live one is never replaced (dek,   *)
(* DestroyDEK), and a subject without a key gets no profile (patchProfile). *)
THEOREM ShredIsForeverAlways == VaultSpec => ShredIsForever
<1>1. ASSUME VaultTypeOK, [VaultNext]_vaultVars, key["DEFAULT"] = Shredded
      PROVE  profile' \in {profile, NoProfile}
  <2>1. ASSUME NEW c \in Calls, Call(c) PROVE profile' = profile
    BY <1>1, <2>1 DEF Call, Load, Reload, Mint, CommitPatch, CommitConsent, Erased
  <2>2. ASSUME NEW p \in Patchers, Patching(p) PROVE profile' = profile
    BY <2>2 DEF Patching, StartPatch, ReadProfile, DecodeProfile
  <2>3. CASE Background
    BY <2>3, BackgroundChanges
  <2>4. CASE UNCHANGED vaultVars
    BY <2>4 DEF vaultVars
  <2> QED
    BY <1>1, <2>1, <2>2, <2>3, <2>4 DEF VaultNext, Background
<1>2. VaultTypeOK /\ [VaultNext]_vaultVars =>
        [/\ \A s \in Scopes : key'[s] # key[s] =>
                key[s] # Shredded /\ (key[s] = NoKey \/ key'[s] = Shredded)
         /\ key["DEFAULT"] = Shredded => profile' \in {profile, NoProfile}]_vaultVars
  BY <1>1, NextAgesKeys DEF KeysAge
<1> QED
  BY <1>2, VaultTypeCorrect, PTL DEF VaultSpec, ShredIsForever

-----------------------------------------------------------------------------
(***************************************************************************)
(* The erasure.                                                            *)
(***************************************************************************)

\* A run works on an active request, so no patch commits between its statements;
\* what it has deleted is gone until it ends.
RunInv ==
    /\ epc # "idle" => request = "PROCESSING"
    /\ epc \in {"state", "index", "tombstone"} => accountBegun /\ profile = NoProfile
    /\ epc = "tombstone" => index = NoFields
    /\ epc = "consentKey" => key["DEFAULT"] = Shredded

EraseInv ==
    /\ RunInv
    /\ ErasedStaysErased
    /\ IndexMirrorsProfile

LEMMA InitErase == VaultInit => EraseInv
<1> SUFFICES ASSUME VaultInit PROVE EraseInv
  OBVIOUS
<1>1. epc = "idle" /\ tombstone = FALSE /\ logged = {} /\ index = profile.fields
  BY DEF VaultInit
<1> QED
  BY <1>1 DEF EraseInv, RunInv, ErasedStaysErased, IndexMirrorsProfile

\* The variables EraseInv is about.
eraseVars == <<key, profile, index, tombstone, request, logged, epc, accountBegun>>

LEMMA NextKeepsErase == VaultTypeOK /\ VersionInv /\ EraseInv /\ [VaultNext]_vaultVars => EraseInv'
<1> SUFFICES ASSUME VaultTypeOK, VersionInv, EraseInv, [VaultNext]_vaultVars PROVE EraseInv'
  OBVIOUS
<1> USE DEF EraseInv, RunInv, ErasedStaysErased, IndexMirrorsProfile
<1>1. KeysAge /\ (key["DEFAULT"] = Shredded => key'["DEFAULT"] = Shredded)
  BY NextAgesKeys DEF KeysAge, Scopes
<1>2. CASE UNCHANGED eraseVars
  BY <1>2 DEF eraseVars
<1>3. ASSUME NEW c \in Calls, Load(c) \/ Reload(c) \/ CommitConsent(c) PROVE UNCHANGED eraseVars
  BY <1>3 DEF Load, Reload, CommitConsent, eraseVars
<1>4. ASSUME NEW c \in Calls, Mint(c) PROVE EraseInv'
  <2>1. UNCHANGED <<profile, index, tombstone, request, logged, epc, accountBegun>>
    BY <1>4 DEF Mint
  <2> QED
    BY <1>1, <2>1
<1>5. ASSUME NEW c \in Calls, CommitPatch(c) PROVE EraseInv'
  <2>1. UNCHANGED <<key, tombstone, request, logged, epc, accountBegun>>
    BY <1>5 DEF CommitPatch
  <2>2. CASE UNCHANGED <<profile, index>>
    BY <2>1, <2>2
  <2>3. CASE ~ UNCHANGED <<profile, index>>
    <3>1. ~HasActiveDeletion /\ ~Erased
      BY <1>5, <2>3 DEF CommitPatch
    <3>2. epc = "idle" /\ ~tombstone
      BY <3>1 DEF HasActiveDeletion, Erased
    <3>3. index' = profile'.fields
      BY <1>5, <2>3, VaultConstants DEF CommitPatch, SyncSearchIndex
    <3> QED
      BY <2>1, <3>2, <3>3
  <2> QED
    BY <2>2, <2>3
<1>6. ASSUME NEW p \in Patchers, Patching(p) PROVE UNCHANGED eraseVars
  BY <1>6 DEF Patching, StartPatch, ReadProfile, DecodeProfile, eraseVars
<1>7. CASE CreateRequest
  BY <1>7 DEF CreateRequest, HasActiveDeletion
<1>8. CASE CancelRequest
  BY <1>8 DEF CancelRequest
<1>9. CASE BeginRun
  <2>1. epc' \in {"key", "profile", "finish"} /\ request' = "PROCESSING"
    BY <1>9 DEF BeginRun, NextStep
  <2> QED
    BY <1>9, <2>1 DEF BeginRun
<1>10. CASE ShredDefaultKey
  <2>1. key'["DEFAULT"] = Shredded
    BY <1>10 DEF ShredDefaultKey, DestroyDEK, VaultTypeOK, Scopes
  <2> QED
    BY <1>10, <2>1 DEF ShredDefaultKey
<1>11. CASE ExpireConsentKey
  <2>1. epc' \in {"key", "profile", "finish"}
    BY <1>11 DEF ExpireConsentKey, NextStep
  <2> QED
    BY <1>1, <1>11, <2>1 DEF ExpireConsentKey
<1>12. CASE DeleteProfile
  <2>1. tombstone => index = NoFields
    OBVIOUS
  <2> QED
    BY <1>12, <2>1 DEF DeleteProfile
<1>13. CASE DeleteConsentState
  BY <1>13 DEF DeleteConsentState
<1>14. CASE DeleteIndex
  BY <1>14, VaultConstants DEF DeleteIndex
<1>15. CASE WriteTombstone
  BY <1>15 DEF WriteTombstone
<1>16. CASE Finish
  BY <1>16 DEF Finish
<1>17. CASE Halt
  BY <1>17 DEF Halt
<1>18. CASE SweepShred
  BY <1>1, <1>18 DEF SweepShred
<1>19. CASE SweepSelect \/ SweepCheck \/ ShredFallsDue \/ CreateHold \/ ReleaseHold
  BY <1>2, <1>19 DEF SweepSelect, SweepCheck, ShredFallsDue, CreateHold, ReleaseHold, eraseVars
<1>20. CASE UNCHANGED vaultVars
  BY <1>2, <1>20 DEF vaultVars, eraseVars
<1> QED
  BY <1>2, <1>3, <1>4, <1>5, <1>6, <1>7, <1>8, <1>9, <1>10, <1>11, <1>12, <1>13, <1>14,
     <1>15, <1>16, <1>17, <1>18, <1>19, <1>20 DEF VaultNext, Call, Erasing, Sweeping

LEMMA EraseInvariant == VaultSpec => []EraseInv
<1>1. VaultInv /\ EraseInv /\ [VaultNext]_vaultVars => EraseInv'
  BY NextKeepsErase DEF VaultInv
<1> QED
  BY <1>1, VaultInvariant, InitErase, PTL DEF VaultSpec

(* No patch that was under way when an erasure began leaves a profile or an *)
(* index row behind the tombstone, and after step 900 the key is shredded   *)
(* (patchProfile's transaction, stepSubjectKey, stepAccount).               *)
THEOREM ErasedStaysErasedAlways == VaultSpec => []ErasedStaysErased
<1>1. EraseInv => ErasedStaysErased
  BY DEF EraseInv
<1> QED
  BY <1>1, EraseInvariant, PTL

(* The blind index mirrors the stored profile (syncSearchIndex), but for    *)
(* the rows an interrupted account step leaves of a deleted one.            *)
THEOREM IndexMirrorsProfileAlways == VaultSpec => []IndexMirrorsProfile
<1>1. EraseInv => IndexMirrorsProfile
  BY DEF EraseInv
<1> QED
  BY <1>1, EraseInvariant, PTL

(* The sweep's own look at the holds (shredConsentKeys) stops it for every  *)
(* hold in force at that moment.                                            *)
THEOREM HoldStopsSweepAlways == VaultSpec => []HoldStopsSweep
<1>1. VaultInit => HoldStopsSweep
  BY DEF VaultInit, HoldStopsSweep
<1>2. ASSUME VaultTypeOK, HoldStopsSweep, [VaultNext]_vaultVars PROVE HoldStopsSweep'
  <2> USE DEF HoldStopsSweep
  <2>1. CASE UNCHANGED <<held, lateHold, sweep>>
    BY <1>2, <2>1
  <2>2. ASSUME NEW c \in Calls, Call(c) PROVE UNCHANGED <<held, lateHold, sweep>>
    BY <2>2 DEF Call, Load, Reload, Mint, CommitPatch, CommitConsent
  <2>3. ASSUME NEW p \in Patchers, Patching(p) PROVE UNCHANGED <<held, lateHold, sweep>>
    BY <2>3 DEF Patching, StartPatch, ReadProfile, DecodeProfile
  <2>4. CASE SweepSelect \/ SweepCheck \/ SweepShred
    BY <1>2, <2>4 DEF SweepSelect, SweepCheck, SweepShred
  <2>5. CASE CreateHold \/ ReleaseHold
    BY <1>2, <2>5 DEF CreateHold, ReleaseHold
  <2>6. CASE CreateRequest \/ CancelRequest \/ Erasing \/ Halt \/ ShredFallsDue
    BY <2>1, <2>6 DEF CreateRequest, CancelRequest, Erasing, BeginRun, ShredDefaultKey,
       ExpireConsentKey, DeleteProfile, DeleteConsentState, DeleteIndex, WriteTombstone,
       Finish, Halt, ShredFallsDue
  <2>7. CASE UNCHANGED vaultVars
    BY <2>1, <2>7 DEF vaultVars
  <2> QED
    BY <1>2, <2>1, <2>2, <2>3, <2>4, <2>5, <2>6, <2>7 DEF VaultNext, Sweeping
<1> QED
  BY <1>1, <1>2, VaultTypeCorrect, PTL DEF VaultSpec
=============================================================================
