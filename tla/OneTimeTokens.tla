---------------------------- MODULE OneTimeTokens ----------------------------
(***************************************************************************)
(* The mailed and texted one-time tokens of the auth service and the       *)
(* accounts they change: the requests that issue a token (signup.go,       *)
(* otp.go, recover.go, resend.go, invite.go, generate_link.go, user.go,    *)
(* reauth.go, through mailflow.go and smsflow.go), its delivery after the  *)
(* commit (auth.go), the requests that redeem one (verify.go, reauth.go)   *)
(* and the PKCE exchange of the code a link may be answered with (pkce.go).*)
(*                                                                         *)
(* A token is written twice: to its column of auth.users, which a typed    *)
(* code is compared with, and to auth.one_time_tokens, through which a     *)
(* link finds its account.  Transactions are READ COMMITTED and none of    *)
(* the reads below takes a lock, so a request is a step that reads and     *)
(* decides and a step that writes what it decided; only the writes of two  *)
(* requests exclude each other, on the row of auth.users.                  *)
(*                                                                         *)
(* A token is named by the request that issued it, so every issued token   *)
(* is new.  A request that is refused (a malformed body, a captcha, a hook,*)
(* a rate limit, a failed statement) changes nothing and is not a step.    *)
(***************************************************************************)
EXTENDS Integers, FiniteSets

CONSTANTS
    Users, Mails, Phones, None,
    Senders,          \* requests that issue a token
    PkceSenders,      \* those with a code challenge
    Verifiers,        \* requests that redeem one
    Configs,          \* [autoconfirm, smsAutoconfirm, secure : BOOLEAN]
    MailFrequency, SMSFrequency,   \* Mailer.MaxFrequency, SMS.MaxFrequency
    OTPExp, SMSOTPExp,             \* Mailer.OTPExp, SMS.OTPExp
    FlowStateExpiry,
    MaxTime,          \* bound: the clock
    MaxFailures       \* bound: messages the provider refuses

Addresses == Mails \cup Phones
Kinds == {"confirmation", "recovery", "current", "new", "reauthentication", "phone_change"}
Slots == {"confirmation", "recovery", "email_change", "reauthentication", "phone_change"}
Never == -1

Tokens == [by : Senders, kind : Kinds, to : Addresses \cup {None}, at : Nat,
           via : {"pkce", "plain", "admin"}]

ASSUME TokenAssumption ==
    /\ None \notin Users \cup Addresses \cup Senders \cup Verifiers \cup Tokens
    /\ Mails \cap Phones = {} /\ PkceSenders \subseteq Senders
    /\ Configs \subseteq [autoconfirm : BOOLEAN, smsAutoconfirm : BOOLEAN, secure : BOOLEAN]
    /\ MailFrequency \in Nat /\ SMSFrequency \in Nat
    /\ OTPExp \in Nat /\ SMSOTPExp \in Nat /\ FlowStateExpiry \in Nat
    /\ MaxTime \in Nat /\ MaxFailures \in Nat

VARIABLES
    now,
    conf,     \* the configuration, fixed for a behaviour
    acct,     \* auth.users and its email and phone identities
    row,      \* auth.one_time_tokens, unique by user and type
    flow,     \* auth.flow_state, named by the request that created it
    req,      \* where each issuing request stands
    ver,      \* where each redeeming request stands
    inbox,    \* tokens somebody holds
    spent,    \* tokens a redemption was committed with
    refused,  \* requests with a message the provider refused
    outdated  \* history: accounts with a change of address that was written
              \* by a request which had read another address of them, or none

vars == <<now, conf, acct, row, flow, req, ver, inbox, spent, refused, outdated>>

-----------------------------------------------------------------------------
(***************************************************************************)
(* Accounts.                                                               *)
(***************************************************************************)

Channels == {"mail", "phone"}
ChannelOf(a) == IF a \in Phones THEN "phone" ELSE "mail"
NoIdentity == [addr |-> None, verified |-> FALSE]
Slot(k) == IF k \in {"current", "new"} THEN "email_change" ELSE k

NoAccount ==
    [there |-> FALSE, addr |-> [c \in Channels |-> None], ok |-> [c \in Channels |-> FALSE],
     id |-> [c \in Channels |-> NoIdentity], change |-> [c \in Channels |-> None],
     status |-> 0, anonymous |-> FALSE, invited |-> FALSE, password |-> FALSE,
     col |-> [k \in Kinds |-> None], sent |-> [s \in Slots |-> Never]]

NoRows == [k \in Kinds |-> None]

\* insertUser, for an address with its identity.
InsertWithAddress(a, confirmed) ==
    LET c == ChannelOf(a)
    IN  [NoAccount EXCEPT !.there = TRUE, !.addr[c] = a, !.ok[c] = confirmed, !.password = TRUE,
                          !.id[c] = [addr |-> a, verified |-> confirmed]]

InsertEmailUser(a, confirmed) == InsertWithAddress(a, confirmed)
InsertPhoneUser(a, confirmed) == InsertWithAddress(a, confirmed)
InsertAnonymous == [NoAccount EXCEPT !.there = TRUE, !.anonymous = TRUE]

\* findUserByEmail and findUserByPhone: at most one account has the address.
FindUserBy(a) == {u \in Users : acct[u].there /\ acct[u].addr[ChannelOf(a)] = a}
FindUserByPhoneChange(a) == {u \in Users : acct[u].there /\ acct[u].change["phone"] = a}
Taken(a, u) == FindUserBy(a) \ {u} # {}

\* markEmailIdentityVerified and markPhoneIdentityVerified: the identity
\* is created when the account has none.
MarkIdentityVerified(a, c) ==
    IF a.addr[c] = None THEN a ELSE [a EXCEPT !.id[c] = [addr |-> a.addr[c], verified |-> TRUE]]

-----------------------------------------------------------------------------
(***************************************************************************)
(* Issuing.  A send writes the columns of auth.users and the rows of       *)
(* auth.one_time_tokens in the transaction and queues the message.         *)
(***************************************************************************)

\* Each send is what it writes: the account, and the tokens it issues.
Token(s, k, to, via) == [by |-> s, kind |-> k, to |-> to, at |-> now, via |-> via]

\* addFlowPrefix: the links of a flow carry its mark.
Flow(s) == IF s \in PkceSenders THEN "pkce" ELSE "plain"

SetToken(a, t) == [a EXCEPT !.col[t.kind] = t, !.sent[Slot(t.kind)] = now]

SendOne(a, t) == [acct |-> SetToken(a, t), toks |-> {t}]

SendConfirmation(s, a, to) == SendOne(a, Token(s, "confirmation", to, Flow(s)))
SendInvite(s, a, to) == SendOne([a EXCEPT !.invited = TRUE], Token(s, "confirmation", to, "plain"))
SendPasswordRecovery(s, a, to) == SendOne(a, Token(s, "recovery", to, Flow(s)))
SendMagicLink(s, a, to) == SendOne(a, Token(s, "recovery", to, Flow(s)))
SendReauthentication(s, a, to) == SendOne(a, Token(s, "reauthentication", to, "plain"))
SendPhoneConfirmation(s, a, k, to) ==
    SendOne(IF k = "phone_change" THEN [a EXCEPT !.change["phone"] = to] ELSE a,
            Token(s, k, to, "plain"))

\* With secure changes the address the account has must confirm as well.
SendEmailChange(s, a, mail, to) ==
    LET new == Token(s, "new", to, Flow(s))
        current == Token(s, "current", mail, Flow(s))
        secure == conf.secure /\ mail # None
        b == [a EXCEPT !.change["mail"] = to, !.status = 0, !.sent["email_change"] = now,
                       !.col["new"] = new, !.col["current"] = IF secure THEN current ELSE None]
    IN  [acct |-> b, toks |-> IF secure THEN {new, current} ELSE {new}]

\* generateActionToken: the token is returned to the administrator.
GenerateActionToken(s, a, k, mail, to) ==
    CASE k = "link_current" -> SendOne([a EXCEPT !.change["mail"] = to, !.status = 0],
                                       Token(s, "current", mail, "admin"))
      [] k = "link_new" -> SendOne([a EXCEPT !.change["mail"] = to, !.status = 0],
                                   Token(s, "new", to, "admin"))
      [] k = "link_recovery" -> SendOne(a, Token(s, "recovery", mail, "admin"))
      [] k = "link_signup" -> SendOne(a, Token(s, "confirmation", mail, "admin"))
      [] k = "link_invite" -> SendOne([a EXCEPT !.invited = TRUE],
                                      Token(s, "confirmation", mail, "admin"))

\* checkMailFrequency looks at the row, checkSMSFrequency at the column of
\* the account the request has read.
CheckMailFrequency(u, k) == row[u][k] # None => now >= row[u][k].at + MailFrequency
CheckSMSFrequency(u, k) ==
    acct[u].sent[Slot(k)] # Never => now >= acct[u].sent[Slot(k)] + SMSFrequency

-----------------------------------------------------------------------------
(***************************************************************************)
(* The handlers, up to the write.  What a request has decided: which send, *)
(* for which account (None: a new one), to which address, and the address  *)
(* and the flow's authentication method it has read or chosen.             *)
(***************************************************************************)

IdleReq == [st |-> "idle", send |-> "none", u |-> None, to |-> None, mail |-> None,
            method |-> "none", toks |-> {}]
DoneReq == [IdleReq EXCEPT !.st = "done"]

Decide(s, send, u, to, mail, method) ==
    /\ req[s].st = "idle"
    /\ req' = [req EXCEPT ![s] = [IdleReq EXCEPT !.st = "ready", !.send = send, !.u = u, !.to = to,
                                                 !.mail = mail, !.method = method]]
    /\ UNCHANGED <<now, conf, acct, row, flow, ver, inbox, spent, refused, outdated>>

\* A confirmed address is answered with a made-up user, and nothing is done;
\* with autoconfirm an unconfirmed account is signed in as it is.
Signup(s, a) ==
    \/ /\ FindUserBy(a) = {}
       /\ Decide(s, IF conf.autoconfirm THEN "none" ELSE "confirmation", None, a, a, "email/signup")
    \/ \E u \in FindUserBy(a) :
          /\ ~acct[u].ok["mail"]
          /\ ~conf.autoconfirm => CheckMailFrequency(u, "confirmation")
          /\ Decide(s, IF conf.autoconfirm THEN "none" ELSE "confirmation", u, a, a, "email/signup")

\* A number with SMS.Autoconfirm is confirmed on the spot.
SignupWithPhone(s, p) ==
    \/ /\ FindUserBy(p) = {}
       /\ Decide(s, IF conf.smsAutoconfirm THEN "none" ELSE "sms", None, p, None, "none")
    \/ \E u \in FindUserBy(p) :
          /\ ~acct[u].ok["phone"]
          /\ ~conf.smsAutoconfirm => CheckSMSFrequency(u, "confirmation")
          /\ Decide(s, IF conf.smsAutoconfirm THEN "confirm_phone" ELSE "sms", u, p, None, "none")

SignupAnonymously(s) == Decide(s, "anonymous", None, None, None, "none")

\* sendMagicLinkTo, for /otp and /magiclink: the account is read before the
\* transaction, and an unconfirmed one is sent a confirmation instead.
SendMagicLinkTo(s, a) ==
    \/ /\ FindUserBy(a) = {}
       /\ Decide(s, IF conf.autoconfirm THEN "magiclink" ELSE "confirmation", None, a, a,
                 IF conf.autoconfirm THEN "magiclink" ELSE "email/signup")
    \/ \E u \in FindUserBy(a) :
          LET fresh == ~acct[u].ok["mail"] /\ ~conf.autoconfirm
          IN  /\ CheckMailFrequency(u, IF fresh THEN "confirmation" ELSE "recovery")
              /\ Decide(s, IF fresh THEN "confirmation" ELSE "magiclink", u, a, a,
                        IF fresh THEN "email/signup" ELSE "magiclink")

SmsOTP(s, p) ==
    \/ /\ FindUserBy(p) = {}
       /\ Decide(s, "sms", None, p, None, "none")
    \/ \E u \in FindUserBy(p) :
          /\ CheckSMSFrequency(u, "confirmation")
          /\ Decide(s, IF ~acct[u].ok["phone"] /\ conf.smsAutoconfirm THEN "confirm_sms" ELSE "sms",
                    u, p, None, "none")

Recover(s, a) ==
    \E u \in FindUserBy(a) :
        /\ CheckMailFrequency(u, "recovery")
        /\ Decide(s, "recovery", u, a, a, "recovery")

ResendSignup(s, a) ==
    \E u \in FindUserBy(a) :
        /\ ~acct[u].ok["mail"]
        /\ CheckMailFrequency(u, "confirmation")
        /\ Decide(s, "confirmation", u, a, a, "email/signup")

\* The pending address is the one the request has read.
ResendEmailChange(s, a) ==
    \E u \in FindUserBy(a) :
        /\ acct[u].change["mail"] # None
        /\ CheckMailFrequency(u, "new")
        /\ Decide(s, "email_change", u, acct[u].change["mail"], a, "email_change")

ResendSMS(s, p) ==
    \E u \in FindUserBy(p) :
        \/ /\ ~acct[u].ok["phone"]
           /\ CheckSMSFrequency(u, "confirmation")
           /\ Decide(s, "sms", u, p, None, "none")
        \/ /\ acct[u].change["phone"] # None
           /\ CheckSMSFrequency(u, "phone_change")
           /\ Decide(s, "phone_change", u, acct[u].change["phone"], None, "none")

\* An invitation is not held back by the frequency.
Invite(s, a) ==
    \/ FindUserBy(a) = {} /\ Decide(s, "invite", None, a, a, "none")
    \/ \E u \in FindUserBy(a) : ~acct[u].ok["mail"] /\ Decide(s, "invite", u, a, a, "none")

\* A magic link for an address without an account signs it up.
AdminGenerateLink(s, a) ==
    \/ /\ FindUserBy(a) = {}
       /\ \E k \in {"link_signup", "link_invite"} : Decide(s, k, None, a, a, "none")
    \/ \E u \in FindUserBy(a) :
          \/ /\ ~acct[u].ok["mail"]
             /\ \E k \in {"link_signup", "link_invite"} : Decide(s, k, u, a, a, "none")
          \/ Decide(s, "link_recovery", u, a, a, "none")
          \/ \E k \in {"link_current", "link_new"}, b \in Mails :
                /\ k = "link_current" => conf.secure
                /\ ~Taken(b, u)
                /\ Decide(s, k, u, b, a, "none")

\* updateUser with an email address: with autoconfirm it is set at once.
UpdateEmail(s, u, a) ==
    /\ acct[u].there /\ acct[u].addr["mail"] # a
    /\ ~Taken(a, u)
    /\ ~conf.autoconfirm => CheckMailFrequency(u, "new")
    /\ Decide(s, IF conf.autoconfirm THEN "set_email" ELSE "email_change", u, a, acct[u].addr["mail"],
              "email_change")

\* updateUser with a phone number (isDuplicatePhone).
UpdatePhone(s, u, p) ==
    /\ acct[u].there /\ acct[u].addr["phone"] # p
    /\ ~Taken(p, u)
    /\ ~conf.smsAutoconfirm => CheckSMSFrequency(u, "phone_change")
    /\ Decide(s, IF conf.smsAutoconfirm THEN "set_phone" ELSE "phone_change", u, p, None, "none")

\* The nonce goes to the email address, and to the number of an account
\* without one; either must be confirmed.
Reauthenticate(s, u) ==
    /\ acct[u].there
    /\ \/ /\ acct[u].addr["mail"] = None /\ acct[u].addr["phone"] # None /\ acct[u].ok["phone"]
          /\ CheckSMSFrequency(u, "reauthentication")
          /\ Decide(s, "sms_reauth", u, acct[u].addr["phone"], None, "none")
       \/ /\ acct[u].addr["mail"] # None /\ acct[u].ok["mail"]
          /\ CheckMailFrequency(u, "reauthentication")
          /\ Decide(s, "reauth", u, acct[u].addr["mail"], acct[u].addr["mail"], "none")

-----------------------------------------------------------------------------
(***************************************************************************)
(* What a redeemed token does to the account.  "seen" is what the request  *)
(* read of it before.                                                      *)
(***************************************************************************)

Seen(u) == [mail |-> acct[u].addr["mail"], ok |-> acct[u].ok["mail"], change |-> acct[u].change,
            anonymous |-> acct[u].anonymous, bare |-> acct[u].invited /\ ~acct[u].password]
NothingSeen == [mail |-> None, ok |-> FALSE, change |-> [c \in Channels |-> None],
                anonymous |-> FALSE, bare |-> FALSE]

SignupVerify(a, seen) ==
    MarkIdentityVerified([a EXCEPT !.col["confirmation"] = None, !.ok["mail"] = TRUE,
                                   !.password = @ \/ seen.bare], "mail")

\* Variants named Mut... are plausible slips of the code; each breaks a property.
MutRecoverVerifyKeepsCode(a, seen) ==
    IF seen.ok THEN a
    ELSE MarkIdentityVerified([a EXCEPT !.ok["mail"] = TRUE, !.col["confirmation"] = None], "mail")

RecoverVerify(a, seen) ==
    LET b == [a EXCEPT !.col["recovery"] = None]
    IN  IF seen.ok THEN b
        ELSE MarkIdentityVerified([b EXCEPT !.ok["mail"] = TRUE, !.col["confirmation"] = None], "mail")

\* The first of two links burns the half it is, if it is still stored.
FirstHalf(a, half) ==
    IF half = "none" THEN [a EXCEPT !.status = 1] ELSE [a EXCEPT !.status = 1, !.col[half] = None]

ApplyEmailChange(a, seen) ==
    MarkIdentityVerified(
        [a EXCEPT !.addr["mail"] = seen.change["mail"], !.change["mail"] = None, !.status = 0,
                  !.col["current"] = None, !.col["new"] = None, !.col["confirmation"] = None,
                  !.ok["mail"] = TRUE, !.anonymous = @ /\ ~seen.anonymous], "mail")

ConfirmPhone(a, seen) ==
    MarkIdentityVerified([a EXCEPT !.col["confirmation"] = None, !.ok["phone"] = TRUE,
                                   !.anonymous = @ /\ ~seen.anonymous], "phone")

ApplyPhoneChange(a, seen) ==
    MarkIdentityVerified(
        [a EXCEPT !.addr["phone"] = seen.change["phone"], !.change["phone"] = None,
                  !.col["phone_change"] = None, !.ok["phone"] = TRUE,
                  !.anonymous = @ /\ ~seen.anonymous], "phone")

VerifyReauthentication(a) == [a EXCEPT !.col["reauthentication"] = None]

\* Writes to the account of a redemption under way.
Raced(u, v) == [w \in Verifiers |-> IF w # v /\ ver[w].u = u /\ ver[w].st \in {"read", "tokens"}
                                    THEN [ver[w] EXCEPT !.raced = TRUE] ELSE ver[w]]

-----------------------------------------------------------------------------
(***************************************************************************)
(* The write of an issuing request, and what follows its commit.           *)
(***************************************************************************)

\* updateUser with autoconfirm: only an identity that exists is changed.
SetEmail(a, to) ==
    LET b == [a EXCEPT !.addr["mail"] = to, !.ok["mail"] = TRUE]
    IN  IF a.id["mail"] = NoIdentity THEN b ELSE MarkIdentityVerified(b, "mail")

\* With SMS.Autoconfirm the number is parked and applied in one transaction.
SetPhone(a, to) ==
    ApplyPhoneChange([a EXCEPT !.change["phone"] = to],
                     [anonymous |-> a.anonymous, change |-> [c \in Channels |-> to]])

Written(s, a) ==
    LET r == req[s]
        quiet == [anonymous |-> a.anonymous]
    IN  CASE r.send \in {"none", "anonymous"} -> [acct |-> a, toks |-> {}]
          [] r.send = "confirmation" -> SendConfirmation(s, a, r.to)
          [] r.send = "invite" -> SendInvite(s, a, r.to)
          [] r.send = "recovery" -> SendPasswordRecovery(s, a, r.to)
          [] r.send = "magiclink" -> SendMagicLink(s, a, r.to)
          [] r.send = "reauth" -> SendReauthentication(s, a, r.to)
          [] r.send = "email_change" -> SendEmailChange(s, a, r.mail, r.to)
          [] r.send = "sms" -> SendPhoneConfirmation(s, a, "confirmation", r.to)
          [] r.send = "phone_change" -> SendPhoneConfirmation(s, a, "phone_change", r.to)
          [] r.send = "sms_reauth" -> SendPhoneConfirmation(s, a, "reauthentication", r.to)
          [] r.send = "confirm_phone" -> [acct |-> ConfirmPhone(a, quiet), toks |-> {}]
          [] r.send = "confirm_sms" ->
                SendPhoneConfirmation(s, ConfirmPhone(a, quiet), "confirmation", r.to)
          [] r.send = "set_email" -> [acct |-> SetEmail(a, r.to), toks |-> {}]
          [] r.send = "set_phone" -> [acct |-> SetPhone(a, r.to), toks |-> {}]
          [] OTHER -> GenerateActionToken(s, a, r.send, r.mail, r.to)

\* clearAllOneTimeTokens goes with confirming a number.
Wipes(r) == r.send \in {"confirm_phone", "confirm_sms", "set_phone"}

\* issueOneTimeToken is an upsert on (user, type).
IssueOneTimeTokens(rs, toks) ==
    [k \in Kinds |-> IF \E t \in toks : t.kind = k THEN CHOOSE t \in toks : t.kind = k ELSE rs[k]]

\* createFlowState, for a request with a challenge.
CreateFlowState(s, u) ==
    IF s \in PkceSenders /\ req[s].method # "none" /\ req[s].send \notin {"none", "set_email"}
    THEN [flow EXCEPT ![s] = [st |-> "open", u |-> u, method |-> req[s].method, at |-> now,
                              issued |-> Never]]
    ELSE flow

NewAccount(r) ==
    CASE r.send = "anonymous" -> InsertAnonymous
      [] r.to \in Phones -> InsertPhoneUser(r.to, conf.smsAutoconfirm)
      [] OTHER -> InsertEmailUser(r.to, conf.autoconfirm
                                        /\ r.send \notin {"invite", "link_signup", "link_invite"})

\* The unique index on the address a request gives an account.
Conflict(s, u) ==
    /\ req[s].u = None \/ req[s].send \in {"set_email", "set_phone"}
    /\ req[s].to # None /\ Taken(req[s].to, u)

\* deliverPending after the commit: every message goes out, or one is
\* refused and its tokens are to be discarded.  The new address of a change
\* is written to before the current one.
Delivered(s, toks) ==
    \/ /\ inbox' = inbox \cup toks
       /\ req' = [req EXCEPT ![s] = DoneReq]
       /\ UNCHANGED refused
    \/ /\ toks # {} /\ Cardinality(refused) < MaxFailures
       /\ req[s].send \notin {"link_signup", "link_invite", "link_recovery", "link_current", "link_new"}
       /\ \E got \in {{}, {t \in toks : t.kind = "new" /\ Cardinality(toks) = 2}} :
             inbox' = inbox \cup got
       /\ req' = [req EXCEPT ![s].st = "refused", ![s].toks = toks]
       /\ refused' = refused \cup {s}

\* The row a new account gets: any one that is free.
FreshUser ==
    IF \A u \in Users : acct[u].there THEN {} ELSE {CHOOSE u \in Users : ~acct[u].there}

\* updateUser and /resend read the account before the transaction, and
\* sendEmailChange goes by the address they read.
Outdated(s, u) ==
    IF req[s].send = "email_change" /\ acct[u].addr["mail"] # req[s].mail THEN {u} ELSE {}

\* The transaction of an issuing request.
Write(s) ==
    /\ req[s].st = "ready"
    /\ \E u \in IF req[s].u = None THEN FreshUser ELSE {req[s].u} :
          LET w == Written(s, IF req[s].u = None THEN NewAccount(req[s]) ELSE acct[u])
          IN  IF Conflict(s, u)
              THEN /\ req' = [req EXCEPT ![s] = DoneReq]
                   /\ UNCHANGED <<acct, row, flow, ver, inbox, refused, outdated>>
              ELSE /\ acct' = [acct EXCEPT ![u] = w.acct]
                   /\ row' = [row EXCEPT ![u] =
                                 IssueOneTimeTokens(IF Wipes(req[s]) THEN NoRows ELSE @, w.toks)]
                   /\ flow' = CreateFlowState(s, u)
                   /\ ver' = Raced(u, None)
                   /\ Delivered(s, w.toks)
                   /\ outdated' = outdated \cup Outdated(s, u)
    /\ UNCHANGED <<now, conf, spent>>

\* The token a discard is at: that of the new address first.
Undelivered(s) ==
    IF \E t \in req[s].toks : t.kind = "new" THEN CHOOSE t \in req[s].toks : t.kind = "new"
    ELSE CHOOSE t \in req[s].toks : TRUE

\* discardToken: a statement for the column and one for the row, each only
\* where the token is still the stored one.
DiscardColumn(s) ==
    LET t == Undelivered(s)
    IN  /\ req[s].st = "refused"
        /\ acct' = [u \in Users |->
                       IF acct[u].col[t.kind] = t
                       THEN [acct[u] EXCEPT !.col[t.kind] = None, !.sent[Slot(t.kind)] = Never]
                       ELSE acct[u]]
        /\ req' = [req EXCEPT ![s].st = "cleared"]
        /\ UNCHANGED <<now, conf, row, flow, ver, inbox, spent, refused, outdated>>

DiscardRow(s) ==
    LET t == Undelivered(s)
        left == req[s].toks \ {t}
    IN  /\ req[s].st = "cleared"
        /\ row' = [u \in Users |-> [row[u] EXCEPT ![t.kind] = IF @ = t THEN None ELSE @]]
        /\ req' = [req EXCEPT ![s] = IF left = {} THEN DoneReq
                                     ELSE [@ EXCEPT !.st = "refused", !.toks = left]]
        /\ UNCHANGED <<now, conf, acct, flow, ver, inbox, spent, refused, outdated>>

\* A statement fails or the process dies: the rest is not discarded.
DiscardStops(s) ==
    /\ req[s].st \in {"refused", "cleared"}
    /\ req' = [req EXCEPT ![s] = DoneReq]
    /\ UNCHANGED <<now, conf, acct, row, flow, ver, inbox, spent, refused, outdated>>

-----------------------------------------------------------------------------
(***************************************************************************)
(* Redeeming: /verify with a link or a token hash, /verify with a typed    *)
(* code, and the nonce of a password change.                               *)
(***************************************************************************)

IdleVer == [st |-> "idle", form |-> "none", tok |-> None, u |-> None, seen |-> NothingSeen,
            status |-> 0, half |-> "none", raced |-> FALSE, code |-> None]
DoneVer(st) == [IdleVer EXCEPT !.st = st]

\* isSMSOTPExpired has its own period.
OTPPeriod(t) == IF t.to \in Phones THEN SMSOTPExp ELSE OTPExp

\* isOTPExpired, of the *_sent_at column.
Expired(u, t) ==
    LET sent == acct[u].sent[Slot(t.kind)]
    IN  sent = Never \/ now > sent + OTPPeriod(t)

\* verifyTokenHash: the account is the one of the row.
FoundByHash(t) == {u \in Users : row[u][t.kind] = t /\ ~Expired(u, t)}

\* findUserForEmailChange: both kinds of row with secure changes.
FoundByChange(t) ==
    {u \in Users : row[u][t.kind] = t /\ (t.kind = "current" => conf.secure)}

\* verifyUserAndToken: the account is found by the address the code was
\* sent to, and the code compared with the column.
FoundByCode(t) ==
    LET found == CASE t.kind \in {"current", "new"} -> FoundByChange(t)
                   [] t.kind = "phone_change" -> FindUserByPhoneChange(t.to)
                   [] OTHER -> FindUserBy(t.to)
    IN  {u \in found : acct[u].col[t.kind] = t /\ ~Expired(u, t)}

\* verifyReauthentication: the address of the account is the recipient.
FoundByNonce(t) ==
    {u \in Users : /\ acct[u].there /\ acct[u].col["reauthentication"] = t /\ ~Expired(u, t)
                   /\ t.to = IF acct[u].addr["mail"] # None THEN acct[u].addr["mail"]
                             ELSE acct[u].addr["phone"]}

Found(form, t) ==
    CASE form = "nonce" -> FoundByNonce(t)
      [] form = "typed" -> FoundByCode(t)
      [] OTHER -> FoundByHash(t)

\* How a token may be presented.  A link without a flow's mark does what
\* posting its hash does.
Forms(t) ==
    IF t.kind = "reauthentication" THEN {"nonce"}
    ELSE {"post", "typed"} \cup IF t.via = "pkce" THEN {"get"} ELSE {}

\* The reads of a redemption.  A token that is not found is answered with
\* the same error whatever the reason.
Verify(v, form, t) ==
    /\ ver[v].st = "idle" /\ t \in inbox
    /\ \E u \in Found(form, t) :
          ver' = [ver EXCEPT ![v] = [IdleVer EXCEPT !.st = "read", !.form = form, !.tok = t, !.u = u,
                                                    !.seen = Seen(u)]]
    /\ UNCHANGED <<now, conf, acct, row, flow, req, inbox, spent, refused, outdated>>

\* findUserTokens: emailChangeVerify reads the columns once more.
FindUserTokens(v) ==
    /\ ver[v].st = "read" /\ ver[v].tok.kind \in {"current", "new"}
    /\ LET a == acct[ver[v].u]
           half == CASE a.col["current"] = ver[v].tok -> "current"
                     [] a.col["new"] = ver[v].tok -> "new"
                     [] OTHER -> "none"
       IN  ver' = [ver EXCEPT ![v].st = "tokens", ![v].status = a.status, ![v].half = half]
    /\ UNCHANGED <<now, conf, acct, row, flow, req, inbox, spent, refused, outdated>>

\* findFlowStateForUser: the newest of the account's flows of the method.
FlowStatesFor(u, method) ==
    LET open == {s \in Senders : flow[s].st = "open" /\ flow[s].u = u /\ flow[s].method = method}
    IN  {s \in open : \A o \in open : flow[o].at <= flow[s].at}

\* A link of a flow is answered with the flow's code (issueAuthCode), any
\* other redemption with a session.  Without a flow the redemption fails.
Answer(v) ==
    LET t == ver[v].tok
    IN  IF ver[v].form = "get" /\ t.via = "pkce"
        THEN \E s \in FlowStatesFor(ver[v].u, flow[t.by].method) :
                /\ flow' = [flow EXCEPT ![s].issued = now]
                /\ ver' = [Raced(ver[v].u, v) EXCEPT ![v] = [DoneVer("code") EXCEPT !.code = s]]
        ELSE /\ ver' = [Raced(ver[v].u, v) EXCEPT ![v] = DoneVer("session")]
             /\ UNCHANGED flow

\* What applyVerification makes of the account, and of its rows.
Redeem(v, a) ==
    /\ acct' = [acct EXCEPT ![ver[v].u] = a]
    /\ row' = [row EXCEPT ![ver[v].u] = NoRows]
    /\ spent' = spent \cup {ver[v].tok}
    /\ Answer(v)
    /\ UNCHANGED <<now, conf, req, inbox, refused, outdated>>

ApplySignup(v) ==
    /\ ver[v].st = "read" /\ ver[v].tok.kind = "confirmation" /\ ver[v].tok.to \in Mails
    /\ Redeem(v, SignupVerify(acct[ver[v].u], ver[v].seen))

ApplyRecovery(v) ==
    /\ ver[v].st = "read" /\ ver[v].tok.kind = "recovery"
    /\ Redeem(v, RecoverVerify(acct[ver[v].u], ver[v].seen))

ApplySms(v) ==
    /\ ver[v].st = "read" /\ ver[v].tok.kind = "confirmation" /\ ver[v].tok.to \in Phones
    /\ Redeem(v, ConfirmPhone(acct[ver[v].u], ver[v].seen))

\* smsVerify: the number parked on the account replaces the one it has.
ApplyPhone(v) ==
    /\ ver[v].st = "read" /\ ver[v].tok.kind = "phone_change"
    /\ ver[v].seen.change["phone"] # None
    /\ ~Taken(ver[v].seen.change["phone"], ver[v].u)
    /\ Redeem(v, ApplyPhoneChange(acct[ver[v].u], ver[v].seen))

ApplyNonce(v) ==
    /\ ver[v].st = "read" /\ ver[v].form = "nonce"
    /\ Redeem(v, VerifyReauthentication(acct[ver[v].u]))

MutTwoHalvesFromCurrent(v) ==
    /\ ~conf.autoconfirm /\ conf.secure /\ ver[v].status = 0 /\ ver[v].seen.mail # None
    /\ ver[v].half = "current"

TwoHalves(v) == ~conf.autoconfirm /\ conf.secure /\ ver[v].status = 0 /\ ver[v].seen.mail # None

MutAcceptHalfKeepsLink(v) ==
    LET u == ver[v].u
    IN  /\ ver[v].st = "tokens" /\ TwoHalves(v)
        /\ acct' = [acct EXCEPT ![u] = FirstHalf(@, ver[v].half)]
        /\ spent' = spent \cup {ver[v].tok}
        /\ ver' = [Raced(u, v) EXCEPT ![v] = [DoneVer("half") EXCEPT !.u = u, !.raced = ver[v].raced]]
        /\ UNCHANGED <<now, conf, row, flow, req, inbox, refused, outdated>>

\* emailChangeVerify with the first of two links.
AcceptHalf(v) ==
    LET u == ver[v].u
    IN  /\ ver[v].st = "tokens" /\ TwoHalves(v)
        /\ acct' = [acct EXCEPT ![u] = FirstHalf(@, ver[v].half)]
        /\ row' = IF ver[v].half = "none" THEN row ELSE [row EXCEPT ![u][ver[v].half] = None]
        /\ spent' = spent \cup {ver[v].tok}
        /\ ver' = [Raced(u, v) EXCEPT ![v] = [DoneVer("half") EXCEPT !.u = u, !.raced = ver[v].raced]]
        /\ UNCHANGED <<now, conf, flow, req, inbox, refused, outdated>>

\* emailChangeVerify with the only or the second link.
ApplyChange(v) ==
    /\ ver[v].st = "tokens" /\ ~TwoHalves(v)
    /\ ver[v].seen.change["mail"] # None
    /\ ~Taken(ver[v].seen.change["mail"], ver[v].u)
    /\ Redeem(v, ApplyEmailChange(acct[ver[v].u], ver[v].seen))

\* pkceGrant: the flow is locked, and deleted with the session's grant.
FlowExpired(s) ==
    now > FlowStateExpiry + IF flow[s].issued # Never /\ flow[s].method = "magiclink"
                            THEN flow[s].issued ELSE flow[s].at

MutPkceGrantKeepsFlow(v) ==
    LET s == ver[v].code
    IN  /\ ver[v].st = "code"
        /\ flow[s].st = "open" /\ ~FlowExpired(s)
        /\ ver' = [ver EXCEPT ![v] = [@ EXCEPT !.st = "session"]]
        /\ UNCHANGED <<now, conf, acct, row, flow, req, inbox, spent, refused, outdated>>

PkceGrant(v) ==
    LET s == ver[v].code
    IN  /\ ver[v].st = "code"
        /\ flow[s].st = "open" /\ ~FlowExpired(s)
        /\ flow' = [flow EXCEPT ![s].st = "used"]
        /\ ver' = [ver EXCEPT ![v] = [@ EXCEPT !.st = "session"]]
        /\ UNCHANGED <<now, conf, acct, row, req, inbox, spent, refused, outdated>>

Tick ==
    /\ now < MaxTime
    /\ now' = now + 1
    /\ UNCHANGED <<conf, acct, row, flow, req, ver, inbox, spent, refused, outdated>>

-----------------------------------------------------------------------------

\* Accounts a behaviour starts with: none, one with a confirmed address or
\* number, one that is anonymous.
Starts ==
    {NoAccount, InsertAnonymous}
        \cup {InsertEmailUser(a, TRUE) : a \in Mails} \cup {InsertPhoneUser(p, TRUE) : p \in Phones}

FirstUser == CHOOSE u \in Users : TRUE

Init ==
    /\ now = 0 /\ conf \in Configs
    /\ \E a \in Starts : acct = [u \in Users |-> IF u = FirstUser THEN a ELSE NoAccount]
    /\ row = [u \in Users |-> NoRows]
    /\ flow = [s \in Senders |-> [st |-> "none", u |-> None, method |-> "none", at |-> 0, issued |-> Never]]
    /\ req = [s \in Senders |-> IdleReq]
    /\ ver = [v \in Verifiers |-> IdleVer]
    /\ inbox = {} /\ spent = {} /\ refused = {} /\ outdated = {}

\* A request that arrives, up to the write.
Handle(s) ==
    \/ \E a \in Mails :
          \/ Signup(s, a) \/ SendMagicLinkTo(s, a) \/ Recover(s, a) \/ ResendSignup(s, a)
          \/ ResendEmailChange(s, a) \/ Invite(s, a) \/ AdminGenerateLink(s, a)
    \/ \E p \in Phones : SignupWithPhone(s, p) \/ SmsOTP(s, p) \/ ResendSMS(s, p)
    \/ \E u \in Users :
          \/ \E a \in Mails : UpdateEmail(s, u, a)
          \/ \E p \in Phones : UpdatePhone(s, u, p)
          \/ Reauthenticate(s, u)
    \/ SignupAnonymously(s)

Issue(s) ==
    \/ req[s].st = "idle" /\ Handle(s)
    \/ Write(s) \/ DiscardColumn(s) \/ DiscardRow(s) \/ DiscardStops(s)

Redemption(v) ==
    \/ \E t \in inbox : \E form \in Forms(t) : Verify(v, form, t)
    \/ FindUserTokens(v) \/ AcceptHalf(v) \/ ApplyChange(v)
    \/ ApplySignup(v) \/ ApplyRecovery(v) \/ ApplySms(v) \/ ApplyPhone(v) \/ ApplyNonce(v)
    \/ PkceGrant(v)

Next == (\E s \in Senders : Issue(s)) \/ (\E v \in Verifiers : Redemption(v)) \/ Tick

Spec == Init /\ [][Next]_vars

-----------------------------------------------------------------------------
(***************************************************************************)
(* Properties.                                                             *)
(***************************************************************************)

\* A token whose message the provider refused, which is discarded.
Refused(t) == t.by \in refused

\* The two stores of a token agree.  A link names the token the account's
\* column holds, so a link and the code beside it are used up together
\* (issueOneTimeToken, clearOneTimeToken and the columns of auth.users are
\* written by different statements).  A request that had read the account
\* without an address clears the column of the current one and leaves the row.
LinkMatchesCode ==
    \A u \in Users, k \in Kinds :
        row[u][k] # None => \/ acct[u].col[k] = row[u][k]
                            \/ Refused(row[u][k])
                            \/ k = "current" /\ u \in outdated

\* A redemption that starts after a token was redeemed is refused, by link
\* and by typed code, whatever the requests do in between; only a token whose
\* message was refused may be caught half discarded, and only the link that
\* an outdated request left may be followed again.
SpentStaysSpent ==
    [][\A v \in Verifiers :
          ver[v].st = "idle" /\ ver'[v].st = "read" =>
              LET t == ver'[v].tok
              IN  t \notin spent \/ Refused(t) \/ (t.kind = "current" /\ ver'[v].u \in outdated)]_vars

\* A token sent to each of the two addresses was redeemed.
BothConfirmed(u, old, new) ==
    /\ \E t \in spent' : t.kind = "new" /\ t.to = new
    /\ \E t \in spent' : t.kind = "current" /\ t.to = old

Changed(u) ==
    /\ conf.secure /\ ~conf.autoconfirm /\ acct[u].addr["mail"] # None
    /\ acct'[u].addr["mail"] # acct[u].addr["mail"]

\* With secure changes a change of address lands when a token sent to each
\* address was redeemed (verify.go, emailChangeVerify).
BothLinksFollowed ==
    [][\A u \in Users :
          Changed(u) => BothConfirmed(u, acct[u].addr["mail"], acct'[u].addr["mail"])]_vars

\* ... unless another request wrote to the account while one of the two
\* redemptions was under way, a half was caught half discarded, one was an
\* administrator's link, which leaves the other half of an earlier change in
\* force, or the change was written by a request that had read another
\* address, which is the one it sent the second link to.
BothLinksFollowedUnlessRaced ==
    [][\A u \in Users :
          Changed(u) => \/ BothConfirmed(u, acct[u].addr["mail"], acct'[u].addr["mail"])
                        \/ \E v \in Verifiers : ver[v].u = u /\ ver[v].raced
                        \/ u \in outdated
                        \/ \E t \in spent' : /\ Slot(t.kind) = "email_change"
                                             /\ t.via = "admin" \/ Refused(t)]_vars

\* A code is exchanged for one session.
CodeBuysOneSession ==
    \A v, w \in Verifiers :
        v # w /\ ver[v].st = "session" /\ ver[w].st = "session" /\ ver[v].code # None
            => ver[v].code # ver[w].code
=============================================================================
