------------------------ MODULE OneTimeTokensProofs ------------------------
(***************************************************************************)
(* Safety of the one-time tokens for any number of accounts, addresses and *)
(* requests, every configuration and every clock.                          *)
(*                                                                         *)
(* The argument rests on tokens being new: a token that is stored, held or *)
(* spent belongs to a request past its write (TokensAreIssued), and the    *)
(* tokens of a request are one account's (OneHome), so that a send cannot  *)
(* bring a spent token back (SpentIsGone) and a redemption clears its own  *)
(* token in both stores (LinkMatchesCode).  A change of address needs more *)
(* than that: what a redemption has read is still so unless another        *)
(* request wrote meanwhile (UnracedIsCurrent), the links of a change are   *)
(* aimed at the two addresses it is between, and after one half is         *)
(* confirmed the other still stands (ChangesAreConfirmed).                 *)
(***************************************************************************)
EXTENDS OneTimeTokens, TLAPS

-----------------------------------------------------------------------------
(***************************************************************************)
(* The inductive invariant.                                                *)
(***************************************************************************)
\* Types.
Methods == {"none", "email/signup", "magiclink", "recovery", "email_change"}
Links == {"link_signup", "link_invite", "link_recovery", "link_current", "link_new"}
Sends == {"none", "anonymous", "confirmation", "invite", "recovery", "magiclink", "reauth",
          "email_change", "sms", "phone_change", "sms_reauth", "confirm_phone", "confirm_sms",
          "set_email", "set_phone"} \cup Links

Somewhere == Addresses \cup {None}
Identities == [addr : Somewhere, verified : BOOLEAN]
Accounts == [there : BOOLEAN, addr : [Channels -> Somewhere], ok : [Channels -> BOOLEAN],
             id : [Channels -> Identities], change : [Channels -> Somewhere],
             status : {0, 1}, anonymous : BOOLEAN, invited : BOOLEAN, password : BOOLEAN,
             col : [Kinds -> Tokens \cup {None}], sent : [Slots -> Nat \cup {Never}]]
Flows == [st : {"none", "open", "used"}, u : Users \cup {None}, method : Methods, at : Nat,
          issued : Nat \cup {Never}]
Reqs == [st : {"idle", "ready", "refused", "cleared", "done"}, send : Sends, u : Users \cup {None},
         to : Somewhere, mail : Somewhere, method : Methods, toks : SUBSET Tokens]
Views == [mail : Somewhere, ok : BOOLEAN, change : [Channels -> Somewhere], anonymous : BOOLEAN,
          bare : BOOLEAN]
Vers == [st : {"idle", "read", "tokens", "half", "code", "session"},
         form : {"none", "get", "post", "typed", "nonce"}, tok : Tokens \cup {None},
         u : Users \cup {None}, seen : Views, status : {0, 1}, half : {"none", "current", "new"},
         raced : BOOLEAN, code : Senders \cup {None}]

TypeOK ==
    /\ now \in Nat /\ conf \in Configs
    /\ acct \in [Users -> Accounts]
    /\ row \in [Users -> [Kinds -> Tokens \cup {None}]]
    /\ flow \in [Senders -> Flows]
    /\ req \in [Senders -> Reqs]
    /\ ver \in [Verifiers -> Vers]
    /\ inbox \in SUBSET Tokens /\ spent \in SUBSET Tokens
    /\ refused \in SUBSET Senders /\ outdated \in SUBSET Users

\* A redemption that has read its account and has not written yet.
Under(v) == ver[v].st \in {"read", "tokens"}
OfChange(t) == t.kind \in {"current", "new"}
Issued(t) == req[t.by].st \in {"refused", "cleared", "done"}

\* A token is stored under its kind, and whoever issued it is past its write.
TokensAreIssued ==
    /\ \A u \in Users, k \in Kinds :
          /\ row[u][k] # None => row[u][k].kind = k /\ Issued(row[u][k])
          /\ acct[u].col[k] # None => acct[u].col[k].kind = k /\ Issued(acct[u].col[k])
    /\ \A t \in inbox \cup spent : Issued(t)
    /\ \A s \in Senders : /\ \A t \in req[s].toks : t.by = s /\ t.via # "admin"
                          /\ req[s].st \in {"refused", "cleared"} => s \in refused /\ req[s].toks # {}
                          /\ s \in refused => req[s].st \in {"refused", "cleared", "done"}
    /\ \A v \in Verifiers : Under(v) => /\ ver[v].tok \in inbox /\ ver[v].u \in Users
                                        /\ ver[v].form = "nonce" <=> ver[v].tok.kind = "reauthentication"
                                        /\ ver[v].st = "tokens" => OfChange(ver[v].tok)

\* A request that has decided knows an account, or makes one.
Known(x) ==
    /\ x.u # None => acct[x.u].there
    /\ x.u # None /\ x.mail # None => acct[x.u].addr["mail"] # None
    /\ x.send \in {"email_change", "set_email", "link_current", "link_new"} => x.u # None
    /\ x.send = "link_current" => conf.secure /\ x.mail # None
    /\ x.send = "set_email" => conf.autoconfirm
    /\ IF x.send = "anonymous" THEN x.to = None ELSE x.to \in Addresses

RequestsKnow == \A s \in Senders : req[s].st = "ready" => Known(req[s])

\* An account has tokens once it is there, and a link to confirm the address
\* it has only if it has one.
LinksBelong ==
    /\ \A u \in Users :
          /\ ~acct[u].there => /\ acct[u].addr["mail"] = None
                               /\ \A k \in Kinds : row[u][k] = None /\ acct[u].col[k] = None
          /\ row[u]["current"] # None => conf.secure /\ acct[u].addr["mail"] # None
    /\ \A v \in Verifiers : Under(v) => acct[ver[v].u].there

\* The account has a token of the request, in either store.
Keeps(u, s) == \E k \in Kinds : \/ row[u][k] # None /\ row[u][k].by = s
                                \/ acct[u].col[k] # None /\ acct[u].col[k].by = s

\* The tokens of a request are one account's.
OneHome ==
    /\ \A s \in Senders, u, w \in Users : Keeps(u, s) /\ Keeps(w, s) => u = w
    /\ \A v \in Verifiers, u \in Users : Under(v) /\ Keeps(u, ver[v].tok.by) => u = ver[v].u

\* The two ways a spent token may still be stored.
Caught(u, t) == Refused(t) \/ (t.kind = "current" /\ u \in outdated)

\* The half a redemption found is that of its token.
HalvesAreTokens ==
    \A v \in Verifiers : ver[v].st = "tokens" =>
        \/ ver[v].half = ver[v].tok.kind
        \/ ver[v].half = "none" /\ acct[ver[v].u].col[ver[v].tok.kind] # ver[v].tok

\* A token that is spent is stored no more.
SpentIsGone ==
    \A t \in spent, u \in Users : /\ acct[u].col[t.kind] # t
                                  /\ row[u][t.kind] = t => Caught(u, t)

\* A used flow is nobody's to make again.
FlowsAreUsedOnce ==
    /\ \A s \in Senders : flow[s].st # "none" => req[s].st \in {"refused", "cleared", "done"}
    /\ \A v \in Verifiers : ver[v].st = "session" /\ ver[v].code # None => flow[ver[v].code].st = "used"
    /\ \A v \in Verifiers : ver[v].st \in {"idle", "read", "tokens", "half"} => ver[v].code = None
    /\ \A v \in Verifiers : ver[v].st = "code" => ver[v].code # None

\* What a redemption has read is so, unless another request wrote meanwhile.
UnracedIsCurrent ==
    \A v \in Verifiers : Under(v) /\ ~ver[v].raced /\ OfChange(ver[v].tok) =>
        LET u == ver[v].u
            t == ver[v].tok
        IN  /\ ver[v].seen.mail = acct[u].addr["mail"]
            /\ ver[v].seen.change = acct[u].change
            /\ row[u][t.kind] = t \/ Refused(t)
            /\ ver[v].st = "tokens" => /\ ver[v].status = acct[u].status
                                       /\ ver[v].half = t.kind \/ Caught(u, t)

\* What BothLinksFollowedUnlessRaced excuses a change for.
Exempt(u) ==
    \/ \E v \in Verifiers : ver[v].st = "half" /\ ver[v].u = u /\ ver[v].raced
    \/ \E t \in spent : OfChange(t) /\ (t.via = "admin" \/ Refused(t))
    \/ u \in outdated

Other(k) == IF k = "new" THEN "current" ELSE "new"

\* The address a half of the change must have been sent to.
Aim(u, k) == IF k = "new" THEN acct[u].change["mail"] ELSE acct[u].addr["mail"]

\* A token the rule does not hold for.
Free(t) == t.via = "admin" \/ Refused(t)

\* The links of a change are aimed at its two addresses, until an
\* administrator's link aims one of them elsewhere.
LinksAreAimed(u) ==
    /\ LET n == row[u]["new"] IN
          n # None => Free(n) \/ n.to = Aim(u, "new")
                      \/ (row[u]["current"] # None /\ row[u]["current"].via = "admin")
    /\ LET c == row[u]["current"] IN c # None => Free(c) \/ c.to = Aim(u, "current")

\* With one half confirmed the other completes the change.
OneHalfIsDone(u) ==
    \E k \in {"current", "new"} :
        /\ row[u][k] = None
        /\ LET o == row[u][Other(k)]
           IN  o # None /\ ~Free(o) =>
                  /\ o.to = Aim(u, Other(k))
                  /\ \E t \in spent : t.kind = k /\ t.to = Aim(u, k)

\* Before the first half is confirmed both links are aimed right; after it one
\* half is done and the other still to be confirmed.
ChangeIsConfirmed(u) ==
    conf.secure /\ ~conf.autoconfirm /\ acct[u].addr["mail"] # None =>
        \/ Exempt(u)
        \/ acct[u].status = 0 /\ LinksAreAimed(u)
        \/ acct[u].status = 1 /\ OneHalfIsDone(u)

ChangesAreConfirmed == \A u \in Users : ChangeIsConfirmed(u)

\* The inductive invariant.
Inv == /\ TypeOK /\ TokensAreIssued /\ RequestsKnow /\ LinksBelong /\ OneHome /\ LinkMatchesCode
       /\ HalvesAreTokens /\ SpentIsGone /\ FlowsAreUsedOnce /\ CodeBuysOneSession
       /\ UnracedIsCurrent /\ ChangesAreConfirmed

-----------------------------------------------------------------------------
\* The configuration is a choice of booleans.
LEMMA ConfTyped == ASSUME TypeOK PROVE conf.secure \in BOOLEAN /\ conf.autoconfirm \in BOOLEAN
                                       /\ conf.smsAutoconfirm \in BOOLEAN
BY TokenAssumption DEF TypeOK

\* An inserted account is there, with no token and no change under way.
LEMMA InsertTyped ==
    ASSUME NEW to \in Addresses, NEW c \in BOOLEAN
    PROVE  /\ InsertWithAddress(to, c) \in Accounts /\ InsertWithAddress(to, c).there
           /\ InsertWithAddress(to, c).status = 0 /\ \A k \in Kinds : InsertWithAddress(to, c).col[k] = None
BY DEF InsertWithAddress, NoAccount, NoIdentity, Accounts, Identities, Somewhere, Channels, ChannelOf, Kinds, Slots, Never

LEMMA NoAccountTyped ==
    /\ NoAccount \in Accounts /\ ~NoAccount.there /\ NoAccount.status = 0 /\ \A k \in Kinds : NoAccount.col[k] = None
    /\ InsertAnonymous \in Accounts /\ InsertAnonymous.there /\ InsertAnonymous.status = 0
    /\ \A k \in Kinds : InsertAnonymous.col[k] = None
BY DEF InsertAnonymous, NoAccount, NoIdentity, Accounts, Identities, Somewhere, Channels, Kinds, Slots, Never

\* What an issuing request makes of an account, or of a new one.
Issues(s, a, b, toks) ==
    LET r == req[s]
    IN  /\ b \in Accounts /\ toks \in SUBSET Tokens /\ b.there = a.there
        /\ \A t \in toks : t.by = s /\ t.kind \in Kinds /\ (t.via = "admin" <=> r.send \in Links)
        /\ \A t, o \in toks : t.kind = o.kind => t = o
        /\ \A t \in toks : b.col[t.kind] = t
        /\ \A k \in Kinds : (\A t \in toks : t.kind # k) =>
              \/ b.col[k] = a.col[k]
              \/ b.col[k] = None /\ Wipes(r)
              \/ b.col[k] = None /\ k = "current" /\ r.send = "email_change" /\ ~(conf.secure /\ r.mail # None)
        /\ b.addr["mail"] = a.addr["mail"] \/ (r.send = "set_email" /\ b.addr["mail"] = r.to)
        /\ \/ /\ r.send \notin {"email_change", "link_current", "link_new"}
              /\ b.change["mail"] = a.change["mail"] /\ b.status = a.status /\ \A t \in toks : ~OfChange(t)
           \/ /\ r.send = "email_change" /\ b.change["mail"] = r.to /\ b.status = 0
              /\ \E t \in toks : t.kind = "new" /\ t.to = r.to
              /\ IF conf.secure /\ r.mail # None THEN \E t \in toks : t.kind = "current" /\ t.to = r.mail
                 ELSE \A t \in toks : t.kind = "new"
           \/ /\ r.send \in {"link_current", "link_new"} /\ b.change["mail"] = r.to /\ b.status = 0
              /\ \A t \in toks : t.kind = IF r.send = "link_new" THEN "new" ELSE "current"
              /\ toks # {}

\* A send touches the token, its column and when it was sent.
LEMMA SetTokenIs ==
    ASSUME TypeOK, NEW a \in Accounts, NEW t \in Tokens
    PROVE  /\ SetToken(a, t) \in Accounts
           /\ SetToken(a, t).there = a.there /\ SetToken(a, t).addr = a.addr
           /\ SetToken(a, t).change = a.change /\ SetToken(a, t).status = a.status
           /\ \A k \in Kinds : SetToken(a, t).col[k] = IF k = t.kind THEN t ELSE a.col[k]
<1>1. t.kind \in Kinds /\ Slot(t.kind) \in Slots /\ now \in Nat
  BY DEF Tokens, Kinds, Slot, Slots, TypeOK
<1> QED
  BY <1>1 DEF SetToken, Accounts

\* A token is what its request makes of it, now.
LEMMA TokenIs ==
    ASSUME TypeOK, NEW s \in Senders, NEW k \in Kinds, NEW to \in Somewhere, NEW via \in {"pkce", "plain", "admin"}
    PROVE  /\ Token(s, k, to, via) \in Tokens /\ Token(s, k, to, via).by = s /\ Token(s, k, to, via).kind = k
           /\ Token(s, k, to, via).to = to /\ Token(s, k, to, via).via = via
BY DEF Token, Tokens, Somewhere, TypeOK

\* The sends of one token, of another kind than a change of address.
LEMMA OneIssued ==
    ASSUME TypeOK, NEW s \in Senders, NEW a \in Accounts, NEW b \in Accounts, NEW k \in Kinds, NEW to \in Somewhere,
           NEW via \in {"pkce", "plain", "admin"}, via = "admin" <=> req[s].send \in Links,
           k \notin {"current", "new"}, req[s].send \notin {"email_change", "link_current", "link_new"},
           b.there = a.there, b.addr["mail"] = a.addr["mail"], b.change["mail"] = a.change["mail"], b.status = a.status,
           \A j \in Kinds : b.col[j] = a.col[j] \/ (b.col[j] = None /\ Wipes(req[s]))
    PROVE  LET w == SendOne(b, Token(s, k, to, via)) IN Issues(s, a, w.acct, w.toks)
<1> DEFINE t == Token(s, k, to, via)
           c == SetToken(b, t)
<1>1. t \in Tokens /\ t.by = s /\ t.kind = k /\ t.via = via
  BY TokenIs
<1>2. c \in Accounts /\ c.there = b.there /\ c.addr = b.addr /\ c.change = b.change /\ c.status = b.status
      /\ \A j \in Kinds : c.col[j] = IF j = k THEN t ELSE b.col[j]
  BY <1>1, SetTokenIs
<1>3. SendOne(b, t).acct = c /\ SendOne(b, t).toks = {t}
  BY DEF SendOne
<1>4. Issues(s, a, c, {t})
  <2> HIDE DEF t, c
  <2> QED
    BY <1>1, <1>2 DEF Issues, OfChange
<1> QED
  BY <1>3, <1>4

\* The sends of no token.
LEMMA NoneIssued ==
    ASSUME NEW s \in Senders, NEW a \in Accounts, NEW b \in Accounts,
           req[s].send \notin {"email_change", "link_current", "link_new"},
           b.there = a.there, b.change["mail"] = a.change["mail"], b.status = a.status,
           b.addr["mail"] = a.addr["mail"] \/ (req[s].send = "set_email" /\ b.addr["mail"] = req[s].to),
           \A j \in Kinds : b.col[j] = a.col[j] \/ (b.col[j] = None /\ Wipes(req[s]))
    PROVE  Issues(s, a, b, {})
BY DEF Issues, OfChange

\* Marking an identity verified touches nothing the argument reads.
LEMMA MarkIs ==
    ASSUME NEW a \in Accounts, NEW c \in Channels
    PROVE  LET b == MarkIdentityVerified(a, c)
           IN  /\ b \in Accounts /\ b.there = a.there /\ b.addr = a.addr /\ b.change = a.change
               /\ b.status = a.status /\ b.col = a.col
BY DEF MarkIdentityVerified, Accounts, Identities, Somewhere, Channels, Kinds

\* What a redeemed token, or a confirmation on the spot, makes of an account.
Confirms(a, b, kinds) ==
    /\ b \in Accounts /\ b.there = a.there /\ b.addr["mail"] = a.addr["mail"]
    /\ b.change["mail"] = a.change["mail"] /\ b.status = a.status
    /\ \A k \in Kinds : b.col[k] = a.col[k] \/ b.col[k] = None
    /\ \A k \in kinds : b.col[k] = None

\* The redemptions that confirm an address, and the ones that set it.
LEMMA ConfirmIs ==
    ASSUME NEW a \in Accounts, NEW seen, seen.anonymous \in BOOLEAN
    PROVE  Confirms(a, ConfirmPhone(a, seen), {"confirmation"})
<1> DEFINE b == [a EXCEPT !.col["confirmation"] = None, !.ok["phone"] = TRUE, !.anonymous = @ /\ ~seen.anonymous]
<1>1. b \in Accounts /\ b.there = a.there /\ b.addr = a.addr /\ b.change = a.change /\ b.status = a.status
      /\ \A k \in Kinds : b.col[k] = IF k = "confirmation" THEN None ELSE a.col[k]
  BY DEF Accounts, Channels, Kinds
<1> HIDE DEF b
<1> QED
  BY <1>1, MarkIs DEF b, ConfirmPhone, Confirms, Channels, Kinds

LEMMA PhoneChangeIs ==
    ASSUME NEW a \in Accounts, NEW seen, seen.anonymous \in BOOLEAN, NEW p \in Somewhere, seen.change["phone"] = p
    PROVE  Confirms(a, ApplyPhoneChange(a, seen), {"phone_change"})
<1> DEFINE b == [a EXCEPT !.addr["phone"] = p, !.change["phone"] = None, !.col["phone_change"] = None,
                          !.ok["phone"] = TRUE, !.anonymous = @ /\ ~seen.anonymous]
<1>1. b \in Accounts /\ b.there = a.there /\ b.addr["mail"] = a.addr["mail"]
      /\ b.change["mail"] = a.change["mail"] /\ b.status = a.status
      /\ \A k \in Kinds : b.col[k] = IF k = "phone_change" THEN None ELSE a.col[k]
  BY DEF Accounts, Channels, Kinds, Somewhere
<1>2. ApplyPhoneChange(a, seen) = MarkIdentityVerified(b, "phone")
  BY DEF ApplyPhoneChange
<1> HIDE DEF b
<1> QED
  BY <1>1, <1>2, MarkIs DEF Confirms, Channels, Kinds

LEMMA SetPhoneIs == ASSUME NEW a \in Accounts, NEW to \in Addresses PROVE Confirms(a, SetPhone(a, to), {"phone_change"})
<1> DEFINE b == [a EXCEPT !.change["phone"] = to]
           seen == [anonymous |-> a.anonymous, change |-> [c \in Channels |-> to]]
<1>1. b \in Accounts /\ b.there = a.there /\ b.addr = a.addr /\ b.col = a.col
      /\ b.change["mail"] = a.change["mail"] /\ b.status = a.status
  BY DEF Accounts, Channels, Somewhere
<1>2. seen.anonymous \in BOOLEAN /\ seen.change["phone"] = to /\ to \in Somewhere
  BY DEF Accounts, Channels, Somewhere
<1>3. SetPhone(a, to) = ApplyPhoneChange(b, seen)
  BY DEF SetPhone
<1> HIDE DEF b, seen
<1>4. Confirms(b, ApplyPhoneChange(b, seen), {"phone_change"})
  BY <1>1, <1>2, PhoneChangeIs
<1> QED
  BY <1>1, <1>3, <1>4 DEF Confirms

LEMMA SetEmailIs ==
    ASSUME NEW a \in Accounts, NEW to \in Addresses
    PROVE  LET b == SetEmail(a, to)
           IN  /\ b \in Accounts /\ b.there = a.there /\ b.change = a.change /\ b.status = a.status /\ b.col = a.col
               /\ b.addr["mail"] = to
<1> DEFINE b == [a EXCEPT !.addr["mail"] = to, !.ok["mail"] = TRUE]
<1>1. /\ b \in Accounts /\ b.there = a.there /\ b.change = a.change /\ b.status = a.status /\ b.col = a.col
      /\ b.addr["mail"] = to
  BY DEF Accounts, Channels, Somewhere
<1> HIDE DEF b
<1> QED
  BY <1>1, MarkIs DEF b, SetEmail, Channels

\* sendEmailChange writes both halves, or drops the old current one.
LEMMA ChangeIssued ==
    ASSUME TypeOK, NEW s \in Senders, NEW a \in Accounts, req[s].send = "email_change"
    PROVE  LET w == SendEmailChange(s, a, req[s].mail, req[s].to) IN Issues(s, a, w.acct, w.toks)
<1> DEFINE new == Token(s, "new", req[s].to, Flow(s))
           current == Token(s, "current", req[s].mail, Flow(s))
           secure == conf.secure /\ req[s].mail # None
           b == [a EXCEPT !.change["mail"] = req[s].to, !.status = 0, !.sent["email_change"] = now,
                          !.col["new"] = new, !.col["current"] = IF secure THEN current ELSE None]
           toks == IF secure THEN {new, current} ELSE {new}
<1>1. req[s].to \in Somewhere /\ req[s].mail \in Somewhere /\ now \in Nat /\ conf.secure \in BOOLEAN
  BY ConfTyped DEF TypeOK, Reqs
<1>2. Flow(s) \in {"pkce", "plain"}
  BY DEF Flow
<1>3. /\ new \in Tokens /\ new.by = s /\ new.kind = "new" /\ new.to = req[s].to /\ new.via # "admin"
      /\ current \in Tokens /\ current.by = s /\ current.kind = "current" /\ current.to = req[s].mail /\ current.via # "admin"
  BY <1>1, <1>2, TokenIs DEF Kinds
<1> HIDE DEF new, current
<1>4. /\ b \in Accounts /\ b.there = a.there /\ b.addr = a.addr /\ b.change["mail"] = req[s].to /\ b.status = 0
      /\ \A k \in Kinds : b.col[k] = IF k = "new" THEN new ELSE IF k = "current" /\ secure THEN current
                                     ELSE IF k = "current" THEN None ELSE a.col[k]
  BY <1>1, <1>3 DEF Accounts, Channels, Kinds, Slots, Somewhere
<1>5. SendEmailChange(s, a, req[s].mail, req[s].to).acct = b /\ SendEmailChange(s, a, req[s].mail, req[s].to).toks = toks
  BY DEF SendEmailChange, new, current
<1>6. req[s].send \notin Links
  BY DEF Links
<1> HIDE DEF b
<1>7. CASE secure
  <2>1. toks = {new, current}
    BY <1>7
  <2> HIDE DEF toks
  <2> QED
    BY <1>1, <1>3, <1>4, <1>5, <1>6, <1>7, <2>1 DEF Issues, Kinds
<1>8. CASE ~secure
  <2>1. toks = {new}
    BY <1>8
  <2> HIDE DEF toks
  <2> QED
    BY <1>1, <1>3, <1>4, <1>5, <1>6, <1>8, <2>1 DEF Issues, Kinds
<1> QED
  BY <1>7, <1>8

\* An administrator's link writes one token.
LEMMA LinkIssued ==
    ASSUME TypeOK, NEW s \in Senders, NEW a \in Accounts, req[s].send \in {"link_current", "link_new"}
    PROVE  LET w == GenerateActionToken(s, a, req[s].send, req[s].mail, req[s].to) IN Issues(s, a, w.acct, w.toks)
<1> DEFINE k == IF req[s].send = "link_new" THEN "new" ELSE "current"
           t == Token(s, k, IF req[s].send = "link_new" THEN req[s].to ELSE req[s].mail, "admin")
           b == [a EXCEPT !.change["mail"] = req[s].to, !.status = 0]
           w == GenerateActionToken(s, a, req[s].send, req[s].mail, req[s].to)
<1>1. req[s].to \in Somewhere /\ req[s].mail \in Somewhere
  BY DEF TypeOK, Reqs
<1>2. t \in Tokens /\ t.by = s /\ t.kind = k /\ t.via = "admin"
  BY <1>1, TokenIs DEF Kinds
<1>3. w.acct = SetToken(b, t) /\ w.toks = {t}
  BY DEF GenerateActionToken, SendOne
<1> HIDE DEF t, w
<1>4. /\ b \in Accounts /\ b.there = a.there /\ b.addr = a.addr /\ b.col = a.col
      /\ b.change["mail"] = req[s].to /\ b.status = 0
  BY <1>1 DEF Accounts, Channels, Somewhere
<1> HIDE DEF b
<1>5. /\ w.acct \in Accounts /\ w.acct.there = a.there /\ w.acct.addr = a.addr
      /\ w.acct.change["mail"] = req[s].to /\ w.acct.status = 0
      /\ \A j \in Kinds : w.acct.col[j] = IF j = k THEN t ELSE a.col[j]
  BY <1>2, <1>3, <1>4, SetTokenIs
<1>6. req[s].send \in Links /\ k \in {"current", "new"} /\ (k = "new" <=> req[s].send = "link_new")
  BY DEF Links
<1> HIDE DEF k
<1>7. Issues(s, a, w.acct, w.toks)
  BY <1>2, <1>3, <1>5, <1>6 DEF Issues, Kinds, Links
<1> QED
  BY <1>7 DEF w

\* Every send is an issue in the sense above.
LEMMA WrittenIs ==
    ASSUME TypeOK, NEW s \in Senders, NEW a \in Accounts, Known(req[s])
    PROVE  LET w == Written(s, a) IN Issues(s, a, w.acct, w.toks)
<1> DEFINE r == req[s]
           w == Written(s, a)
<1>1. /\ r.to \in Somewhere /\ r.mail \in Somewhere /\ r.send \in Sends
      /\ r.send # "anonymous" => r.to \in Addresses
  BY DEF TypeOK, Reqs, Known
<1>2. Flow(s) \in {"pkce", "plain"}
  BY DEF Flow
<1>3. CASE r.send \in {"none", "anonymous"}
  <2>1. w.acct = a /\ w.toks = {}
    BY <1>3 DEF Written
  <2> QED
    BY <1>3, <2>1, NoneIssued
<1>4. CASE r.send \in {"confirm_phone", "set_phone"}
  <2>1. PICK b : /\ Confirms(a, b, {}) /\ w.acct = b /\ w.toks = {}
    <3>1. CASE r.send = "confirm_phone"
      <4> DEFINE q == [anonymous |-> a.anonymous]
      <4>1. w.acct = ConfirmPhone(a, q) /\ w.toks = {}
        BY <3>1 DEF Written
      <4>2. q.anonymous \in BOOLEAN
        BY DEF Accounts
      <4> HIDE DEF q
      <4> QED
        BY <4>1, <4>2, ConfirmIs DEF Confirms
    <3>2. CASE r.send = "set_phone"
      <4>1. w.acct = SetPhone(a, r.to) /\ w.toks = {}
        BY <3>2 DEF Written
      <4> QED
        BY <1>1, <3>2, <4>1, SetPhoneIs DEF Confirms
    <3> QED
      BY <1>4, <3>1, <3>2
  <2>2. Wipes(r)
    BY <1>4 DEF Wipes
  <2> QED
    BY <1>4, <2>1, <2>2, NoneIssued DEF Confirms
<1>5. CASE r.send = "set_email"
  <2>1. w.acct = SetEmail(a, r.to) /\ w.toks = {}
    BY <1>5 DEF Written
  <2> QED
    BY <1>1, <1>5, <2>1, SetEmailIs, NoneIssued
<1>6. CASE r.send = "confirm_sms"
  <2> DEFINE q == [anonymous |-> a.anonymous]
             b == ConfirmPhone(a, q)
  <2>1. w = SendOne(b, Token(s, "confirmation", r.to, "plain"))
    BY <1>6 DEF Written, SendPhoneConfirmation
  <2>2. q.anonymous \in BOOLEAN
    BY DEF Accounts
  <2> HIDE DEF q
  <2>3. Confirms(a, b, {"confirmation"})
    BY <2>2, ConfirmIs
  <2>4. Wipes(r) /\ r.send \notin Links
    BY <1>6 DEF Wipes, Links
  <2> HIDE DEF b
  <2> QED
    BY <1>1, <1>6, <2>1, <2>3, <2>4, OneIssued DEF Confirms, Kinds
<1>7. CASE r.send \in {"confirmation", "recovery", "magiclink", "reauth", "sms", "sms_reauth", "link_signup", "link_recovery"}
  <2>1. PICK k \in Kinds \ {"current", "new"}, to \in Somewhere, via \in {"pkce", "plain", "admin"} :
           /\ w = SendOne(a, Token(s, k, to, via)) /\ (via = "admin" <=> r.send \in Links)
    BY <1>1, <1>2, <1>7 DEF Written, SendConfirmation, SendPasswordRecovery, SendMagicLink, SendReauthentication,
                            SendPhoneConfirmation, GenerateActionToken, Kinds, Links
  <2> QED
    BY <1>7, <2>1, OneIssued
<1>8. CASE r.send \in {"invite", "link_invite"}
  <2> DEFINE b == [a EXCEPT !.invited = TRUE]
  <2>1. PICK to \in Somewhere, via \in {"plain", "admin"} :
           /\ w = SendOne(b, Token(s, "confirmation", to, via)) /\ (via = "admin" <=> r.send \in Links)
    BY <1>1, <1>8 DEF Written, SendInvite, GenerateActionToken, Links
  <2>2. b \in Accounts /\ b.there = a.there /\ b.addr = a.addr /\ b.change = a.change /\ b.status = a.status /\ b.col = a.col
    BY DEF Accounts
  <2> HIDE DEF b
  <2> QED
    BY <1>8, <2>1, <2>2, OneIssued DEF Kinds
<1>9. CASE r.send = "phone_change"
  <2> DEFINE b == [a EXCEPT !.change["phone"] = r.to]
  <2>1. w = SendOne(b, Token(s, "phone_change", r.to, "plain")) /\ r.send \notin Links
    BY <1>9 DEF Written, SendPhoneConfirmation, Links
  <2>2. /\ b \in Accounts /\ b.there = a.there /\ b.addr = a.addr /\ b.change["mail"] = a.change["mail"]
        /\ b.status = a.status /\ b.col = a.col
    BY <1>1 DEF Accounts, Channels, Somewhere
  <2> HIDE DEF b
  <2> QED
    BY <1>1, <1>9, <2>1, <2>2, OneIssued DEF Kinds
<1>10. CASE r.send = "email_change"
  <2>1. w = SendEmailChange(s, a, r.mail, r.to)
    BY <1>10 DEF Written
  <2> QED
    BY <1>10, <2>1, ChangeIssued
<1>11. CASE r.send \in {"link_current", "link_new"}
  <2>1. w = GenerateActionToken(s, a, r.send, r.mail, r.to)
    BY <1>11 DEF Written
  <2> QED
    BY <1>11, <2>1, LinkIssued
<1> QED
  BY <1>1, <1>3, <1>4, <1>5, <1>6, <1>7, <1>8, <1>9, <1>10, <1>11 DEF Sends, Links

-----------------------------------------------------------------------------
\* What a handler decides is known of the account it has read.
Decides(s) ==
    \E x \in Reqs : /\ x.st = "ready" /\ x.toks = {} /\ Known(x)
                    /\ req[s].st = "idle" /\ req' = [req EXCEPT ![s] = x]
                    /\ UNCHANGED <<now, conf, acct, row, flow, ver, inbox, spent, refused, outdated>>

\* A handler only moves its request on, to something it knows.
LEMMA DecideIs ==
    ASSUME TypeOK, NEW s \in Senders, NEW send \in Sends, NEW u \in Users \cup {None}, NEW to \in Somewhere,
           NEW mail \in Somewhere, NEW method \in Methods, Decide(s, send, u, to, mail, method),
           u # None => acct[u].there,
           u # None /\ mail # None => acct[u].addr["mail"] # None,
           send \in {"email_change", "set_email", "link_current", "link_new"} => u # None,
           send = "link_current" => conf.secure /\ mail # None,
           send = "set_email" => conf.autoconfirm,
           IF send = "anonymous" THEN to = None ELSE to \in Addresses
    PROVE  Decides(s)
<1> DEFINE x == [IdleReq EXCEPT !.st = "ready", !.send = send, !.u = u, !.to = to, !.mail = mail, !.method = method]
<1>1. x \in Reqs /\ x.st = "ready" /\ x.toks = {} /\ x.send = send /\ x.u = u /\ x.to = to /\ x.mail = mail
  BY DEF IdleReq, Reqs, Sends, Methods
<1>2. /\ req[s].st = "idle" /\ req' = [req EXCEPT ![s] = x]
      /\ UNCHANGED <<now, conf, acct, row, flow, ver, inbox, spent, refused, outdated>>
  BY DEF Decide
<1> HIDE DEF x
<1>3. Known(x)
  BY <1>1 DEF Known
<1> QED
  BY <1>1, <1>2, <1>3 DEF Decides

LEMMA FoundIs ==
    ASSUME TypeOK, NEW a \in Addresses, NEW u \in FindUserBy(a)
    PROVE  /\ u \in Users /\ u # None /\ acct[u].there /\ a # None
           /\ a \in Mails => acct[u].addr["mail"] = a
BY TokenAssumption DEF FindUserBy, Addresses, ChannelOf

\* Every handler ends in a decision.
LEMMA HandlerDecides == ASSUME TypeOK, NEW s \in Senders, Handle(s) PROVE Decides(s)
<1>0. /\ None \notin Users /\ None \notin Addresses /\ Mails \subseteq Addresses /\ Phones \subseteq Addresses
      /\ Addresses \subseteq Somewhere /\ None \in Somewhere
  BY TokenAssumption DEF Addresses, Somewhere
<1> USE DEF Sends, Links, Methods
<1>1. ASSUME NEW a \in Mails, Signup(s, a) PROVE Decides(s)
  BY <1>0, <1>1, FoundIs, DecideIs DEF Signup
<1>2. ASSUME NEW a \in Mails, SendMagicLinkTo(s, a) PROVE Decides(s)
  BY <1>0, <1>2, FoundIs, DecideIs DEF SendMagicLinkTo
<1>3. ASSUME NEW a \in Mails, Recover(s, a) PROVE Decides(s)
  BY <1>0, <1>3, FoundIs, DecideIs DEF Recover
<1>4. ASSUME NEW a \in Mails, ResendSignup(s, a) PROVE Decides(s)
  BY <1>0, <1>4, FoundIs, DecideIs DEF ResendSignup
<1>5. ASSUME NEW a \in Mails, ResendEmailChange(s, a) PROVE Decides(s)
  <2>1. PICK u \in FindUserBy(a) :
           acct[u].change["mail"] # None /\ Decide(s, "email_change", u, acct[u].change["mail"], a, "email_change")
    BY <1>5 DEF ResendEmailChange
  <2>2. u \in Users /\ acct[u].there /\ acct[u].addr["mail"] = a
    BY <1>0, FoundIs
  <2>3. acct[u].change["mail"] \in Addresses
    BY <2>1, <2>2 DEF TypeOK, Accounts, Somewhere, Channels
  <2> QED
    BY <1>0, <2>1, <2>2, <2>3, DecideIs
<1>6. ASSUME NEW a \in Mails, Invite(s, a) PROVE Decides(s)
  BY <1>0, <1>6, FoundIs, DecideIs DEF Invite
<1>7. ASSUME NEW a \in Mails, AdminGenerateLink(s, a) PROVE Decides(s)
  <2>1. CASE \E k \in {"link_signup", "link_invite"} : Decide(s, k, None, a, a, "none")
    BY <1>0, <2>1, DecideIs
  <2>2. ASSUME NEW u \in FindUserBy(a), NEW k \in {"link_signup", "link_invite", "link_recovery"},
               Decide(s, k, u, a, a, "none")
        PROVE  Decides(s)
    BY <1>0, <2>2, FoundIs, DecideIs
  <2>3. ASSUME NEW u \in FindUserBy(a), NEW k \in {"link_current", "link_new"}, NEW b \in Mails,
               k = "link_current" => conf.secure, Decide(s, k, u, b, a, "none")
        PROVE  Decides(s)
    BY <1>0, <2>3, FoundIs, DecideIs
  <2> QED
    BY <1>7, <2>1, <2>2, <2>3 DEF AdminGenerateLink
<1>8. ASSUME NEW p \in Phones, SignupWithPhone(s, p) PROVE Decides(s)
  BY <1>0, <1>8, FoundIs, DecideIs DEF SignupWithPhone
<1>9. ASSUME NEW p \in Phones, SmsOTP(s, p) PROVE Decides(s)
  BY <1>0, <1>9, FoundIs, DecideIs DEF SmsOTP
<1>10. ASSUME NEW p \in Phones, ResendSMS(s, p) PROVE Decides(s)
  <2>1. PICK u \in FindUserBy(p) :
           \/ Decide(s, "sms", u, p, None, "none")
           \/ acct[u].change["phone"] # None /\ Decide(s, "phone_change", u, acct[u].change["phone"], None, "none")
    BY <1>10 DEF ResendSMS
  <2>2. u \in Users /\ acct[u].there
    BY <1>0, FoundIs
  <2>3. acct[u].change["phone"] # None => acct[u].change["phone"] \in Addresses
    BY <2>2 DEF TypeOK, Accounts, Somewhere, Channels
  <2> QED
    BY <1>0, <2>1, <2>2, <2>3, DecideIs
<1>11. ASSUME NEW u \in Users, NEW a \in Mails, UpdateEmail(s, u, a) PROVE Decides(s)
  <2>1. acct[u].addr["mail"] \in Somewhere
    BY DEF TypeOK, Accounts, Channels
  <2>2. /\ acct[u].there
        /\ \/ conf.autoconfirm /\ Decide(s, "set_email", u, a, acct[u].addr["mail"], "email_change")
           \/ Decide(s, "email_change", u, a, acct[u].addr["mail"], "email_change")
    BY <1>11 DEF UpdateEmail
  <2> QED
    BY <1>0, <2>1, <2>2, DecideIs
<1>12. ASSUME NEW u \in Users, NEW p \in Phones, UpdatePhone(s, u, p) PROVE Decides(s)
  BY <1>0, <1>12, DecideIs DEF UpdatePhone
<1>13. ASSUME NEW u \in Users, Reauthenticate(s, u) PROVE Decides(s)
  <2>1. acct[u].addr["mail"] \in Somewhere /\ acct[u].addr["phone"] \in Somewhere
    BY DEF TypeOK, Accounts, Channels
  <2>2. /\ acct[u].there
        /\ \/ acct[u].addr["phone"] # None /\ Decide(s, "sms_reauth", u, acct[u].addr["phone"], None, "none")
           \/ /\ acct[u].addr["mail"] # None
              /\ Decide(s, "reauth", u, acct[u].addr["mail"], acct[u].addr["mail"], "none")
    BY <1>13 DEF Reauthenticate
  <2>3. \A a \in Somewhere : a # None => a \in Addresses
    BY DEF Somewhere
  <2> QED
    BY <1>0, <2>1, <2>2, <2>3, DecideIs
<1>14. CASE SignupAnonymously(s)
  BY <1>0, <1>14, DecideIs DEF SignupAnonymously
<1> QED
  BY <1>1, <1>2, <1>3, <1>4, <1>5, <1>6, <1>7, <1>8, <1>9, <1>10, <1>11, <1>12, <1>13, <1>14 DEF Handle

-----------------------------------------------------------------------------
\* The row of the tokens a request has issued to account u.
Upserts(s, u, toks) ==
    \A k \in Kinds : \/ \E t \in toks : t.kind = k /\ row'[u][k] = t
                     \/ /\ \A t \in toks : t.kind # k
                        /\ row'[u][k] = IF Wipes(req[s]) THEN None ELSE row[u][k]

\* The account a request writes to: the one it has read, or a new one.
Target(s, u, a) ==
    \/ req[s].u = u /\ a = acct[u] /\ a.there
    \/ /\ req[s].u = None /\ ~acct[u].there /\ a.there /\ a.status = 0
       /\ \A k \in Kinds : a.col[k] = None /\ row[u][k] = None

Wrote(s, u, a, b, toks) ==
    /\ req[s].st = "ready" /\ Known(req[s]) /\ Target(s, u, a) /\ Issues(s, a, b, toks)
    /\ acct' = [acct EXCEPT ![u] = b]
    /\ row' \in [Users -> [Kinds -> Tokens \cup {None}]]
    /\ \A w \in Users \ {u} : row'[w] = row[w]
    /\ Upserts(s, u, toks)
    /\ flow' = CreateFlowState(s, u) /\ ver' = Raced(u, None)
    /\ inbox \subseteq inbox' /\ inbox' \subseteq inbox \cup toks
    /\ \/ req' = [req EXCEPT ![s] = DoneReq] /\ refused' = refused
       \/ /\ req' = [req EXCEPT ![s].st = "refused", ![s].toks = toks] /\ toks # {}
          /\ refused' = refused \cup {s} /\ req[s].send \notin Links
    /\ outdated' = outdated \cup Outdated(s, u)
    /\ UNCHANGED <<now, conf, spent>>

WroteNothing(s) ==
    /\ req[s].st = "ready" /\ req' = [req EXCEPT ![s] = DoneReq]
    /\ UNCHANGED <<now, conf, acct, row, flow, ver, inbox, spent, refused, outdated>>

\* The rows follow the columns for the tokens of the send.
LEMMA UpsertIs ==
    ASSUME NEW rs \in [Kinds -> Tokens \cup {None}], NEW toks \in SUBSET Tokens,
           \A t, o \in toks : t.kind = o.kind => t = o
    PROVE  /\ IssueOneTimeTokens(rs, toks) \in [Kinds -> Tokens \cup {None}]
           /\ \A k \in Kinds : \/ \E t \in toks : t.kind = k /\ IssueOneTimeTokens(rs, toks)[k] = t
                               \/ (\A t \in toks : t.kind # k) /\ IssueOneTimeTokens(rs, toks)[k] = rs[k]
<1>1. ASSUME NEW k \in Kinds, NEW t \in toks, t.kind = k PROVE (CHOOSE x \in toks : x.kind = k) = t
  BY <1>1
<1>2. ASSUME NEW k \in Kinds
      PROVE  \/ \E t \in toks : t.kind = k /\ IssueOneTimeTokens(rs, toks)[k] = t
             \/ (\A t \in toks : t.kind # k) /\ IssueOneTimeTokens(rs, toks)[k] = rs[k]
  <2>1. CASE \E t \in toks : t.kind = k
    <3>1. PICK t \in toks : t.kind = k
      BY <2>1
    <3>2. IssueOneTimeTokens(rs, toks)[k] = t
      BY <1>1, <3>1 DEF IssueOneTimeTokens
    <3> QED
      BY <3>1, <3>2
  <2>2. CASE ~\E t \in toks : t.kind = k
    BY <2>2 DEF IssueOneTimeTokens
  <2> QED
    BY <2>1, <2>2
<1>3. IssueOneTimeTokens(rs, toks) = [k \in Kinds |-> IssueOneTimeTokens(rs, toks)[k]]
  BY DEF IssueOneTimeTokens
<1>4. \A k \in Kinds : IssueOneTimeTokens(rs, toks)[k] \in Tokens \cup {None}
  BY <1>2
<1> QED
  BY <1>2, <1>3, <1>4

\* The messages of a send are in the inboxes, or refused.
LEMMA DeliveredIs ==
    ASSUME TypeOK, NEW s \in Senders, NEW toks, Delivered(s, toks)
    PROVE  /\ inbox \subseteq inbox' /\ inbox' \subseteq inbox \cup toks
           /\ \/ req' = [req EXCEPT ![s] = DoneReq] /\ refused' = refused
              \/ /\ req' = [req EXCEPT ![s].st = "refused", ![s].toks = toks] /\ toks # {}
                 /\ refused' = refused \cup {s} /\ req[s].send \notin Links
BY DEF Delivered, Links

\* A new account starts without tokens.
LEMMA NewAccountIs ==
    ASSUME TypeOK, NEW s \in Senders, Known(req[s])
    PROVE  /\ NewAccount(req[s]) \in Accounts /\ NewAccount(req[s]).there /\ NewAccount(req[s]).status = 0
           /\ \A k \in Kinds : NewAccount(req[s]).col[k] = None
<1>1. CASE req[s].send = "anonymous"
  BY <1>1, NoAccountTyped, TokenAssumption DEF NewAccount, Known, Addresses
<1>2. CASE req[s].send # "anonymous"
  <2>1. PICK c \in BOOLEAN : NewAccount(req[s]) = InsertWithAddress(req[s].to, c)
    BY <1>2, ConfTyped DEF NewAccount, InsertPhoneUser, InsertEmailUser
  <2> QED
    BY <1>2, <2>1, InsertTyped DEF Known
<1> QED
  BY <1>1, <1>2

LEMMA FreshIs == ASSUME NEW u \in FreshUser PROVE u \in Users /\ ~acct[u].there
BY DEF FreshUser

\* The write of an issuing request, or its end without one.
LEMMA WriteIs ==
    ASSUME TypeOK, RequestsKnow, LinksBelong, NEW s \in Senders, Write(s)
    PROVE  \/ WroteNothing(s)
           \/ \E u \in Users : \E a, b \in Accounts : \E toks \in SUBSET Tokens : Wrote(s, u, a, b, toks)
<1>1. req[s].st = "ready" /\ Known(req[s]) /\ UNCHANGED <<now, conf, spent>> /\ req[s].u \in Users \cup {None}
  BY DEF Write, RequestsKnow, TypeOK, Reqs
<1>2. PICK u \in IF req[s].u = None THEN FreshUser ELSE {req[s].u} :
         LET w == Written(s, IF req[s].u = None THEN NewAccount(req[s]) ELSE acct[u])
         IN  IF Conflict(s, u)
             THEN /\ req' = [req EXCEPT ![s] = DoneReq]
                  /\ UNCHANGED <<acct, row, flow, ver, inbox, refused, outdated>>
             ELSE /\ acct' = [acct EXCEPT ![u] = w.acct]
                  /\ row' = [row EXCEPT ![u] = IssueOneTimeTokens(IF Wipes(req[s]) THEN NoRows ELSE @, w.toks)]
                  /\ flow' = CreateFlowState(s, u)
                  /\ ver' = Raced(u, None)
                  /\ Delivered(s, w.toks)
                  /\ outdated' = outdated \cup Outdated(s, u)
  BY DEF Write
<1>3. CASE Conflict(s, u)
  BY <1>1, <1>2, <1>3 DEF WroteNothing
<1>4. CASE ~Conflict(s, u)
  <2> DEFINE a == IF req[s].u = None THEN NewAccount(req[s]) ELSE acct[u]
             w == Written(s, a)
             rs == IF Wipes(req[s]) THEN NoRows ELSE row[u]
  <2>1. u \in Users
    BY <1>1, <1>2, FreshIs
  <2>2. a \in Accounts /\ Target(s, u, a)
    <3>1. CASE req[s].u = None
      <4>1. ~acct[u].there
        BY <1>2, <3>1, FreshIs
      <4>2. \A k \in Kinds : row[u][k] = None
        BY <2>1, <4>1 DEF LinksBelong, NoRows
      <4>3. a = NewAccount(req[s])
        BY <3>1
      <4> QED
        BY <1>1, <3>1, <4>1, <4>2, <4>3, NewAccountIs DEF Target
    <3>2. CASE req[s].u # None
      BY <1>1, <1>2, <2>1, <3>2 DEF Target, Known, TypeOK
    <3> QED
      BY <3>1, <3>2
  <2>3. /\ acct' = [acct EXCEPT ![u] = w.acct]
        /\ row' = [row EXCEPT ![u] = IssueOneTimeTokens(rs, w.toks)]
        /\ flow' = CreateFlowState(s, u) /\ ver' = Raced(u, None)
        /\ Delivered(s, w.toks) /\ outdated' = outdated \cup Outdated(s, u)
    BY <1>2, <1>4, <2>1 DEF TypeOK
  <2> HIDE DEF a
  <2>4. Issues(s, a, w.acct, w.toks)
    BY <1>1, <2>2, WrittenIs
  <2> HIDE DEF w
  <2>5. w.acct \in Accounts /\ w.toks \in SUBSET Tokens /\ \A t, o \in w.toks : t.kind = o.kind => t = o
    BY <2>4 DEF Issues
  <2>6. rs \in [Kinds -> Tokens \cup {None}] /\ \A k \in Kinds : rs[k] = IF Wipes(req[s]) THEN None ELSE row[u][k]
    BY <2>1 DEF TypeOK, NoRows
  <2> HIDE DEF rs
  <2>7. /\ row' \in [Users -> [Kinds -> Tokens \cup {None}]]
        /\ \A x \in Users \ {u} : row'[x] = row[x]
        /\ row'[u] = IssueOneTimeTokens(rs, w.toks)
    BY <2>1, <2>3, <2>5, <2>6, UpsertIs DEF TypeOK
  <2>8. Upserts(s, u, w.toks)
    BY <2>5, <2>6, <2>7, UpsertIs DEF Upserts
  <2>9. Wrote(s, u, a, w.acct, w.toks)
    BY <1>1, <2>2, <2>3, <2>4, <2>7, <2>8, DeliveredIs DEF Wrote
  <2> QED
    BY <2>1, <2>2, <2>5, <2>9
<1> QED
  BY <1>3, <1>4

\* A write leaves its mark on the redemptions under way, and nothing else.
LEMMA RacedIs ==
    ASSUME TypeOK, NEW u \in Users, NEW v \in Verifiers \cup {None}
    PROVE  /\ Raced(u, v) \in [Verifiers -> Vers]
           /\ \A w \in Verifiers :
                 /\ Raced(u, v)[w].st = ver[w].st /\ Raced(u, v)[w].form = ver[w].form
                 /\ Raced(u, v)[w].tok = ver[w].tok /\ Raced(u, v)[w].u = ver[w].u
                 /\ Raced(u, v)[w].seen = ver[w].seen /\ Raced(u, v)[w].status = ver[w].status
                 /\ Raced(u, v)[w].half = ver[w].half /\ Raced(u, v)[w].code = ver[w].code
                 /\ ver[w].raced => Raced(u, v)[w].raced
                 /\ w # v /\ Under(w) /\ ver[w].u = u => Raced(u, v)[w].raced
                 /\ ~(Under(w) /\ ver[w].u = u) => Raced(u, v)[w] = ver[w]
<1>1. ASSUME NEW w \in Verifiers
      PROVE  LET x == [ver[w] EXCEPT !.raced = TRUE]
             IN  /\ x \in Vers /\ x.st = ver[w].st /\ x.form = ver[w].form /\ x.tok = ver[w].tok /\ x.u = ver[w].u
                 /\ x.seen = ver[w].seen /\ x.status = ver[w].status /\ x.half = ver[w].half
                 /\ x.code = ver[w].code /\ x.raced /\ ver[w] \in Vers
  BY DEF TypeOK, Vers
<1>2. ASSUME NEW w \in Verifiers
      PROVE  Raced(u, v)[w] = IF w # v /\ ver[w].u = u /\ Under(w) THEN [ver[w] EXCEPT !.raced = TRUE] ELSE ver[w]
  BY DEF Raced, Under
<1>3. \A w \in Verifiers : Raced(u, v)[w] \in Vers
  BY <1>1, <1>2
<1>4. Raced(u, v) \in [Verifiers -> Vers]
  BY <1>3 DEF Raced
<1> QED
  BY <1>1, <1>2, <1>4

-----------------------------------------------------------------------------
\* What each kind of redemption makes of the account.
LEMMA SignupIs ==
    ASSUME NEW a \in Accounts, NEW seen, seen.bare \in BOOLEAN
    PROVE  Confirms(a, SignupVerify(a, seen), {"confirmation"})
<1> DEFINE b == [a EXCEPT !.col["confirmation"] = None, !.ok["mail"] = TRUE, !.password = @ \/ seen.bare]
<1>1. b \in Accounts /\ b.there = a.there /\ b.addr = a.addr /\ b.change = a.change /\ b.status = a.status
      /\ \A k \in Kinds : b.col[k] = IF k = "confirmation" THEN None ELSE a.col[k]
  BY DEF Accounts, Channels, Kinds
<1> HIDE DEF b
<1> QED
  BY <1>1, MarkIs DEF b, SignupVerify, Confirms, Channels, Kinds

LEMMA RecoverIs ==
    ASSUME NEW a \in Accounts, NEW seen
    PROVE  Confirms(a, RecoverVerify(a, seen), {"recovery"})
<1> DEFINE b == [a EXCEPT !.col["recovery"] = None]
           c == [b EXCEPT !.ok["mail"] = TRUE, !.col["confirmation"] = None]
<1>1. b \in Accounts /\ b.there = a.there /\ b.addr = a.addr /\ b.change = a.change /\ b.status = a.status
      /\ \A k \in Kinds : b.col[k] = IF k = "recovery" THEN None ELSE a.col[k]
  BY DEF Accounts, Channels, Kinds
<1>2. RecoverVerify(a, seen) = IF seen.ok THEN b ELSE MarkIdentityVerified(c, "mail")
  BY DEF RecoverVerify
<1> HIDE DEF b
<1>3. c \in Accounts /\ c.there = a.there /\ c.addr = a.addr /\ c.change = a.change /\ c.status = a.status
      /\ \A k \in Kinds : c.col[k] = IF k \in {"recovery", "confirmation"} THEN None ELSE a.col[k]
  BY <1>1 DEF Accounts, Channels, Kinds
<1> HIDE DEF c
<1> QED
  BY <1>1, <1>2, <1>3, MarkIs DEF Confirms, Channels, Kinds

LEMMA NonceIs == ASSUME NEW a \in Accounts PROVE Confirms(a, VerifyReauthentication(a), {"reauthentication"})
BY DEF VerifyReauthentication, Confirms, Accounts, Kinds

\* The second half sets the address, the first one the status.
LEMMA EmailChangeIs ==
    ASSUME NEW a \in Accounts, NEW seen, seen.anonymous \in BOOLEAN, NEW m \in Somewhere, seen.change["mail"] = m
    PROVE  LET b == ApplyEmailChange(a, seen)
           IN  /\ b \in Accounts /\ b.there = a.there /\ b.addr["mail"] = m /\ b.status = 0
               /\ \A k \in Kinds : b.col[k] = a.col[k] \/ b.col[k] = None
               /\ b.col["current"] = None /\ b.col["new"] = None
<1> DEFINE b == [a EXCEPT !.addr["mail"] = m, !.change["mail"] = None, !.status = 0,
                          !.col["current"] = None, !.col["new"] = None, !.col["confirmation"] = None,
                          !.ok["mail"] = TRUE, !.anonymous = @ /\ ~seen.anonymous]
           col == [a.col EXCEPT !["current"] = None, !["new"] = None, !["confirmation"] = None]
<1>0. /\ col \in [Kinds -> Tokens \cup {None}]
      /\ \A k \in Kinds : col[k] = IF k \in {"current", "new", "confirmation"} THEN None ELSE a.col[k]
  BY DEF Accounts, Kinds
<1>1. b \in Accounts /\ b.there = a.there /\ b.addr["mail"] = m /\ b.status = 0
      /\ \A k \in Kinds : b.col[k] = IF k \in {"current", "new", "confirmation"} THEN None ELSE a.col[k]
  <2>1. b = [a EXCEPT !.addr = [a.addr EXCEPT !["mail"] = m], !.change = [a.change EXCEPT !["mail"] = None], !.status = 0,
                      !.col = col, !.ok = [a.ok EXCEPT !["mail"] = TRUE], !.anonymous = a.anonymous /\ ~seen.anonymous]
    BY DEF Accounts
  <2> HIDE DEF b, col
  <2> QED
    BY <1>0, <2>1 DEF Accounts, Channels, Somewhere
<1>2. ApplyEmailChange(a, seen) = MarkIdentityVerified(b, "mail")
  BY DEF ApplyEmailChange
<1> HIDE DEF b
<1> QED
  BY <1>1, <1>2, MarkIs DEF Channels, Kinds

\* A redemption that is through: a code of a flow, or a session.
Answered(v) ==
    /\ \E x \in Vers : /\ (x.st = "session" /\ x.code = None) \/ (x.st = "code" /\ x.code # None)
                       /\ ver' = [Raced(ver[v].u, v) EXCEPT ![v] = x]
    /\ flow' \in [Senders -> Flows]
    /\ \A s \in Senders : flow'[s].st = flow[s].st

\* The write of the half that completes a change.
Lands(v, b) ==
    /\ ver[v].st = "tokens" /\ ~TwoHalves(v) /\ b.status = 0
    /\ ver[v].seen.change["mail"] # None /\ b.addr["mail"] = ver[v].seen.change["mail"]

Redeemed(v, b) ==
    /\ Under(v) /\ ver[v].u \in Users /\ ver[v].tok \in Tokens /\ b \in Accounts
    /\ acct' = [acct EXCEPT ![ver[v].u] = b] /\ row' = [row EXCEPT ![ver[v].u] = NoRows]
    /\ spent' = spent \cup {ver[v].tok} /\ Answered(v)
    /\ b.there = acct[ver[v].u].there
    /\ \A k \in Kinds : b.col[k] = acct[ver[v].u].col[k] \/ b.col[k] = None
    /\ b.col[ver[v].tok.kind] = None
    /\ \/ /\ b.addr["mail"] = acct[ver[v].u].addr["mail"] /\ b.change["mail"] = acct[ver[v].u].change["mail"]
          /\ b.status = acct[ver[v].u].status
       \/ Lands(v, b)
    /\ UNCHANGED <<now, conf, req, inbox, refused, outdated>>

\* The answer to a redemption: a session, a code or the next half.
LEMMA AnswerIs ==
    ASSUME TypeOK, TokensAreIssued, NEW v \in Verifiers, Under(v), Answer(v)
    PROVE  Answered(v)
<1> DEFINE idle == [mail |-> None, ok |-> FALSE, change |-> [c \in Channels |-> None], anonymous |-> FALSE, bare |-> FALSE]
<1>1. ver[v].u \in Users /\ now \in Nat
  BY DEF TokensAreIssued, TypeOK
<1>2. NothingSeen \in Views
  BY DEF NothingSeen, Views, Somewhere
<1>3. ASSUME NEW st \in {"session", "code"}, NEW c \in Senders \cup {None}
      PROVE  LET x == [DoneVer(st) EXCEPT !.code = c] IN x \in Vers /\ x.st = st /\ x.code = c
  BY <1>2 DEF DoneVer, IdleVer, Vers
<1>4. DoneVer("session") \in Vers /\ DoneVer("session").st = "session" /\ DoneVer("session").code = None
  BY <1>2 DEF DoneVer, IdleVer, Vers
<1>5. CASE \E s \in Senders :
              /\ flow' = [flow EXCEPT ![s].issued = now]
              /\ ver' = [Raced(ver[v].u, v) EXCEPT ![v] = [DoneVer("code") EXCEPT !.code = s]]
  <2>1. PICK s \in Senders :
              /\ flow' = [flow EXCEPT ![s].issued = now]
              /\ ver' = [Raced(ver[v].u, v) EXCEPT ![v] = [DoneVer("code") EXCEPT !.code = s]]
    BY <1>5
  <2>2. flow' \in [Senders -> Flows] /\ \A o \in Senders : flow'[o].st = flow[o].st
    BY <1>1, <2>1 DEF TypeOK, Flows
  <2>3. s # None
    BY TokenAssumption
  <2> DEFINE x == [DoneVer("code") EXCEPT !.code = s]
  <2>4. x \in Vers /\ x.st = "code" /\ x.code = s
    BY <1>3
  <2>5. ver' = [Raced(ver[v].u, v) EXCEPT ![v] = x]
    BY <2>1
  <2> HIDE DEF x
  <2> QED
    BY <2>2, <2>3, <2>4, <2>5 DEF Answered
<1>6. CASE ver' = [Raced(ver[v].u, v) EXCEPT ![v] = DoneVer("session")] /\ UNCHANGED flow
  BY <1>4, <1>6 DEF Answered, TypeOK
<1> QED
  BY <1>5, <1>6 DEF Answer, FlowStatesFor

\* A redemption spends its token and clears what it stood in.
LEMMA ApplyIs ==
    ASSUME TypeOK, TokensAreIssued, NEW v \in Verifiers,
           \/ ApplySignup(v) \/ ApplyRecovery(v) \/ ApplySms(v) \/ ApplyPhone(v) \/ ApplyNonce(v) \/ ApplyChange(v)
    PROVE  \E b \in Accounts : Redeemed(v, b)
<1> DEFINE a == acct[ver[v].u]
           seen == ver[v].seen
<1>1. Under(v)
  BY DEF ApplySignup, ApplyRecovery, ApplySms, ApplyPhone, ApplyNonce, ApplyChange, Under
<1>2. /\ ver[v].u \in Users /\ ver[v].tok \in inbox /\ ver[v].tok \in Tokens /\ a \in Accounts
      /\ ver[v].form = "nonce" <=> ver[v].tok.kind = "reauthentication"
  BY <1>1 DEF TokensAreIssued, TypeOK
<1>3. seen.anonymous \in BOOLEAN /\ seen.bare \in BOOLEAN /\ seen.change["mail"] \in Somewhere
      /\ seen.change["phone"] \in Somewhere
  BY DEF TypeOK, Vers, Views, Channels
<1> HIDE DEF a, seen
<1>4. ASSUME NEW b, Redeem(v, b), Confirms(a, b, {ver[v].tok.kind}) PROVE b \in Accounts /\ Redeemed(v, b)
  <2>1. ver[v].tok.kind \in Kinds
    BY <1>2 DEF Tokens
  <2>2. Answered(v)
    BY <1>1, <1>4, AnswerIs DEF Redeem
  <2> QED
    BY <1>1, <1>2, <1>4, <2>1, <2>2 DEF Redeem, Redeemed, Confirms, a
<1>5. CASE ApplySignup(v)
  BY <1>2, <1>3, <1>4, <1>5, SignupIs DEF ApplySignup, a, seen
<1>6. CASE ApplyRecovery(v)
  BY <1>2, <1>4, <1>6, RecoverIs DEF ApplyRecovery, a, seen
<1>7. CASE ApplySms(v)
  BY <1>2, <1>3, <1>4, <1>7, ConfirmIs DEF ApplySms, a, seen
<1>8. CASE ApplyPhone(v)
  BY <1>2, <1>3, <1>4, <1>8, PhoneChangeIs DEF ApplyPhone, a, seen
<1>9. CASE ApplyNonce(v)
  BY <1>2, <1>4, <1>9, NonceIs DEF ApplyNonce, a
<1>10. CASE ApplyChange(v)
  <2> DEFINE b == ApplyEmailChange(a, seen)
  <2>1. Redeem(v, b) /\ ver[v].st = "tokens" /\ ~TwoHalves(v) /\ seen.change["mail"] # None
    BY <1>10 DEF ApplyChange, a, seen
  <2>2. /\ b \in Accounts /\ b.there = a.there /\ b.addr["mail"] = seen.change["mail"] /\ b.status = 0
        /\ \A k \in Kinds : b.col[k] = a.col[k] \/ b.col[k] = None
        /\ b.col["current"] = None /\ b.col["new"] = None
    BY <1>2, <1>3, EmailChangeIs
  <2> HIDE DEF b
  <2>3. Answered(v)
    BY <1>1, <2>1, AnswerIs DEF Redeem
  <2>4. b.col[ver[v].tok.kind] = None
    BY <1>1, <2>1, <2>2 DEF TokensAreIssued, OfChange
  <2> QED
    BY <1>1, <1>2, <2>1, <2>2, <2>3, <2>4 DEF Redeem, Redeemed, Lands, a, seen
<1> QED
  BY <1>5, <1>6, <1>7, <1>8, <1>9, <1>10

-----------------------------------------------------------------------------
\* The other steps: a discard takes tokens of its request away ...
ColumnDropped(s) ==
    /\ req[s].st = "refused" /\ req' = [req EXCEPT ![s].st = "cleared"]
    /\ acct' \in [Users -> Accounts]
    /\ \A u \in Users :
          /\ acct'[u].there = acct[u].there /\ acct'[u].addr = acct[u].addr
          /\ acct'[u].change = acct[u].change /\ acct'[u].status = acct[u].status
          /\ \A k \in Kinds : \/ acct'[u].col[k] = acct[u].col[k]
                              \/ /\ acct'[u].col[k] = None
                                 /\ acct[u].col[k] \in Tokens /\ acct[u].col[k].by = s
    /\ UNCHANGED <<now, conf, row, flow, ver, inbox, spent, refused, outdated>>

RowDropped(s) ==
    /\ req[s].st = "cleared"
    /\ \/ req' = [req EXCEPT ![s] = DoneReq]
       \/ \E left \in SUBSET req[s].toks :
             req' = [req EXCEPT ![s].st = "refused", ![s].toks = left] /\ left # {}
    /\ row' \in [Users -> [Kinds -> Tokens \cup {None}]]
    /\ \A u \in Users, k \in Kinds : \/ row'[u][k] = row[u][k]
                                     \/ row'[u][k] = None /\ row[u][k] \in req[s].toks
    /\ UNCHANGED <<now, conf, acct, flow, ver, inbox, spent, refused, outdated>>

\* ... a redemption reads ...
ReadTo(v, t, u, x) ==
    /\ x.form = "nonce" <=> t.kind = "reauthentication"
    /\ row[u][t.kind] = t \/ acct[u].col[t.kind] = t
    /\ OfChange(t) => row[u][t.kind] = t
    /\ ver' = [ver EXCEPT ![v] = x]
    /\ x.st = "read" /\ x.tok = t /\ x.u = u /\ x.seen = Seen(u) /\ ~x.raced /\ x.code = None

\* The two reads of a redemption.
Reads(v) ==
    /\ ver[v].st = "idle"
    /\ \E t \in inbox, u \in Users, x \in Vers : ReadTo(v, t, u, x)
    /\ UNCHANGED <<now, conf, acct, row, flow, req, inbox, spent, refused, outdated>>

ReadsHalf(v) ==
    /\ ver[v].st = "read" /\ OfChange(ver[v].tok)
    /\ \E x \in Vers :
          /\ ver' = [ver EXCEPT ![v] = x] /\ x.st = "tokens" /\ x.status = acct[ver[v].u].status
          /\ x.form = ver[v].form /\ x.tok = ver[v].tok /\ x.u = ver[v].u /\ x.seen = ver[v].seen
          /\ x.raced = ver[v].raced /\ x.code = ver[v].code
          /\ \/ x.half \in {"current", "new"} /\ acct[ver[v].u].col[x.half] = ver[v].tok
             \/ /\ x.half = "none" /\ acct[ver[v].u].col["current"] # ver[v].tok
                /\ acct[ver[v].u].col["new"] # ver[v].tok
    /\ UNCHANGED <<now, conf, acct, row, flow, req, inbox, spent, refused, outdated>>

\* ... accepts the first half of a change ...
Halves(v, b) ==
    LET u == ver[v].u
        h == ver[v].half
    IN  /\ ver[v].st = "tokens" /\ TwoHalves(v) /\ u \in Users /\ ver[v].tok \in Tokens
        /\ acct' = [acct EXCEPT ![u] = b]
        /\ b \in Accounts /\ b.there = acct[u].there /\ b.addr = acct[u].addr /\ b.change = acct[u].change
        /\ b.status = 1
        /\ \A k \in Kinds : b.col[k] = IF k = h THEN None ELSE acct[u].col[k]
        /\ row' \in [Users -> [Kinds -> Tokens \cup {None}]]
        /\ \A w \in Users, k \in Kinds : row'[w][k] = IF w = u /\ k = h THEN None ELSE row[w][k]
        /\ spent' = spent \cup {ver[v].tok}
        /\ \E x \in Vers : /\ ver' = [Raced(u, v) EXCEPT ![v] = x]
                           /\ x.st = "half" /\ x.u = u /\ x.raced = ver[v].raced /\ x.code = None
        /\ UNCHANGED <<now, conf, flow, req, inbox, refused, outdated>>

\* ... or exchanges its code.
Exchanges(v) ==
    /\ ver[v].st = "code" /\ ver[v].code \in Senders /\ flow[ver[v].code].st = "open"
    /\ flow' \in [Senders -> Flows]
    /\ \A s \in Senders : flow'[s].st = IF s = ver[v].code THEN "used" ELSE flow[s].st
    /\ \E x \in Vers : ver' = [ver EXCEPT ![v] = x] /\ x.st = "session" /\ x.code = ver[v].code
    /\ UNCHANGED <<now, conf, acct, row, req, inbox, spent, refused, outdated>>

\* A refused message takes its column first and its row later.
LEMMA DropIs ==
    ASSUME TypeOK, TokensAreIssued, NEW s \in Senders
    PROVE  /\ DiscardColumn(s) => ColumnDropped(s)
           /\ DiscardRow(s) => RowDropped(s)
<1> DEFINE t == Undelivered(s)
<1>1. ASSUME req[s].st \in {"refused", "cleared"} PROVE t \in req[s].toks /\ t \in Tokens /\ t.by = s /\ t.kind \in Kinds
  <2>1. req[s].toks # {} /\ req[s].toks \in SUBSET Tokens /\ \A o \in req[s].toks : o.by = s
    BY <1>1 DEF TokensAreIssued, TypeOK, Reqs
  <2>2. t \in req[s].toks
    BY <2>1 DEF Undelivered
  <2> HIDE DEF t
  <2> QED
    BY <2>1, <2>2 DEF Tokens
<1>2. ASSUME DiscardColumn(s) PROVE ColumnDropped(s)
  <2>1. /\ req[s].st = "refused" /\ req' = [req EXCEPT ![s].st = "cleared"]
        /\ acct' = [u \in Users |-> IF acct[u].col[t.kind] = t
                                    THEN [acct[u] EXCEPT !.col[t.kind] = None, !.sent[Slot(t.kind)] = Never]
                                    ELSE acct[u]]
        /\ UNCHANGED <<now, conf, row, flow, ver, inbox, spent, refused, outdated>>
    BY <1>2 DEF DiscardColumn
  <2>2. t \in Tokens /\ t.by = s /\ t.kind \in Kinds
    BY <1>1, <2>1
  <2> HIDE DEF t
  <2>3. Slot(t.kind) \in Slots
    BY <2>2 DEF Slot, Slots, Kinds
  <2>4. ASSUME NEW u \in Users
        PROVE  /\ acct'[u] \in Accounts /\ acct'[u].there = acct[u].there /\ acct'[u].addr = acct[u].addr
               /\ acct'[u].change = acct[u].change /\ acct'[u].status = acct[u].status
               /\ \A k \in Kinds : \/ acct'[u].col[k] = acct[u].col[k]
                                   \/ acct'[u].col[k] = None /\ acct[u].col[k] = t
    <3>1. acct[u] \in Accounts
      BY DEF TypeOK
    <3>2. CASE acct[u].col[t.kind] = t
      <4> DEFINE col == [acct[u].col EXCEPT ![t.kind] = None]
                 sent == [acct[u].sent EXCEPT ![Slot(t.kind)] = Never]
      <4>1. acct'[u] = [acct[u] EXCEPT !.col = col, !.sent = sent]
        BY <2>1, <3>1, <3>2 DEF Accounts
      <4>2. /\ col \in [Kinds -> Tokens \cup {None}] /\ sent \in [Slots -> Nat \cup {Never}]
            /\ \A k \in Kinds : col[k] = acct[u].col[k] \/ (col[k] = None /\ acct[u].col[k] = t)
        BY <2>2, <2>3, <3>1, <3>2 DEF Accounts
      <4> HIDE DEF col, sent
      <4> QED
        BY <3>1, <4>1, <4>2 DEF Accounts
    <3>3. CASE acct[u].col[t.kind] # t
      BY <2>1, <3>1, <3>3
    <3> QED
      BY <3>2, <3>3
  <2>5. acct' \in [Users -> Accounts]
    BY <2>1, <2>4
  <2> QED
    BY <2>1, <2>2, <2>4, <2>5 DEF ColumnDropped
<1>3. ASSUME DiscardRow(s) PROVE RowDropped(s)
  <2>1. /\ req[s].st = "cleared"
        /\ row' = [u \in Users |-> [row[u] EXCEPT ![t.kind] = IF @ = t THEN None ELSE @]]
        /\ req' = [req EXCEPT ![s] = IF req[s].toks \ {t} = {} THEN DoneReq
                                     ELSE [@ EXCEPT !.st = "refused", !.toks = req[s].toks \ {t}]]
        /\ UNCHANGED <<now, conf, acct, flow, ver, inbox, spent, refused, outdated>>
    BY <1>3 DEF DiscardRow
  <2>2. t \in Tokens /\ t.by = s /\ t.kind \in Kinds /\ t \in req[s].toks
    BY <1>1, <2>1
  <2> HIDE DEF t
  <2>3. /\ row' \in [Users -> [Kinds -> Tokens \cup {None}]]
        /\ \A u \in Users, k \in Kinds : row'[u][k] = row[u][k] \/ (row'[u][k] = None /\ row[u][k] = t)
    BY <2>1, <2>2 DEF TypeOK
  <2>4. \/ req' = [req EXCEPT ![s] = DoneReq]
        \/ \E left \in SUBSET req[s].toks : req' = [req EXCEPT ![s].st = "refused", ![s].toks = left] /\ left # {}
    <3> DEFINE left == req[s].toks \ {t}
    <3>1. left \in SUBSET req[s].toks
      OBVIOUS
    <3>2. CASE left = {}
      BY <2>1, <3>2
    <3>3. CASE left # {}
      <4>1. req' = [req EXCEPT ![s].st = "refused", ![s].toks = left]
        BY <2>1, <3>3 DEF TypeOK, Reqs
      <4> QED
        BY <3>1, <3>3, <4>1
    <3> QED
      BY <3>2, <3>3
  <2> QED
    BY <2>1, <2>2, <2>3, <2>4 DEF RowDropped
<1> QED
  BY <1>2, <1>3

LEMMA SeenIs == ASSUME TypeOK, NEW u \in Users PROVE Seen(u) \in Views
BY DEF Seen, Views, TypeOK, Accounts, Channels

\* A redemption reads the account, then the half, then writes.
LEMMA VerifyIs ==
    ASSUME TypeOK, NEW v \in Verifiers, NEW t \in inbox, NEW form \in Forms(t), Verify(v, form, t)
    PROVE  Reads(v)
<1>1. PICK u \in Found(form, t) :
         ver' = [ver EXCEPT ![v] = [IdleVer EXCEPT !.st = "read", !.form = form, !.tok = t, !.u = u, !.seen = Seen(u)]]
  BY DEF Verify
<1>2. t \in Tokens /\ t.kind \in Kinds
  BY DEF TypeOK, Tokens
<1>3. form \in {"get", "post", "typed", "nonce"} /\ (form = "nonce" <=> t.kind = "reauthentication")
  BY DEF Forms
<1>4. u \in Users /\ (row[u][t.kind] = t \/ acct[u].col[t.kind] = t) /\ (OfChange(t) => row[u][t.kind] = t)
  BY <1>1, <1>2, <1>3 DEF Found, FoundByNonce, FoundByCode, FoundByHash, FoundByChange, FindUserBy,
                          FindUserByPhoneChange, OfChange
<1> DEFINE x == [IdleVer EXCEPT !.st = "read", !.form = form, !.tok = t, !.u = u, !.seen = Seen(u)]
<1>5. /\ x \in Vers /\ x.st = "read" /\ x.form = form /\ x.tok = t /\ x.u = u /\ x.seen = Seen(u)
      /\ ~x.raced /\ x.code = None
  BY <1>2, <1>3, <1>4, SeenIs DEF IdleVer, Vers
<1>6. ver[v].st = "idle" /\ UNCHANGED <<now, conf, acct, row, flow, req, inbox, spent, refused, outdated>>
  BY DEF Verify
<1> HIDE DEF x
<1> QED
  BY <1>1, <1>3, <1>4, <1>5, <1>6 DEF Reads, ReadTo, x

LEMMA HalfIs ==
    ASSUME TypeOK, TokensAreIssued, NEW v \in Verifiers, FindUserTokens(v)
    PROVE  ReadsHalf(v)
<1> DEFINE a == acct[ver[v].u]
           half == CASE a.col["current"] = ver[v].tok -> "current"
                     [] a.col["new"] = ver[v].tok -> "new"
                     [] OTHER -> "none"
           x == [ver[v] EXCEPT !.st = "tokens", !.status = a.status, !.half = half]
<1>1. /\ ver[v].st = "read" /\ OfChange(ver[v].tok)
      /\ ver' = [ver EXCEPT ![v].st = "tokens", ![v].status = a.status, ![v].half = half]
      /\ UNCHANGED <<now, conf, acct, row, flow, req, inbox, spent, refused, outdated>>
  BY DEF FindUserTokens, OfChange
<1>2. ver[v].u \in Users /\ a.status \in {0, 1} /\ ver[v] \in Vers
  BY <1>1 DEF TokensAreIssued, Under, TypeOK, Accounts
<1>3. \/ half \in {"current", "new"} /\ a.col[half] = ver[v].tok
      \/ half = "none" /\ a.col["current"] # ver[v].tok /\ a.col["new"] # ver[v].tok
  OBVIOUS
<1> HIDE DEF half, a
<1>4. ver' = [ver EXCEPT ![v] = x]
  BY <1>1 DEF TypeOK
<1>5. /\ x \in Vers /\ x.st = "tokens" /\ x.status = a.status /\ x.half = half
      /\ x.form = ver[v].form /\ x.tok = ver[v].tok /\ x.u = ver[v].u /\ x.seen = ver[v].seen
      /\ x.raced = ver[v].raced /\ x.code = ver[v].code
  BY <1>2, <1>3 DEF Vers
<1> HIDE DEF x
<1> QED
  BY <1>1, <1>3, <1>4, <1>5 DEF ReadsHalf, a

LEMMA AcceptIs ==
    ASSUME TypeOK, TokensAreIssued, NEW v \in Verifiers, AcceptHalf(v)
    PROVE  \E b \in Accounts : Halves(v, b)
<1> DEFINE u == ver[v].u
           h == ver[v].half
           b == FirstHalf(acct[u], h)
           x == [DoneVer("half") EXCEPT !.u = u, !.raced = ver[v].raced]
<1>1. /\ ver[v].st = "tokens" /\ TwoHalves(v)
      /\ acct' = [acct EXCEPT ![u] = b]
      /\ row' = IF h = "none" THEN row ELSE [row EXCEPT ![u][h] = None]
      /\ spent' = spent \cup {ver[v].tok}
      /\ ver' = [Raced(u, v) EXCEPT ![v] = x]
      /\ UNCHANGED <<now, conf, flow, req, inbox, refused, outdated>>
  BY DEF AcceptHalf, TypeOK
<1>2. /\ u \in Users /\ acct[u] \in Accounts /\ ver[v].tok \in inbox /\ ver[v].tok \in Tokens /\ ver[v].raced \in BOOLEAN
      /\ h \in {"none", "current", "new"}
  BY <1>1 DEF TokensAreIssued, Under, TypeOK, Vers
<1>3. /\ b \in Accounts /\ b.there = acct[u].there /\ b.addr = acct[u].addr /\ b.change = acct[u].change /\ b.status = 1
      /\ \A k \in Kinds : b.col[k] = IF k = h THEN None ELSE acct[u].col[k]
  BY <1>2 DEF FirstHalf, Accounts, Kinds
<1>4. /\ row' \in [Users -> [Kinds -> Tokens \cup {None}]]
      /\ \A w \in Users, k \in Kinds : row'[w][k] = IF w = u /\ k = h THEN None ELSE row[w][k]
  BY <1>1, <1>2 DEF TypeOK, Kinds
<1>5. NothingSeen \in Views
  BY DEF NothingSeen, Views, Somewhere
<1>6. x \in Vers /\ x.st = "half" /\ x.u = u /\ x.raced = ver[v].raced /\ x.code = None
  BY <1>2, <1>5 DEF DoneVer, IdleVer, Vers
<1> HIDE DEF b, x
<1> QED
  BY <1>1, <1>2, <1>3, <1>4, <1>6 DEF Halves

\* A code is exchanged by the request that closes its flow.
LEMMA ExchangeIs ==
    ASSUME TypeOK, NEW v \in Verifiers, PkceGrant(v), ver[v].code # None
    PROVE  Exchanges(v)
<1>1. ver[v].code \in Senders
  BY DEF TypeOK, Vers
<1> DEFINE x == [ver[v] EXCEPT !.st = "session"]
<1>2. /\ ver[v].st = "code" /\ flow[ver[v].code].st = "open" /\ ver' = [ver EXCEPT ![v] = x]
      /\ flow' = [flow EXCEPT ![ver[v].code].st = "used"]
      /\ UNCHANGED <<now, conf, acct, row, req, inbox, spent, refused, outdated>>
  BY DEF PkceGrant, TypeOK
<1>3. x \in Vers /\ x.st = "session" /\ x.code = ver[v].code
  BY DEF TypeOK, Vers
<1>4. flow' \in [Senders -> Flows] /\ \A s \in Senders : flow'[s].st = IF s = ver[v].code THEN "used" ELSE flow[s].st
  BY <1>1, <1>2 DEF TypeOK, Flows
<1> HIDE DEF x
<1> QED
  BY <1>1, <1>2, <1>3, <1>4 DEF Exchanges

-----------------------------------------------------------------------------
\* The steps of the system, in the terms above.
Issuing(s) ==
    \/ Decides(s) \/ WroteNothing(s) \/ ColumnDropped(s) \/ RowDropped(s) \/ DiscardStops(s)
    \/ \E u \in Users : \E a, b \in Accounts : \E toks \in SUBSET Tokens : Wrote(s, u, a, b, toks)

Redeeming(v) ==
    \/ Reads(v) \/ ReadsHalf(v) \/ Exchanges(v)
    \/ \E b \in Accounts : Halves(v, b) \/ Redeemed(v, b)

\* Every step is the clock, a step of an issuing or of a redeeming request.
LEMMA Steps ==
    ASSUME TypeOK, TokensAreIssued, RequestsKnow, LinksBelong, FlowsAreUsedOnce, Next
    PROVE  (\E s \in Senders : Issuing(s)) \/ (\E v \in Verifiers : Redeeming(v)) \/ Tick
<1>1. ASSUME NEW s \in Senders, Issue(s) PROVE Issuing(s)
  BY <1>1, HandlerDecides, WriteIs, DropIs DEF Issue, Issuing
<1>2. ASSUME NEW v \in Verifiers, Redemption(v) PROVE Redeeming(v)
  <2>1. ASSUME NEW t \in inbox, NEW form \in Forms(t), Verify(v, form, t) PROVE Reads(v)
    BY <2>1, VerifyIs
  <2>2. FindUserTokens(v) => ReadsHalf(v)
    BY HalfIs
  <2>3. AcceptHalf(v) => \E b \in Accounts : Halves(v, b)
    BY AcceptIs
  <2>4. ApplySignup(v) \/ ApplyRecovery(v) \/ ApplySms(v) \/ ApplyPhone(v) \/ ApplyNonce(v) \/ ApplyChange(v)
          => \E b \in Accounts : Redeemed(v, b)
    BY ApplyIs
  <2>5. PkceGrant(v) => Exchanges(v)
    BY ExchangeIs DEF FlowsAreUsedOnce, PkceGrant
  <2> QED
    BY <1>2, <2>1, <2>2, <2>3, <2>4, <2>5 DEF Redemption, Redeeming
<1> QED
  BY <1>1, <1>2 DEF Next

LEMMA DoneReqIs == DoneReq \in Reqs /\ DoneReq.st = "done" /\ DoneReq.toks = {}
BY DEF DoneReq, IdleReq, Reqs, Sends, Methods, Somewhere

LEMMA CreatedIs ==
    ASSUME TypeOK, NEW s \in Senders, NEW u \in Users
    PROVE  /\ CreateFlowState(s, u) \in [Senders -> Flows]
           /\ \A o \in Senders \ {s} : CreateFlowState(s, u)[o] = flow[o]
<1>1. req[s].method \in Methods /\ now \in Nat
  BY DEF TypeOK, Reqs
<1> QED
  BY <1>1 DEF CreateFlowState, TypeOK, Flows

LEMMA RefusedTo ==
    ASSUME TypeOK, NEW s \in Senders, NEW toks \in SUBSET Tokens, req' = [req EXCEPT ![s].st = "refused", ![s].toks = toks]
    PROVE  \E x \in Reqs : x.st = "refused" /\ x.toks = toks /\ req' = [req EXCEPT ![s] = x]
<1> DEFINE x == [req[s] EXCEPT !.st = "refused", !.toks = toks]
<1>1. x \in Reqs /\ x.st = "refused" /\ x.toks = toks /\ req' = [req EXCEPT ![s] = x]
  BY DEF TypeOK, Reqs
<1> QED
  BY <1>1

LEMMA ClearedTo ==
    ASSUME TypeOK, NEW s \in Senders, req' = [req EXCEPT ![s].st = "cleared"]
    PROVE  \E x \in Reqs : x.st = "cleared" /\ x.toks = req[s].toks /\ req' = [req EXCEPT ![s] = x]
<1> DEFINE x == [req[s] EXCEPT !.st = "cleared"]
<1>1. x \in Reqs /\ x.st = "cleared" /\ x.toks = req[s].toks /\ req' = [req EXCEPT ![s] = x]
  BY DEF TypeOK, Reqs
<1> QED
  BY <1>1

\* The types are preserved.
LEMMA IssuingTyped == ASSUME TypeOK, NEW s \in Senders, Issuing(s) PROVE TypeOK'
<1>1. CASE Decides(s)
  BY <1>1 DEF Decides, TypeOK
<1>2. CASE WroteNothing(s)
  BY <1>2, DoneReqIs DEF WroteNothing, TypeOK
<1>3. CASE ColumnDropped(s)
  <2>1. req' \in [Senders -> Reqs]
    BY <1>3, ClearedTo DEF ColumnDropped, TypeOK
  <2> QED
    BY <1>3, <2>1 DEF ColumnDropped, TypeOK
<1>4. CASE RowDropped(s)
  <2>1. req' \in [Senders -> Reqs]
    <3>1. req[s].toks \in SUBSET Tokens
      BY DEF TypeOK, Reqs
    <3>2. CASE req' = [req EXCEPT ![s] = DoneReq]
      BY <3>2, DoneReqIs DEF TypeOK
    <3>3. ASSUME NEW left \in SUBSET req[s].toks, req' = [req EXCEPT ![s].st = "refused", ![s].toks = left]
          PROVE  req' \in [Senders -> Reqs]
      <4>1. left \in SUBSET Tokens
        BY <3>1
      <4> QED
        <5>1. PICK x \in Reqs : req' = [req EXCEPT ![s] = x]
          BY <3>3, <4>1, RefusedTo
        <5> QED
          BY <5>1 DEF TypeOK
    <3> QED
      BY <1>4, <3>2, <3>3 DEF RowDropped
  <2> QED
    BY <1>4, <2>1 DEF RowDropped, TypeOK
<1>5. CASE DiscardStops(s)
  BY <1>5, DoneReqIs DEF DiscardStops, TypeOK
<1>6. ASSUME NEW u \in Users, NEW a \in Accounts, NEW b \in Accounts, NEW toks \in SUBSET Tokens, Wrote(s, u, a, b, toks)
      PROVE  TypeOK'
  <2>1. req' \in [Senders -> Reqs] /\ refused' \in SUBSET Senders
    <3>1. CASE req' = [req EXCEPT ![s] = DoneReq] /\ refused' = refused
      BY <3>1, DoneReqIs DEF TypeOK
    <3>2. CASE req' = [req EXCEPT ![s].st = "refused", ![s].toks = toks] /\ refused' = refused \cup {s}
      <4>1. PICK x \in Reqs : req' = [req EXCEPT ![s] = x]
        BY <3>2, RefusedTo
      <4> QED
        BY <3>2, <4>1 DEF TypeOK
    <3> QED
      BY <1>6, <3>1, <3>2 DEF Wrote
  <2>2. ver' \in [Verifiers -> Vers] /\ flow' \in [Senders -> Flows]
    BY <1>6, RacedIs, CreatedIs DEF Wrote
  <2>3. acct' \in [Users -> Accounts] /\ inbox' \in SUBSET Tokens /\ outdated' \in SUBSET Users
    BY <1>6 DEF Wrote, TypeOK, Outdated
  <2> QED
    BY <1>6, <2>1, <2>2, <2>3 DEF Wrote, TypeOK
<1> QED
  BY <1>1, <1>2, <1>3, <1>4, <1>5, <1>6 DEF Issuing

LEMMA RedeemingTyped == ASSUME TypeOK, NEW v \in Verifiers, Redeeming(v) PROVE TypeOK'
<1>1. CASE Reads(v)
  BY <1>1 DEF Reads, ReadTo, TypeOK
<1>2. CASE ReadsHalf(v)
  BY <1>2 DEF ReadsHalf, TypeOK
<1>3. CASE Exchanges(v)
  BY <1>3 DEF Exchanges, TypeOK
<1>4. ASSUME NEW b \in Accounts, Halves(v, b) PROVE TypeOK'
  <2>1. ver' \in [Verifiers -> Vers] /\ acct' \in [Users -> Accounts] /\ spent' \in SUBSET Tokens
    BY <1>4, RacedIs DEF Halves, TypeOK
  <2> QED
    BY <1>4, <2>1 DEF Halves, TypeOK
<1>5. ASSUME NEW b \in Accounts, Redeemed(v, b) PROVE TypeOK'
  <2>1. ver' \in [Verifiers -> Vers] /\ flow' \in [Senders -> Flows]
    BY <1>5, RacedIs DEF Redeemed, Answered
  <2>2. acct' \in [Users -> Accounts] /\ spent' \in SUBSET Tokens /\ row' \in [Users -> [Kinds -> Tokens \cup {None}]]
    BY <1>5 DEF Redeemed, TypeOK, NoRows
  <2> QED
    BY <1>5, <2>1, <2>2 DEF Redeemed, TypeOK
<1> QED
  BY <1>1, <1>2, <1>3, <1>4, <1>5 DEF Redeeming

-----------------------------------------------------------------------------
\* The request is past its write, so its tokens are no longer new.
Past(s) == req[s].st \in {"refused", "cleared", "done"}

\* A redemption as an issuing request leaves it.
Same(w) ==
    /\ ver'[w].st = ver[w].st /\ ver'[w].form = ver[w].form /\ ver'[w].tok = ver[w].tok /\ ver'[w].u = ver[w].u
    /\ ver'[w].seen = ver[w].seen /\ ver'[w].status = ver[w].status /\ ver'[w].half = ver[w].half
    /\ ver'[w].code = ver[w].code /\ (ver[w].raced => ver'[w].raced)

\* What an issuing step leaves of the requests, the redemptions and the tokens.
LEMMA IssuingKeeps ==
    ASSUME TypeOK, TokensAreIssued, NEW s \in Senders, Issuing(s)
    PROVE  /\ \A o \in Senders \ {s} : req'[o] = req[o]
           /\ \A o \in Senders : Past(o) => Past(o)'
           /\ (req[s].st = "ready" \/ Past(s)) => Past(s)'
           /\ refused \subseteq refused' /\ outdated \subseteq outdated' /\ inbox \subseteq inbox'
           /\ spent' = spent /\ conf' = conf /\ \A w \in Verifiers : Same(w)
<1>0. req \in [Senders -> Reqs] /\ DoneReq.st = "done"
  BY DoneReqIs DEF TypeOK
<1>1. CASE Decides(s)
  BY <1>0, <1>1 DEF Decides, Past, Same
<1>2. CASE WroteNothing(s) \/ DiscardStops(s)
  BY <1>0, <1>2 DEF WroteNothing, DiscardStops, Past, Same
<1>3. CASE ColumnDropped(s)
  <2>1. PICK x \in Reqs : req' = [req EXCEPT ![s] = x] /\ x.st = "cleared"
    <3>1. req' = [req EXCEPT ![s].st = "cleared"]
      BY <1>3 DEF ColumnDropped
    <3> QED
      BY <3>1, ClearedTo
  <2> QED
    BY <1>0, <1>3, <2>1 DEF ColumnDropped, Past, Same
<1>4. CASE RowDropped(s)
  <2>1. PICK x \in Reqs : req' = [req EXCEPT ![s] = x] /\ x.st \in {"refused", "done"}
    <3>1. CASE req' = [req EXCEPT ![s] = DoneReq]
      BY <3>1, DoneReqIs
    <3>2. ASSUME NEW left \in SUBSET req[s].toks, req' = [req EXCEPT ![s].st = "refused", ![s].toks = left]
          PROVE  \E x \in Reqs : req' = [req EXCEPT ![s] = x] /\ x.st \in {"refused", "done"}
      <4>1. left \in SUBSET Tokens
        BY <1>0 DEF Reqs
      <4> QED
        BY <3>2, <4>1, RefusedTo
    <3> QED
      BY <1>4, <3>1, <3>2 DEF RowDropped
  <2> QED
    BY <1>0, <1>4, <2>1 DEF RowDropped, Past, Same
<1>5. ASSUME NEW u \in Users, NEW a \in Accounts, NEW b \in Accounts, NEW toks \in SUBSET Tokens, Wrote(s, u, a, b, toks)
      PROVE  /\ \A o \in Senders \ {s} : req'[o] = req[o]
             /\ Past(s)' /\ spent' = spent /\ conf' = conf
             /\ refused \subseteq refused' /\ outdated \subseteq outdated' /\ inbox \subseteq inbox'
             /\ \A w \in Verifiers : Same(w)
  <2>1. PICK x \in Reqs : req' = [req EXCEPT ![s] = x] /\ x.st \in {"refused", "done"}
    <3>1. CASE req' = [req EXCEPT ![s] = DoneReq]
      BY <3>1, DoneReqIs
    <3>2. CASE req' = [req EXCEPT ![s].st = "refused", ![s].toks = toks]
      BY <3>2, RefusedTo
    <3> QED
      BY <1>5, <3>1, <3>2 DEF Wrote
  <2>2. \A w \in Verifiers : Same(w)
    BY <1>5, RacedIs DEF Wrote, Same
  <2> QED
    BY <1>0, <1>5, <2>1, <2>2 DEF Wrote, Past
<1>6. (\A o \in Senders \ {s} : req'[o] = req[o]) /\ Past(s)' => \A o \in Senders : Past(o) => Past(o)'
  BY DEF Past
<1> QED
  BY <1>1, <1>2, <1>3, <1>4, <1>5, <1>6 DEF Issuing

\* A redemption writes no request, and stores no token.
LEMMA RedeemingKeeps ==
    ASSUME TypeOK, TokensAreIssued, NEW v \in Verifiers, Redeeming(v)
    PROVE  /\ UNCHANGED <<conf, req, inbox, refused, outdated>> /\ spent \subseteq spent'
           /\ \A w \in Verifiers \ {v} : Same(w)
<1>0. ver \in [Verifiers -> Vers]
  BY DEF TypeOK
<1>1. CASE Reads(v) \/ ReadsHalf(v) \/ Exchanges(v)
  BY <1>0, <1>1 DEF Reads, ReadTo, ReadsHalf, Exchanges, Same
<1>2. ASSUME NEW b \in Accounts, Halves(v, b) \/ Redeemed(v, b)
      PROVE  /\ UNCHANGED <<conf, req, inbox, refused, outdated>> /\ spent \subseteq spent'
             /\ \A w \in Verifiers \ {v} : Same(w)
  <2>1. PICK x \in Vers : ver' = [Raced(ver[v].u, v) EXCEPT ![v] = x]
    BY <1>2 DEF Halves, Redeemed, Answered
  <2>2. ver[v].u \in Users
    BY <1>2 DEF Halves, Redeemed
  <2>3. \A w \in Verifiers \ {v} : ver'[w] = Raced(ver[v].u, v)[w]
    BY <2>1, <2>2, RacedIs
  <2>4. \A w \in Verifiers \ {v} : Same(w)
    BY <2>2, <2>3, RacedIs DEF Same
  <2> QED
    BY <1>2, <2>4 DEF Halves, Redeemed
<1> QED
  BY <1>1, <1>2 DEF Redeeming

\* A token that is stored was stored before, or is new.
Fresh(s, t, k) == t \in Tokens /\ t.by = s /\ t.kind = k /\ req[s].st = "ready" /\ Past(s)'

\* What is stored was there before, or is new.
LEMMA IssuingStores ==
    ASSUME TypeOK, TokensAreIssued, NEW s \in Senders, Issuing(s)
    PROVE  \E u : \A w \in Users, k \in Kinds :
              /\ row'[w][k] = row[w][k] \/ row'[w][k] = None \/ (w = u /\ Fresh(s, row'[w][k], k))
              /\ acct'[w].col[k] = acct[w].col[k] \/ acct'[w].col[k] = None \/ (w = u /\ Fresh(s, acct'[w].col[k], k))
<1>1. CASE Decides(s) \/ WroteNothing(s) \/ DiscardStops(s)
  BY <1>1 DEF Decides, WroteNothing, DiscardStops
<1>2. CASE ColumnDropped(s) \/ RowDropped(s)
  BY <1>2 DEF ColumnDropped, RowDropped
<1>3. ASSUME NEW u \in Users, NEW a \in Accounts, NEW b \in Accounts, NEW toks \in SUBSET Tokens, Wrote(s, u, a, b, toks)
      PROVE  \A w \in Users, k \in Kinds :
                /\ row'[w][k] = row[w][k] \/ row'[w][k] = None \/ (w = u /\ Fresh(s, row'[w][k], k))
                /\ acct'[w].col[k] = acct[w].col[k] \/ acct'[w].col[k] = None \/ (w = u /\ Fresh(s, acct'[w].col[k], k))
  <2>0. Past(s)' /\ req[s].st = "ready"
    BY <1>3, IssuingKeeps DEF Wrote, Past
  <2>1. ASSUME NEW t \in toks PROVE Fresh(s, t, t.kind)
    BY <1>3, <2>0, <2>1 DEF Fresh, Wrote, Issues
  <2>2. ASSUME NEW k \in Kinds
        PROVE  /\ row'[u][k] = row[u][k] \/ row'[u][k] = None \/ Fresh(s, row'[u][k], k)
               /\ acct'[u].col[k] = acct[u].col[k] \/ acct'[u].col[k] = None \/ Fresh(s, acct'[u].col[k], k)
    <3>1. row'[u][k] = row[u][k] \/ row'[u][k] = None \/ Fresh(s, row'[u][k], k)
      BY <1>3, <2>1 DEF Wrote, Upserts
    <3>2. b.col[k] = a.col[k] \/ b.col[k] = None \/ Fresh(s, b.col[k], k)
      BY <1>3, <2>1 DEF Wrote, Issues
    <3>3. a = acct[u] \/ a.col[k] = None
      BY <1>3 DEF Wrote, Target
    <3>4. acct'[u] = b
      BY <1>3 DEF Wrote, TypeOK
    <3> QED
      BY <3>1, <3>2, <3>3, <3>4
  <2>3. \A w \in Users \ {u} : row'[w] = row[w] /\ acct'[w] = acct[w]
    BY <1>3 DEF Wrote, TypeOK
  <2> QED
    BY <2>2, <2>3
<1> QED
  BY <1>1, <1>2, <1>3 DEF Issuing

LEMMA RedeemingStores ==
    ASSUME TypeOK, NEW v \in Verifiers, Redeeming(v), NEW w \in Users, NEW k \in Kinds
    PROVE  /\ row'[w][k] = row[w][k] \/ row'[w][k] = None
           /\ acct'[w].col[k] = acct[w].col[k] \/ acct'[w].col[k] = None
<1>1. CASE Reads(v) \/ ReadsHalf(v) \/ Exchanges(v)
  BY <1>1 DEF Reads, ReadsHalf, Exchanges
<1>2. ASSUME NEW b \in Accounts, Halves(v, b)
      PROVE  /\ row'[w][k] = row[w][k] \/ row'[w][k] = None
             /\ acct'[w].col[k] = acct[w].col[k] \/ acct'[w].col[k] = None
  BY <1>2 DEF Halves, TypeOK
<1>3. ASSUME NEW b \in Accounts, Redeemed(v, b)
      PROVE  /\ row'[w][k] = row[w][k] \/ row'[w][k] = None
             /\ acct'[w].col[k] = acct[w].col[k] \/ acct'[w].col[k] = None
  BY <1>3 DEF Redeemed, TypeOK, NoRows
<1> QED
  BY <1>1, <1>2, <1>3 DEF Redeeming

-----------------------------------------------------------------------------
\* The invariant, part by part.
LEMMA IssuedIsPast == ASSUME NEW t PROVE Issued(t) <=> Past(t.by)
BY DEF Issued, Past

LEMMA ReadyIsNotPast == ASSUME NEW s, req[s].st \in {"ready", "idle"} PROVE ~Past(s)
BY DEF Past

\* TokensAreIssued is preserved.
LEMMA TokensIssued ==
    ASSUME TypeOK, TokensAreIssued, TypeOK', NEW s \in Senders, Issuing(s)
    PROVE  TokensAreIssued'
<1>1. PICK u : \A w \in Users, k \in Kinds :
              /\ row'[w][k] = row[w][k] \/ row'[w][k] = None \/ (w = u /\ Fresh(s, row'[w][k], k))
              /\ acct'[w].col[k] = acct[w].col[k] \/ acct'[w].col[k] = None \/ (w = u /\ Fresh(s, acct'[w].col[k], k))
  BY IssuingStores
<1>2. /\ \A o \in Senders \ {s} : req'[o] = req[o]
      /\ \A o \in Senders : Past(o) => Past(o)'
      /\ spent' = spent /\ inbox \subseteq inbox' /\ refused \subseteq refused' /\ \A w \in Verifiers : Same(w)
  BY IssuingKeeps
<1>3. ASSUME NEW t \in Tokens, Issued(t) PROVE Issued(t)'
  BY <1>2, <1>3 DEF Issued, Past, Tokens
<1>4. ASSUME NEW w \in Users, NEW k \in Kinds
      PROVE  /\ row'[w][k] # None => row'[w][k].kind = k /\ Issued(row[w][k])'
             /\ acct'[w].col[k] # None => acct'[w].col[k].kind = k /\ Issued(acct[w].col[k])'
  <2>1. row[w][k] \in Tokens \cup {None} /\ acct[w].col[k] \in Tokens \cup {None}
    BY DEF TypeOK, Accounts
  <2>2. \A t : Fresh(s, t, k) => t.kind = k /\ Issued(t)'
    BY DEF Fresh, Issued, Past
  <2> QED
    BY <1>1, <1>3, <2>1, <2>2 DEF TokensAreIssued, Issued
<1>5. \A t \in (inbox \cup spent)' : Issued(t)'
  <2>1. ASSUME NEW t \in inbox', t \notin inbox PROVE Issued(t)'
    <3>1. PICK v \in Users, a \in Accounts, b \in Accounts, toks \in SUBSET Tokens : Wrote(s, v, a, b, toks)
      BY <2>1 DEF Issuing, Decides, WroteNothing, ColumnDropped, RowDropped, DiscardStops
    <3>2. t \in toks /\ t.by = s /\ req[s].st = "ready"
      BY <2>1, <3>1 DEF Wrote, Issues
    <3>3. Past(s)'
      BY <3>2, IssuingKeeps
    <3> QED
      BY <3>2, <3>3 DEF Issued, Past
  <2>2. \A t \in inbox \cup spent : t \in Tokens /\ Issued(t)
    BY DEF TokensAreIssued, TypeOK
  <2> QED
    BY <1>2, <1>3, <2>1, <2>2
<1>6. ASSUME NEW o \in Senders
      PROVE  /\ \A t \in req'[o].toks : t.by = o /\ t.via # "admin"
             /\ req'[o].st \in {"refused", "cleared"} => o \in refused' /\ req'[o].toks # {}
             /\ o \in refused' => req'[o].st \in {"refused", "cleared", "done"}
  <2>0. /\ \A t \in req[o].toks : t.by = o /\ t.via # "admin"
        /\ req[o].st \in {"refused", "cleared"} => o \in refused /\ req[o].toks # {}
        /\ o \in refused => Past(o)
    BY DEF TokensAreIssued, Past
  <2>1. CASE o # s
    <3>1. o \in refused' => o \in refused
      BY <2>1 DEF Issuing, Decides, WroteNothing, ColumnDropped, RowDropped, DiscardStops, Wrote
    <3> QED
      BY <1>2, <2>0, <2>1, <3>1 DEF Past
  <2>2. CASE o = s
    <3>0. req \in [Senders -> Reqs] /\ req[s].toks \in SUBSET Tokens
      BY DEF TypeOK, Reqs
    <3>1. CASE Decides(s)
      BY <2>0, <2>2, <3>0, <3>1 DEF Decides, Past
    <3>2. CASE WroteNothing(s) \/ DiscardStops(s)
      BY <2>0, <2>2, <3>0, <3>2, DoneReqIs DEF WroteNothing, DiscardStops
    <3>3. CASE ColumnDropped(s)
      <4>1. PICK x \in Reqs : x.st = "cleared" /\ x.toks = req[s].toks /\ req' = [req EXCEPT ![s] = x]
        BY <3>3, ClearedTo DEF ColumnDropped
      <4> QED
        BY <2>0, <2>2, <3>0, <3>3, <4>1 DEF ColumnDropped
    <3>4. CASE RowDropped(s)
      <4>1. CASE req' = [req EXCEPT ![s] = DoneReq]
        BY <2>2, <3>0, <3>4, <4>1, DoneReqIs
      <4>2. ASSUME NEW left \in SUBSET req[s].toks, req' = [req EXCEPT ![s].st = "refused", ![s].toks = left], left # {}
            PROVE  /\ \A t \in req'[o].toks : t.by = o /\ t.via # "admin"
                   /\ req'[o].st \in {"refused", "cleared"} => o \in refused' /\ req'[o].toks # {}
                   /\ o \in refused' => req'[o].st \in {"refused", "cleared", "done"}
        <5>1. left \in SUBSET Tokens
          BY <3>0
        <5>2. PICK x \in Reqs : x.st = "refused" /\ x.toks = left /\ req' = [req EXCEPT ![s] = x]
          BY <4>2, <5>1, RefusedTo
        <5> QED
          BY <2>0, <2>2, <3>0, <3>4, <4>2, <5>2 DEF RowDropped
      <4> QED
        BY <3>4, <4>1, <4>2 DEF RowDropped
    <3>5. ASSUME NEW v \in Users, NEW a \in Accounts, NEW b \in Accounts, NEW toks \in SUBSET Tokens, Wrote(s, v, a, b, toks)
          PROVE  /\ \A t \in req'[o].toks : t.by = o /\ t.via # "admin"
                 /\ req'[o].st \in {"refused", "cleared"} => o \in refused' /\ req'[o].toks # {}
                 /\ o \in refused' => req'[o].st \in {"refused", "cleared", "done"}
      <4>1. CASE req' = [req EXCEPT ![s] = DoneReq]
        BY <2>2, <3>0, <4>1, DoneReqIs
      <4>2. CASE /\ req' = [req EXCEPT ![s].st = "refused", ![s].toks = toks] /\ toks # {}
                 /\ refused' = refused \cup {s} /\ req[s].send \notin Links
        <5>1. PICK x \in Reqs : x.st = "refused" /\ x.toks = toks /\ req' = [req EXCEPT ![s] = x]
          BY <4>2, RefusedTo
        <5>2. \A t \in toks : t.by = s /\ t.via # "admin"
          BY <3>5, <4>2 DEF Wrote, Issues
        <5> QED
          BY <2>2, <3>0, <4>2, <5>1, <5>2
      <4> QED
        BY <3>5, <4>1, <4>2 DEF Wrote
    <3> QED
      BY <3>1, <3>2, <3>3, <3>4, <3>5 DEF Issuing
  <2> QED
    BY <2>1, <2>2
<1>7. ASSUME NEW w \in Verifiers, Under(w)'
      PROVE  /\ ver'[w].tok \in inbox' /\ ver'[w].u \in Users
             /\ ver'[w].form = "nonce" <=> ver'[w].tok.kind = "reauthentication"
             /\ ver'[w].st = "tokens" => OfChange(ver'[w].tok)
  BY <1>2, <1>7 DEF TokensAreIssued, Same, Under
<1> QED
  BY <1>4, <1>5, <1>6, <1>7 DEF TokensAreIssued, OfChange, Under, Issued

LEMMA TokensRedeemed ==
    ASSUME TypeOK, TokensAreIssued, TypeOK', NEW v \in Verifiers, Redeeming(v)
    PROVE  TokensAreIssued'
<1>1. \A w \in Users, k \in Kinds : /\ row'[w][k] = row[w][k] \/ row'[w][k] = None
                                    /\ acct'[w].col[k] = acct[w].col[k] \/ acct'[w].col[k] = None
  BY RedeemingStores
<1>2. UNCHANGED <<req, inbox, refused>> /\ \A w \in Verifiers \ {v} : Same(w)
  BY RedeemingKeeps
<1>3. \A t \in spent' : t \in spent \cup inbox
  <2>1. Under(v) => ver[v].tok \in inbox
    BY DEF TokensAreIssued
  <2> QED
    BY <2>1 DEF Redeeming, Reads, ReadsHalf, Exchanges, Halves, Redeemed, Under
<1>4. ver' \in [Verifiers -> Vers] /\ ver \in [Verifiers -> Vers]
  BY DEF TypeOK
<1>5. ASSUME Under(v)'
      PROVE  /\ ver'[v].tok \in inbox' /\ ver'[v].u \in Users
             /\ ver'[v].form = "nonce" <=> ver'[v].tok.kind = "reauthentication"
             /\ ver'[v].st = "tokens" => OfChange(ver'[v].tok)
  <2>1. CASE Reads(v)
    <3>1. PICK t \in inbox, u \in Users, x \in Vers : ReadTo(v, t, u, x)
      BY <2>1 DEF Reads
    <3> QED
      BY <1>2, <1>4, <3>1 DEF ReadTo
  <2>2. CASE ReadsHalf(v)
    BY <1>2, <1>4, <2>2 DEF ReadsHalf, TokensAreIssued, Under
  <2>3. CASE Exchanges(v)
    BY <1>4, <1>5, <2>3 DEF Exchanges, Under
  <2>4. ASSUME NEW b \in Accounts, Halves(v, b) \/ Redeemed(v, b) PROVE FALSE
    <3>1. PICK x \in Vers : ver' = [Raced(ver[v].u, v) EXCEPT ![v] = x] /\ x.st \in {"half", "code", "session"}
      BY <2>4 DEF Halves, Redeemed, Answered
    <3>2. ver[v].u \in Users
      BY <2>4 DEF Halves, Redeemed
    <3> QED
      BY <1>4, <1>5, <3>1, <3>2, RacedIs DEF Under
  <2> QED
    BY <2>1, <2>2, <2>3, <2>4 DEF Redeeming
<1>6. ASSUME NEW w \in Verifiers \ {v}, Under(w)'
      PROVE  /\ ver'[w].tok \in inbox' /\ ver'[w].u \in Users
             /\ ver'[w].form = "nonce" <=> ver'[w].tok.kind = "reauthentication"
             /\ ver'[w].st = "tokens" => OfChange(ver'[w].tok)
  BY <1>2, <1>6 DEF TokensAreIssued, Same, Under
<1>7. \A w \in Users, k \in Kinds :
          /\ row'[w][k] # None => row'[w][k].kind = k /\ Issued(row[w][k])'
          /\ acct'[w].col[k] # None => acct'[w].col[k].kind = k /\ Issued(acct[w].col[k])'
  BY <1>1, <1>2 DEF TokensAreIssued, Issued
<1>8. \A t \in (inbox \cup spent)' : Issued(t)'
  BY <1>2, <1>3 DEF TokensAreIssued, Issued
<1> QED
  BY <1>2, <1>5, <1>6, <1>7, <1>8 DEF TokensAreIssued, OfChange, Under, Issued

\* A redemption under way after a step of its own has just read.
HasRead(v, t, u) ==
    /\ ver[v].st = "idle" /\ ver'[v].st = "read" /\ ver'[v].tok = t /\ ver'[v].u = u /\ ver'[v].seen = Seen(u)
    /\ ~ver'[v].raced
    /\ row[u][t.kind] = t \/ acct[u].col[t.kind] = t
    /\ OfChange(t) => row[u][t.kind] = t

HasReadHalf(v) ==
    LET a == acct[ver[v].u]
    IN  /\ ver[v].st = "read" /\ OfChange(ver[v].tok) /\ ver'[v].st = "tokens"
        /\ ver'[v].tok = ver[v].tok /\ ver'[v].u = ver[v].u /\ ver'[v].seen = ver[v].seen
        /\ ver'[v].raced = ver[v].raced /\ ver'[v].status = a.status
        /\ \/ ver'[v].half \in {"current", "new"} /\ a.col[ver'[v].half] = ver[v].tok
           \/ ver'[v].half = "none" /\ a.col["current"] # ver[v].tok /\ a.col["new"] # ver[v].tok

\* Who is in the middle of a redemption was so before, or has just read.
LEMMA UnderIs ==
    ASSUME TypeOK, TokensAreIssued, NEW v \in Verifiers, Redeeming(v), Under(v)'
    PROVE  /\ (\E t \in inbox, u \in Users : HasRead(v, t, u)) \/ HasReadHalf(v)
           /\ UNCHANGED <<now, conf, acct, row, flow, req, inbox, spent, refused, outdated>>
<1>0. ver \in [Verifiers -> Vers]
  BY DEF TypeOK
<1>1. CASE Reads(v)
  <2>1. PICK t \in inbox, u \in Users, x \in Vers : ReadTo(v, t, u, x)
    BY <1>1 DEF Reads
  <2>2. HasRead(v, t, u)
    BY <1>0, <1>1, <2>1 DEF Reads, ReadTo, HasRead
  <2> QED
    BY <1>1, <2>2 DEF Reads
<1>2. CASE ReadsHalf(v)
  BY <1>0, <1>2 DEF ReadsHalf, HasReadHalf
<1>3. CASE Exchanges(v)
  BY <1>0, <1>3 DEF Exchanges, Under
<1>4. ASSUME NEW b \in Accounts, Halves(v, b) \/ Redeemed(v, b) PROVE FALSE
  <2>1. PICK x \in Vers : ver' = [Raced(ver[v].u, v) EXCEPT ![v] = x] /\ x.st \in {"half", "code", "session"}
    BY <1>4 DEF Halves, Redeemed, Answered
  <2>2. ver[v].u \in Users
    BY <1>4 DEF Halves, Redeemed
  <2> QED
    BY <2>1, <2>2, RacedIs DEF Under
<1> QED
  BY <1>1, <1>2, <1>3, <1>4 DEF Redeeming

\* OneHome is preserved: the tokens of a request go to one account.
LEMMA KeptBy ==
    ASSUME TypeOK, TokensAreIssued, NEW u \in Users, NEW s, Keeps(u, s)
    PROVE  s \in Senders /\ Past(s)
<1>1. PICK k \in Kinds : \/ row[u][k] # None /\ row[u][k].by = s
                         \/ acct[u].col[k] # None /\ acct[u].col[k].by = s
  BY DEF Keeps
<1>2. row[u][k] \in Tokens \cup {None} /\ acct[u].col[k] \in Tokens \cup {None}
  BY DEF TypeOK, Accounts
<1> QED
  BY <1>1, <1>2 DEF TokensAreIssued, Issued, Past, Tokens

LEMMA HomeIssued ==
    ASSUME TypeOK, TokensAreIssued, OneHome, NEW s \in Senders, Issuing(s)
    PROVE  OneHome'
<1>1. PICK u : \A w \in Users, k \in Kinds :
              /\ row'[w][k] = row[w][k] \/ row'[w][k] = None \/ (w = u /\ Fresh(s, row'[w][k], k))
              /\ acct'[w].col[k] = acct[w].col[k] \/ acct'[w].col[k] = None \/ (w = u /\ Fresh(s, acct'[w].col[k], k))
  BY IssuingStores
<1>2. ASSUME NEW w \in Users, NEW o \in Senders, Keeps(w, o)'
      PROVE  Keeps(w, o) \/ (w = u /\ o = s /\ req[s].st = "ready")
  BY <1>1, <1>2 DEF Keeps, Fresh
<1>3. ASSUME req[s].st = "ready", NEW w \in Users PROVE ~Keeps(w, s)
  BY <1>3, KeptBy DEF Past
<1>4. ASSUME NEW o \in Senders, NEW w \in Users, NEW x \in Users, Keeps(w, o)', Keeps(x, o)' PROVE w = x
  BY <1>2, <1>3, <1>4 DEF OneHome
<1>5. ASSUME NEW v \in Verifiers, NEW w \in Users, Under(v)', Keeps(w, ver[v].tok.by)' PROVE w = ver'[v].u
  <2>1. Under(v) /\ ver'[v].tok = ver[v].tok /\ ver'[v].u = ver[v].u
    BY <1>5, IssuingKeeps DEF Under, Same
  <2>2. ver[v].tok \in inbox /\ ver[v].tok.by \in Senders /\ Past(ver[v].tok.by)
    BY <2>1 DEF TokensAreIssued, TypeOK, Tokens, Issued, Past
  <2>3. Keeps(w, ver[v].tok.by)
    <3>1. \E k \in Kinds : \/ row'[w][k] # None /\ row'[w][k].by = ver[v].tok.by
                           \/ acct'[w].col[k] # None /\ acct'[w].col[k].by = ver[v].tok.by
      BY <1>5, <2>1 DEF Keeps
    <3> QED
      BY <1>1, <2>2, <3>1 DEF Keeps, Fresh, Past
  <2> QED
    BY <2>1, <2>3 DEF OneHome
<1> QED
  BY <1>4, <1>5 DEF OneHome

LEMMA HomeRedeemed ==
    ASSUME TypeOK, TokensAreIssued, OneHome, NEW v \in Verifiers, Redeeming(v)
    PROVE  OneHome'
<1>1. ASSUME NEW w \in Users, NEW o, Keeps(w, o)' PROVE Keeps(w, o)
  BY <1>1, RedeemingStores DEF Keeps
<1>2. ASSUME NEW x \in Verifiers, NEW w \in Users, Under(x)', Keeps(w, ver'[x].tok.by) PROVE w = ver'[x].u
  <2>1. CASE x # v
    <3>1. Under(x) /\ ver'[x].tok = ver[x].tok /\ ver'[x].u = ver[x].u
      BY <1>2, <2>1, RedeemingKeeps DEF Under, Same
    <3> QED
      BY <1>2, <3>1 DEF OneHome
  <2>2. CASE x = v
    <3>1. CASE HasReadHalf(v)
      BY <1>2, <2>2, <3>1 DEF HasReadHalf, OneHome, Under
    <3>2. ASSUME NEW t \in inbox, NEW u \in Users, HasRead(v, t, u) PROVE w = ver'[x].u
      <4>1. t \in Tokens /\ t.kind \in Kinds /\ t.by \in Senders /\ t # None
        BY TokenAssumption DEF TypeOK, Tokens
      <4>2. Keeps(u, t.by)
        BY <3>2, <4>1 DEF HasRead, Keeps
      <4> QED
        BY <1>2, <2>2, <3>2, <4>1, <4>2 DEF HasRead, OneHome
    <3> QED
      BY <1>2, <2>2, <3>1, <3>2, UnderIs
  <2> QED
    BY <2>1, <2>2
<1>3. ASSUME NEW x \in Verifiers, NEW w \in Users, Under(x)', Keeps(w, ver[x].tok.by)' PROVE w = ver'[x].u
  <2>1. \E k \in Kinds : \/ row'[w][k] # None /\ row'[w][k].by = ver'[x].tok.by
                         \/ acct'[w].col[k] # None /\ acct'[w].col[k].by = ver'[x].tok.by
    BY <1>3 DEF Keeps
  <2>2. Keeps(w, ver'[x].tok.by)
    BY <2>1, RedeemingStores DEF Keeps
  <2> QED
    BY <1>2, <1>3, <2>2
<1> QED
  BY <1>1, <1>3 DEF OneHome

\* Where a write leaves the links and codes of its account.
LEMMA WroteLinks ==
    ASSUME TypeOK, NEW s \in Senders, NEW u \in Users, NEW a \in Accounts, NEW b \in Accounts,
           NEW toks \in SUBSET Tokens, Wrote(s, u, a, b, toks)
    PROVE  /\ acct'[u] = b /\ \A w \in Users \ {u} : acct'[w] = acct[w] /\ row'[w] = row[w]
           /\ \A k \in Kinds : \/ row'[u][k] \in toks /\ row'[u][k].kind = k /\ b.col[k] = row'[u][k]
                               \/ row'[u][k] = None
                               \/ /\ row'[u][k] = row[u][k] /\ ~Wipes(req[s])
                                  /\ \A t \in toks : t.kind # k
           /\ acct[u].there => a = acct[u]
           /\ ~acct[u].there => (\A k \in Kinds : row[u][k] = None) /\ req[s].u = None
<1>1. acct'[u] = b /\ \A w \in Users \ {u} : acct'[w] = acct[w] /\ row'[w] = row[w]
  BY DEF Wrote, TypeOK
<1>2. ASSUME NEW k \in Kinds
      PROVE  \/ row'[u][k] \in toks /\ row'[u][k].kind = k /\ b.col[k] = row'[u][k]
             \/ row'[u][k] = None
             \/ /\ row'[u][k] = row[u][k] /\ ~Wipes(req[s])
                /\ \A t \in toks : t.kind # k
  <2>1. CASE \E t \in toks : t.kind = k /\ row'[u][k] = t
    BY <2>1 DEF Wrote, Issues
  <2>2. CASE (\A t \in toks : t.kind # k) /\ row'[u][k] = IF Wipes(req[s]) THEN None ELSE row[u][k]
    BY <2>2
  <2> QED
    BY <2>1, <2>2 DEF Wrote, Upserts
<1>3. /\ acct[u].there => a = acct[u]
      /\ ~acct[u].there => (\A k \in Kinds : row[u][k] = None) /\ req[s].u = None
  BY DEF Wrote, Target
<1> QED
  BY <1>1, <1>2, <1>3

\* LinkMatchesCode is preserved: both stores are written, or one is exempt.
LEMMA MatchIssued ==
    ASSUME TypeOK, TokensAreIssued, LinksBelong, LinkMatchesCode, NEW s \in Senders, Issuing(s)
    PROVE  LinkMatchesCode'
<1>1. CASE Decides(s) \/ WroteNothing(s) \/ DiscardStops(s)
  BY <1>1 DEF Decides, WroteNothing, DiscardStops, LinkMatchesCode, Refused
<1>2. CASE ColumnDropped(s)
  <2>1. s \in refused
    BY <1>2 DEF ColumnDropped, TokensAreIssued
  <2> QED
    BY <1>2, <2>1 DEF ColumnDropped, LinkMatchesCode, Refused
<1>3. CASE RowDropped(s)
  BY <1>3 DEF RowDropped, LinkMatchesCode, Refused
<1>4. ASSUME NEW u \in Users, NEW a \in Accounts, NEW b \in Accounts, NEW toks \in SUBSET Tokens, Wrote(s, u, a, b, toks)
      PROVE  LinkMatchesCode'
  <2>1. refused \subseteq refused' /\ outdated \subseteq outdated' /\ outdated' = outdated \cup Outdated(s, u)
    BY <1>4 DEF Wrote
  <2>2. ASSUME NEW k \in Kinds, row'[u][k] # None
        PROVE  b.col[k] = row'[u][k] \/ Refused(row[u][k])' \/ (k = "current" /\ u \in outdated')
    <3>1. CASE row'[u][k] \in toks /\ b.col[k] = row'[u][k]
      BY <3>1
    <3>2. CASE row'[u][k] = row[u][k] /\ ~Wipes(req[s]) /\ \A t \in toks : t.kind # k
      <4>1. acct[u].there /\ a = acct[u]
        BY <1>4, <2>2, <3>2, WroteLinks
      <4>2. acct[u].col[k] = row[u][k] \/ Refused(row[u][k]) \/ (k = "current" /\ u \in outdated)
        BY <2>2, <3>2 DEF LinkMatchesCode
      <4>3. \/ b.col[k] = acct[u].col[k]
            \/ k = "current" /\ req[s].send = "email_change" /\ ~(conf.secure /\ req[s].mail # None)
        BY <1>4, <3>2, <4>1 DEF Wrote, Issues
      <4>4. k = "current" => conf.secure /\ acct[u].addr["mail"] # None
        BY <2>2, <3>2 DEF LinksBelong
      <4> QED
        BY <2>1, <3>2, <4>2, <4>3, <4>4 DEF Refused, Outdated
    <3> QED
      BY <1>4, <2>2, <3>1, <3>2, WroteLinks
  <2> QED
    BY <1>4, <2>1, <2>2, WroteLinks DEF LinkMatchesCode, Refused
<1> QED
  BY <1>1, <1>2, <1>3, <1>4 DEF Issuing

LEMMA MatchRedeemed ==
    ASSUME TypeOK, LinkMatchesCode, NEW v \in Verifiers, Redeeming(v)
    PROVE  LinkMatchesCode'
<1>1. CASE Reads(v) \/ ReadsHalf(v) \/ Exchanges(v)
  BY <1>1 DEF Reads, ReadsHalf, Exchanges, LinkMatchesCode, Refused
<1>2. ASSUME NEW b \in Accounts, Halves(v, b) PROVE LinkMatchesCode'
  BY <1>2 DEF Halves, LinkMatchesCode, Refused, TypeOK
<1>3. ASSUME NEW b \in Accounts, Redeemed(v, b) PROVE LinkMatchesCode'
  BY <1>3 DEF Redeemed, LinkMatchesCode, Refused, TypeOK, NoRows
<1> QED
  BY <1>1, <1>2, <1>3 DEF Redeeming

\* HalvesAreTokens is preserved.
LEMMA HalvesIssued ==
    ASSUME TypeOK, TokensAreIssued, HalvesAreTokens, NEW s \in Senders, Issuing(s)
    PROVE  HalvesAreTokens'
<1> SUFFICES ASSUME NEW v \in Verifiers, ver'[v].st = "tokens"
             PROVE  \/ ver'[v].half = ver'[v].tok.kind
                    \/ ver'[v].half = "none" /\ acct'[ver'[v].u].col[ver'[v].tok.kind] # ver'[v].tok
  BY DEF HalvesAreTokens
<1>1. Same(v)
  BY IssuingKeeps
<1>2. /\ ver[v].tok \in Tokens /\ ver[v].tok.kind \in Kinds /\ Past(ver[v].tok.by) /\ ver[v].u \in Users /\ ver[v].tok # None
  BY <1>1, TokenAssumption DEF Same, TokensAreIssued, Under, TypeOK, Tokens, Issued, Past
<1>3. acct'[ver[v].u].col[ver[v].tok.kind] = ver[v].tok => acct[ver[v].u].col[ver[v].tok.kind] = ver[v].tok
  BY <1>2, IssuingStores DEF Fresh, Past
<1> QED
  BY <1>1, <1>3 DEF HalvesAreTokens, Same

LEMMA HalvesRedeemed ==
    ASSUME TypeOK, TokensAreIssued, HalvesAreTokens, NEW v \in Verifiers, Redeeming(v)
    PROVE  HalvesAreTokens'
<1> SUFFICES ASSUME NEW w \in Verifiers, ver'[w].st = "tokens"
             PROVE  \/ ver'[w].half = ver'[w].tok.kind
                    \/ ver'[w].half = "none" /\ acct'[ver'[w].u].col[ver'[w].tok.kind] # ver'[w].tok
  BY DEF HalvesAreTokens
<1>1. CASE w # v
  <2>1. Same(w)
    BY <1>1, RedeemingKeeps
  <2>2. ver[w].tok \in Tokens /\ ver[w].tok.kind \in Kinds /\ ver[w].u \in Users /\ ver[w].tok # None
    BY <2>1, TokenAssumption DEF Same, TokensAreIssued, Under, TypeOK, Tokens
  <2>3. acct'[ver[w].u].col[ver[w].tok.kind] = ver[w].tok => acct[ver[w].u].col[ver[w].tok.kind] = ver[w].tok
    BY <2>2, RedeemingStores
  <2> QED
    BY <2>1, <2>3 DEF HalvesAreTokens, Same
<1>2. CASE w = v
  <2>1. Under(v)'
    BY <1>2 DEF Under
  <2>2. HasReadHalf(v) /\ acct' = acct
    BY <1>2, <2>1, UnderIs DEF HasRead
  <2>3. ver[v].tok \in Tokens /\ ver[v].u \in Users /\ ver[v].tok # None
    BY <2>2, TokenAssumption DEF HasReadHalf, TokensAreIssued, Under, TypeOK
  <2>4. \A k \in Kinds : acct[ver[v].u].col[k] = ver[v].tok => ver[v].tok.kind = k
    BY <2>3 DEF TokensAreIssued
  <2> QED
    BY <1>2, <2>2, <2>3, <2>4 DEF HasReadHalf, OfChange, Kinds
<1> QED
  BY <1>1, <1>2

\* SpentIsGone is preserved: a new token is not a spent one, and a redemption clears its own.
LEMMA SpentIssued ==
    ASSUME TypeOK, TokensAreIssued, SpentIsGone, NEW s \in Senders, Issuing(s)
    PROVE  SpentIsGone'
<1> SUFFICES ASSUME NEW t \in spent', NEW u \in Users
             PROVE  acct'[u].col[t.kind] # t /\ (row'[u][t.kind] = t => Caught(u, t)')
  BY DEF SpentIsGone
<1>1. t \in spent /\ t \in Tokens /\ t.kind \in Kinds /\ Past(t.by) /\ t # None
  BY IssuingKeeps, TokenAssumption DEF TypeOK, Tokens, TokensAreIssued, Issued, Past
<1>2. Caught(u, t) => Caught(u, t)'
  BY IssuingKeeps DEF Caught, Refused
<1>3. /\ acct'[u].col[t.kind] = t => acct[u].col[t.kind] = t
      /\ row'[u][t.kind] = t => row[u][t.kind] = t
  BY <1>1, IssuingStores DEF Fresh, Past
<1> QED
  BY <1>1, <1>2, <1>3 DEF SpentIsGone

LEMMA SpentRedeemed ==
    ASSUME TypeOK, TokensAreIssued, OneHome, LinkMatchesCode, HalvesAreTokens, SpentIsGone, NEW v \in Verifiers, Redeeming(v)
    PROVE  SpentIsGone'
<1> SUFFICES ASSUME NEW t \in spent', NEW u \in Users
             PROVE  acct'[u].col[t.kind] # t /\ (row'[u][t.kind] = t => Caught(u, t)')
  BY DEF SpentIsGone
<1>1. Caught(u, t) => Caught(u, t)'
  BY RedeemingKeeps DEF Caught, Refused
<1>2. t \in spent \/ (Under(v) /\ t = ver[v].tok)
  BY DEF Redeeming, Reads, ReadsHalf, Exchanges, Halves, Redeemed, Under
<1>3. t \in Tokens /\ t.kind \in Kinds /\ t # None
  BY <1>2, TokenAssumption DEF TypeOK, Tokens, TokensAreIssued
<1>4. /\ acct'[u].col[t.kind] = t => acct[u].col[t.kind] = t
      /\ row'[u][t.kind] = t => row[u][t.kind] = t
  BY <1>3, RedeemingStores
<1>5. CASE t \in spent
  BY <1>1, <1>4, <1>5 DEF SpentIsGone
<1>6. CASE Under(v) /\ t = ver[v].tok /\ t \notin spent
  <2>1. CASE u # ver[v].u
    <3>1. ~Keeps(u, t.by)
      BY <1>6, <2>1 DEF OneHome
    <3> QED
      BY <1>3, <1>4, <3>1 DEF Keeps
  <2>2. CASE u = ver[v].u
    <3>1. ASSUME NEW b \in Accounts, Redeemed(v, b) PROVE acct'[u].col[t.kind] # t /\ row'[u][t.kind] # t
      BY <1>3, <1>6, <2>2, <3>1 DEF Redeemed, TypeOK, NoRows
    <3>2. ASSUME NEW b \in Accounts, Halves(v, b)
          PROVE  acct'[u].col[t.kind] # t /\ (row'[u][t.kind] = t => Caught(u, t))
      <4>1. \/ ver[v].half = t.kind
            \/ ver[v].half = "none" /\ acct[u].col[t.kind] # t
        BY <1>6, <2>2, <3>2 DEF Halves, HalvesAreTokens
      <4>2. /\ acct'[u].col[t.kind] = IF t.kind = ver[v].half THEN None ELSE acct[u].col[t.kind]
            /\ row'[u][t.kind] = IF t.kind = ver[v].half THEN None ELSE row[u][t.kind]
        BY <1>3, <2>2, <3>2 DEF Halves, TypeOK
      <4>3. row[u][t.kind] = t => acct[u].col[t.kind] = t \/ Caught(u, t)
        BY <1>3 DEF LinkMatchesCode, Caught
      <4> QED
        BY <1>3, <4>1, <4>2, <4>3
    <3>3. CASE Reads(v) \/ ReadsHalf(v) \/ Exchanges(v)
      BY <1>6, <3>3 DEF Reads, ReadsHalf, Exchanges
    <3> QED
      BY <1>1, <3>1, <3>2, <3>3 DEF Redeeming
  <2> QED
    BY <2>1, <2>2
<1> QED
  BY <1>2, <1>5, <1>6

\* FlowsAreUsedOnce and CodeBuysOneSession are preserved.
LEMMA FlowsIssued ==
    ASSUME TypeOK, TokensAreIssued, FlowsAreUsedOnce, CodeBuysOneSession, NEW s \in Senders, Issuing(s)
    PROVE  FlowsAreUsedOnce' /\ CodeBuysOneSession'
<1>1. /\ \A o \in Senders : Past(o) => Past(o)'
      /\ \A w \in Verifiers : Same(w)
  BY IssuingKeeps
<1>2. \A o \in Senders : flow'[o] = flow[o] \/ (o = s /\ req[s].st = "ready" /\ Past(s)')
  <2>1. ASSUME NEW u \in Users, NEW a \in Accounts, NEW b \in Accounts, NEW toks \in SUBSET Tokens, Wrote(s, u, a, b, toks)
        PROVE  /\ \A o \in Senders \ {s} : flow'[o] = flow[o]
               /\ req[s].st = "ready" /\ Past(s)'
    BY <2>1, CreatedIs, IssuingKeeps DEF Wrote
  <2> QED
    BY <2>1 DEF Issuing, Decides, WroteNothing, ColumnDropped, RowDropped, DiscardStops
<1>3. ASSUME NEW o \in Senders, flow'[o].st # "none" PROVE Past(o)'
  BY <1>1, <1>2, <1>3 DEF FlowsAreUsedOnce, Past
<1>4. ASSUME NEW w \in Verifiers, ver[w].st = "session", ver[w].code # None PROVE flow'[ver[w].code].st = "used"
  <2>1. ver[w].code \in Senders /\ flow[ver[w].code].st = "used"
    BY <1>4 DEF FlowsAreUsedOnce, TypeOK, Vers
  <2>2. ~(ver[w].code = s /\ req[s].st = "ready")
    BY <2>1 DEF FlowsAreUsedOnce
  <2> QED
    BY <1>2, <2>1, <2>2
<1>5. FlowsAreUsedOnce'
  BY <1>1, <1>3, <1>4 DEF FlowsAreUsedOnce, Same, Past
<1>6. CodeBuysOneSession'
  BY <1>1 DEF CodeBuysOneSession, Same
<1> QED
  BY <1>5, <1>6

LEMMA FlowsRedeemed ==
    ASSUME TypeOK, TokensAreIssued, FlowsAreUsedOnce, CodeBuysOneSession, NEW v \in Verifiers, Redeeming(v)
    PROVE  FlowsAreUsedOnce' /\ CodeBuysOneSession'
<1>0. /\ ver \in [Verifiers -> Vers] /\ req' = req
      /\ \A w \in Verifiers \ {v} : Same(w)
  BY RedeemingKeeps DEF TypeOK
<1>1. CASE Reads(v) \/ ReadsHalf(v)
  <2>1. ver'[v].st \in {"read", "tokens"} /\ ver'[v].code = None /\ flow' = flow
    <3>1. CASE Reads(v)
      <4>1. PICK t \in inbox, u \in Users, x \in Vers : ReadTo(v, t, u, x)
        BY <3>1 DEF Reads
      <4> QED
        BY <1>0, <3>1, <4>1 DEF Reads, ReadTo
    <3>2. CASE ReadsHalf(v)
      BY <1>0, <3>2 DEF ReadsHalf, FlowsAreUsedOnce
    <3> QED
      BY <1>1, <3>1, <3>2
  <2>2. FlowsAreUsedOnce'
    BY <1>0, <2>1 DEF FlowsAreUsedOnce, Same
  <2>3. CodeBuysOneSession'
    BY <1>0, <2>1 DEF CodeBuysOneSession, Same
  <2> QED
    BY <2>2, <2>3
<1>2. ASSUME NEW b \in Accounts, Halves(v, b) \/ Redeemed(v, b) PROVE FlowsAreUsedOnce' /\ CodeBuysOneSession'
  <2>1. PICK x \in Vers : /\ ver' = [Raced(ver[v].u, v) EXCEPT ![v] = x]
                          /\ \/ x.st \in {"half", "session"} /\ x.code = None
                             \/ x.st = "code" /\ x.code # None
    BY <1>2 DEF Halves, Redeemed, Answered
  <2>2. ver[v].u \in Users
    BY <1>2 DEF Halves, Redeemed
  <2>3. ver'[v] = x
    BY <2>1, <2>2, RacedIs
  <2>4. \A o \in Senders : flow'[o].st = flow[o].st
    BY <1>2 DEF Halves, Redeemed, Answered
  <2>5. \A w \in Verifiers : ver[w].code \in Senders \cup {None}
    BY DEF TypeOK, Vers
  <2>6. FlowsAreUsedOnce'
    BY <1>0, <2>1, <2>3, <2>4, <2>5 DEF FlowsAreUsedOnce, Same
  <2>7. CodeBuysOneSession'
    BY <1>0, <2>1, <2>3 DEF CodeBuysOneSession, Same
  <2> QED
    BY <2>6, <2>7
<1>3. CASE Exchanges(v)
  <2>1. /\ ver[v].st = "code" /\ ver[v].code \in Senders /\ flow[ver[v].code].st = "open"
        /\ \A s \in Senders : flow'[s].st = IF s = ver[v].code THEN "used" ELSE flow[s].st
        /\ ver'[v].st = "session" /\ ver'[v].code = ver[v].code
        /\ \A w \in Verifiers \ {v} : ver'[w] = ver[w]
    BY <1>0, <1>3 DEF Exchanges
  <2>2. \A w \in Verifiers : ver[w].code \in Senders \cup {None}
    BY DEF TypeOK, Vers
  <2>3. FlowsAreUsedOnce'
    BY <1>0, <2>1, <2>2 DEF FlowsAreUsedOnce
  <2>4. \A w \in Verifiers \ {v} : ver[w].st = "session" /\ ver[w].code # None => ver[w].code # ver[v].code
    BY <2>1 DEF FlowsAreUsedOnce
  <2>5. CodeBuysOneSession'
    BY <2>1, <2>4 DEF CodeBuysOneSession
  <2> QED
    BY <2>3, <2>5
<1> QED
  BY <1>1, <1>2, <1>3 DEF Redeeming

\* An account that is there stays, and keeps an address if it has one.
LEMMA StaysIssued ==
    ASSUME TypeOK, LinksBelong, NEW s \in Senders, Issuing(s), NEW w \in Users
    PROVE  /\ acct[w].there => acct'[w].there
           /\ acct[w].addr["mail"] # None => acct'[w].addr["mail"] # None
<1>1. CASE Decides(s) \/ WroteNothing(s) \/ DiscardStops(s) \/ RowDropped(s)
  BY <1>1 DEF Decides, WroteNothing, DiscardStops, RowDropped
<1>2. CASE ColumnDropped(s)
  BY <1>2 DEF ColumnDropped
<1>3. ASSUME NEW u \in Users, NEW a \in Accounts, NEW b \in Accounts, NEW toks \in SUBSET Tokens, Wrote(s, u, a, b, toks)
      PROVE  /\ acct[w].there => acct'[w].there
             /\ acct[w].addr["mail"] # None => acct'[w].addr["mail"] # None
  <2>1. CASE w # u
    BY <1>3, <2>1, WroteLinks
  <2>2. CASE w = u
    <3>1. acct'[u] = b /\ (acct[u].there => a = acct[u]) /\ (acct[u].addr["mail"] # None => acct[u].there)
      BY <1>3, WroteLinks DEF LinksBelong
    <3>2. b.there /\ (b.addr["mail"] = a.addr["mail"] \/ (req[s].send = "set_email" /\ b.addr["mail"] = req[s].to))
      BY <1>3 DEF Wrote, Target, Issues
    <3>3. req[s].send = "set_email" => req[s].to # None
      BY <1>3, TokenAssumption DEF Wrote, Known
    <3> QED
      BY <2>2, <3>1, <3>2, <3>3
  <2> QED
    BY <2>1, <2>2
<1> QED
  BY <1>1, <1>2, <1>3 DEF Issuing

\* An account that is there stays, and so does its having an address.
LEMMA StaysRedeemed ==
    ASSUME TypeOK, NEW v \in Verifiers, Redeeming(v), NEW w \in Users
    PROVE  /\ acct'[w].there = acct[w].there
           /\ acct[w].addr["mail"] # None => acct'[w].addr["mail"] # None
           /\ acct'[w].addr["mail"] # acct[w].addr["mail"] => Under(v) /\ ver[v].u = w
<1>1. CASE Reads(v) \/ ReadsHalf(v) \/ Exchanges(v)
  BY <1>1 DEF Reads, ReadsHalf, Exchanges
<1>2. ASSUME NEW b \in Accounts, Halves(v, b)
      PROVE  /\ acct'[w].there = acct[w].there /\ acct'[w].addr = acct[w].addr
  BY <1>2 DEF Halves, TypeOK
<1>3. ASSUME NEW b \in Accounts, Redeemed(v, b)
      PROVE  /\ acct'[w].there = acct[w].there
             /\ acct[w].addr["mail"] # None => acct'[w].addr["mail"] # None
             /\ acct'[w].addr["mail"] # acct[w].addr["mail"] => Under(v) /\ ver[v].u = w
  BY <1>3 DEF Redeemed, Lands, TypeOK
<1> QED
  BY <1>1, <1>2, <1>3 DEF Redeeming

\* RequestsKnow is preserved.
LEMMA KnownIssued ==
    ASSUME TypeOK, TokensAreIssued, RequestsKnow, LinksBelong, NEW s \in Senders, Issuing(s)
    PROVE  RequestsKnow'
<1> SUFFICES ASSUME NEW o \in Senders, req'[o].st = "ready" PROVE Known(req[o])'
  BY DEF RequestsKnow
<1>1. (\A r \in Senders \ {s} : req'[r] = req[r]) /\ conf' = conf
  BY IssuingKeeps
<1>2. \A u \in Users : /\ acct[u].there => acct'[u].there
                       /\ acct[u].addr["mail"] # None => acct'[u].addr["mail"] # None
  BY StaysIssued
<1>3. CASE o # s
  <2>1. Known(req[o]) /\ req'[o] = req[o] /\ req[o].u \in Users \cup {None}
    BY <1>1, <1>3 DEF RequestsKnow, TypeOK, Reqs
  <2> QED
    BY <1>1, <1>2, <2>1 DEF Known
<1>4. CASE o = s
  <2>1. CASE Decides(s)
    <3>1. PICK x \in Reqs : Known(x) /\ req' = [req EXCEPT ![s] = x] /\ acct' = acct
      BY <2>1 DEF Decides
    <3>2. req'[s] = x
      BY <3>1 DEF TypeOK
    <3> QED
      BY <1>1, <1>4, <3>1, <3>2 DEF Known
  <2>2. CASE ~Decides(s)
    <3>1. req[s].st = "ready" \/ Past(s)
      BY <2>2 DEF Issuing, WroteNothing, ColumnDropped, RowDropped, DiscardStops, Wrote, Past
    <3> QED
      BY <1>4, <3>1, IssuingKeeps DEF Past
  <2> QED
    BY <2>1, <2>2
<1> QED
  BY <1>3, <1>4

LEMMA KnownRedeemed ==
    ASSUME TypeOK, TokensAreIssued, RequestsKnow, NEW v \in Verifiers, Redeeming(v)
    PROVE  RequestsKnow'
<1> SUFFICES ASSUME NEW o \in Senders, req'[o].st = "ready" PROVE Known(req[o])'
  BY DEF RequestsKnow
<1>1. req' = req /\ conf' = conf
  BY RedeemingKeeps
<1>2. Known(req[o]) /\ req[o].u \in Users \cup {None}
  BY <1>1 DEF RequestsKnow, TypeOK, Reqs
<1>3. \A u \in Users : /\ acct[u].there => acct'[u].there
                       /\ acct[u].addr["mail"] # None => acct'[u].addr["mail"] # None
  BY StaysRedeemed
<1> QED
  BY <1>1, <1>2, <1>3 DEF Known

\* LinksBelong is preserved.
LEMMA BelongIssued ==
    ASSUME TypeOK, TokensAreIssued, LinksBelong, NEW s \in Senders, Issuing(s)
    PROVE  LinksBelong'
<1>1. ASSUME NEW w \in Users, row'[w]["current"] # None PROVE conf'.secure /\ acct'[w].addr["mail"] # None
  <2>1. CASE row'[w]["current"] = row[w]["current"]
    BY <1>1, <2>1, StaysIssued, IssuingKeeps DEF LinksBelong
  <2>2. CASE row'[w]["current"] # row[w]["current"]
    <3>1. "current" \in Kinds
      BY DEF Kinds
    <3>2. PICK u \in Users, a \in Accounts, b \in Accounts, toks \in SUBSET Tokens : Wrote(s, u, a, b, toks)
      BY <1>1, <2>2, <3>1 DEF Issuing, Decides, WroteNothing, ColumnDropped, RowDropped, DiscardStops
    <3>3. w = u /\ row'[u]["current"] \in toks /\ row'[u]["current"].kind = "current"
      BY <1>1, <2>2, <3>1, <3>2, WroteLinks
    <3>4. conf.secure /\ req[s].mail # None /\ req[s].send \in {"email_change", "link_current"}
      BY <3>2, <3>3 DEF Wrote, Issues, Known, OfChange
    <3>5. req[s].u = u /\ acct[u].addr["mail"] # None
      BY <3>2, <3>4, TokenAssumption DEF Wrote, Known, Target
    <3> QED
      BY <3>3, <3>4, <3>5, StaysIssued, IssuingKeeps
  <2> QED
    BY <2>1, <2>2
<1>2. ASSUME NEW w \in Users, ~acct'[w].there
      PROVE  acct'[w].addr["mail"] = None /\ \A k \in Kinds : row'[w][k] = None /\ acct'[w].col[k] = None
  <2>1. ~acct[w].there
    BY <1>2, StaysIssued
  <2>2. acct[w].addr["mail"] = None /\ \A k \in Kinds : row[w][k] = None /\ acct[w].col[k] = None
    BY <2>1 DEF LinksBelong
  <2>3. CASE Decides(s) \/ WroteNothing(s) \/ DiscardStops(s)
    BY <2>2, <2>3 DEF Decides, WroteNothing, DiscardStops
  <2>4. CASE ColumnDropped(s) \/ RowDropped(s)
    BY <2>2, <2>4 DEF ColumnDropped, RowDropped
  <2>5. ASSUME NEW u \in Users, NEW a \in Accounts, NEW b \in Accounts, NEW toks \in SUBSET Tokens, Wrote(s, u, a, b, toks)
        PROVE  w # u /\ acct'[w] = acct[w] /\ row'[w] = row[w]
    <3>1. acct'[u].there
      <4>1. acct'[u] = b
        BY <2>5, WroteLinks
      <4>2. b.there
        BY <2>5 DEF Wrote, Target, Issues
      <4> QED
        BY <4>1, <4>2
    <3> QED
      BY <1>2, <2>5, <3>1, WroteLinks
  <2> QED
    BY <2>2, <2>3, <2>4, <2>5 DEF Issuing
<1>3. ASSUME NEW v \in Verifiers, Under(v)' PROVE acct'[ver'[v].u].there
  <2>1. Under(v) /\ ver'[v].u = ver[v].u
    BY <1>3, IssuingKeeps DEF Under, Same
  <2>2. ver[v].u \in Users /\ acct[ver[v].u].there
    BY <2>1 DEF TokensAreIssued, LinksBelong
  <2> QED
    BY <2>1, <2>2, StaysIssued
<1> QED
  BY <1>1, <1>2, <1>3 DEF LinksBelong

LEMMA BelongRedeemed ==
    ASSUME TypeOK, TokensAreIssued, LinksBelong, NEW v \in Verifiers, Redeeming(v)
    PROVE  LinksBelong'
<1>1. "current" \in Kinds /\ conf' = conf
  BY RedeemingKeeps DEF Kinds
<1>2. ASSUME NEW w \in Users
      PROVE  /\ acct'[w].there = acct[w].there
             /\ acct[w].addr["mail"] # None => acct'[w].addr["mail"] # None
             /\ ~acct'[w].there => acct'[w].addr["mail"] = acct[w].addr["mail"]
             /\ \A k \in Kinds : /\ row[w][k] = None => row'[w][k] = None
                                 /\ acct[w].col[k] = None => acct'[w].col[k] = None
  BY StaysRedeemed, RedeemingStores DEF LinksBelong
<1>3. ASSUME NEW x \in Verifiers, Under(x)' PROVE acct'[ver'[x].u].there
  <2>1. CASE x # v
    <3>1. Under(x) /\ ver'[x].u = ver[x].u
      BY <1>3, <2>1, RedeemingKeeps DEF Under, Same
    <3> QED
      BY <1>2, <3>1 DEF TokensAreIssued, LinksBelong
  <2>2. CASE x = v
    <3>1. CASE HasReadHalf(v)
      BY <1>2, <2>2, <3>1 DEF HasReadHalf, TokensAreIssued, LinksBelong, Under
    <3>2. ASSUME NEW t \in inbox, NEW u \in Users, HasRead(v, t, u) PROVE acct'[ver'[x].u].there
      <4>1. t.kind \in Kinds /\ t # None
        BY TokenAssumption DEF TypeOK, Tokens
      <4> QED
        BY <1>2, <2>2, <3>2, <4>1 DEF HasRead, LinksBelong
    <3> QED
      BY <1>3, <2>2, <3>1, <3>2, UnderIs
  <2> QED
    BY <2>1, <2>2
<1> QED
  BY <1>1, <1>2, <1>3 DEF LinksBelong

\* UnracedIsCurrent is preserved: a write of another request marks the race.
LEMMA CurrentIssued ==
    ASSUME TypeOK, TokensAreIssued, UnracedIsCurrent, NEW s \in Senders, Issuing(s)
    PROVE  UnracedIsCurrent'
<1> SUFFICES ASSUME NEW v \in Verifiers, Under(v)', ~ver'[v].raced, OfChange(ver[v].tok)'
             PROVE  /\ ver'[v].seen.mail = acct'[ver'[v].u].addr["mail"]
                    /\ ver'[v].seen.change = acct'[ver'[v].u].change
                    /\ row'[ver'[v].u][ver'[v].tok.kind] = ver'[v].tok \/ Refused(ver[v].tok)'
                    /\ ver'[v].st = "tokens" => /\ ver'[v].status = acct'[ver'[v].u].status
                                                /\ ver'[v].half = ver'[v].tok.kind \/ Caught(ver[v].u, ver[v].tok)'
  BY DEF UnracedIsCurrent
<1> DEFINE u == ver[v].u
           t == ver[v].tok
<1>1. Same(v) /\ refused \subseteq refused' /\ outdated \subseteq outdated'
  BY IssuingKeeps
<1>2. Under(v) /\ ~ver[v].raced /\ OfChange(t)
  BY <1>1 DEF Same, Under, OfChange
<1>3. /\ ver[v].seen.mail = acct[u].addr["mail"] /\ ver[v].seen.change = acct[u].change
      /\ row[u][t.kind] = t \/ Refused(t)
      /\ ver[v].st = "tokens" => /\ ver[v].status = acct[u].status
                                 /\ ver[v].half = t.kind \/ Caught(u, t)
      /\ u \in Users /\ t \in Tokens /\ t.kind \in Kinds
  BY <1>2 DEF UnracedIsCurrent, TokensAreIssued, TypeOK, Tokens
<1>4. /\ acct'[u].addr["mail"] = acct[u].addr["mail"] /\ acct'[u].change = acct[u].change
      /\ acct'[u].status = acct[u].status
      /\ row'[u][t.kind] = row[u][t.kind] \/ Refused(t)
  <2>1. CASE Decides(s) \/ WroteNothing(s) \/ DiscardStops(s)
    BY <2>1 DEF Decides, WroteNothing, DiscardStops
  <2>2. CASE ColumnDropped(s)
    BY <1>3, <2>2 DEF ColumnDropped
  <2>3. CASE RowDropped(s)
    <3>1. s \in refused /\ \A o \in req[s].toks : o.by = s
      BY <2>3 DEF RowDropped, TokensAreIssued
    <3> QED
      BY <1>3, <2>3, <3>1 DEF RowDropped, Refused
  <2>4. ASSUME NEW x \in Users, NEW a \in Accounts, NEW b \in Accounts, NEW toks \in SUBSET Tokens, Wrote(s, x, a, b, toks)
        PROVE  acct'[u] = acct[u] /\ row'[u] = row[u]
    <3>1. x # u
      BY <1>2, <2>4, RacedIs, TokenAssumption DEF Wrote
    <3> QED
      BY <1>3, <2>4, <3>1, WroteLinks
  <2> QED
    BY <2>1, <2>2, <2>3, <2>4 DEF Issuing
<1>5. ver'[v].u = u /\ ver'[v].tok = t /\ ver'[v].seen = ver[v].seen /\ ver'[v].st = ver[v].st
      /\ ver'[v].status = ver[v].status /\ ver'[v].half = ver[v].half
  BY <1>1 DEF Same
<1>6. (Refused(t) => Refused(ver[v].tok)') /\ (Caught(u, t) => Caught(ver[v].u, ver[v].tok)')
  BY <1>1, <1>5 DEF Refused, Caught
<1> HIDE DEF u, t
<1> QED
  BY <1>3, <1>4, <1>5, <1>6

LEMMA CurrentRedeemed ==
    ASSUME TypeOK, TokensAreIssued, LinkMatchesCode, UnracedIsCurrent, NEW v \in Verifiers, Redeeming(v)
    PROVE  UnracedIsCurrent'
<1> SUFFICES ASSUME NEW w \in Verifiers, Under(w)', ~ver'[w].raced, OfChange(ver[w].tok)'
             PROVE  /\ ver'[w].seen.mail = acct'[ver'[w].u].addr["mail"]
                    /\ ver'[w].seen.change = acct'[ver'[w].u].change
                    /\ row'[ver'[w].u][ver'[w].tok.kind] = ver'[w].tok \/ Refused(ver[w].tok)'
                    /\ ver'[w].st = "tokens" => /\ ver'[w].status = acct'[ver'[w].u].status
                                                /\ ver'[w].half = ver'[w].tok.kind \/ Caught(ver[w].u, ver[w].tok)'
  BY DEF UnracedIsCurrent
<1>0. UNCHANGED <<refused, outdated>>
  BY RedeemingKeeps
<1>1. CASE w # v
  <2> DEFINE u == ver[w].u
             t == ver[w].tok
  <2>1. Same(w)
    BY <1>1, RedeemingKeeps
  <2>2. Under(w) /\ ~ver[w].raced /\ OfChange(t)
    BY <2>1 DEF Same, Under, OfChange
  <2>3. /\ ver[w].seen.mail = acct[u].addr["mail"] /\ ver[w].seen.change = acct[u].change
        /\ row[u][t.kind] = t \/ Refused(t)
        /\ ver[w].st = "tokens" => /\ ver[w].status = acct[u].status
                                   /\ ver[w].half = t.kind \/ Caught(u, t)
        /\ u \in Users /\ t \in Tokens /\ t.kind \in Kinds
    BY <2>2 DEF UnracedIsCurrent, TokensAreIssued, TypeOK, Tokens
  <2>4. acct'[u] = acct[u] /\ row'[u] = row[u]
    <3>1. CASE Reads(v) \/ ReadsHalf(v) \/ Exchanges(v)
      BY <3>1 DEF Reads, ReadsHalf, Exchanges
    <3>2. ASSUME NEW b \in Accounts, Halves(v, b) \/ Redeemed(v, b) PROVE acct'[u] = acct[u] /\ row'[u] = row[u]
      <4>1. PICK x \in Vers : ver' = [Raced(ver[v].u, v) EXCEPT ![v] = x]
        BY <3>2 DEF Halves, Redeemed, Answered
      <4>2. ver[v].u \in Users
        BY <3>2 DEF Halves, Redeemed
      <4>3. ver'[w] = Raced(ver[v].u, v)[w]
        BY <1>1, <4>1, <4>2, RacedIs
      <4>4. ver[v].u # u
        BY <1>1, <2>2, <4>2, <4>3, RacedIs
      <4>5. acct'[u] = acct[u]
        BY <2>3, <3>2, <4>4 DEF Halves, Redeemed, TypeOK
      <4>6. row'[u] = row[u]
        <5>1. CASE Redeemed(v, b)
          BY <2>3, <4>4, <5>1 DEF Redeemed, TypeOK
        <5>2. CASE Halves(v, b)
          <6>1. row'[u] \in [Kinds -> Tokens \cup {None}] /\ row[u] \in [Kinds -> Tokens \cup {None}]
            BY <2>3, <5>2 DEF Halves, TypeOK
          <6>2. \A k \in Kinds : row'[u][k] = row[u][k]
            BY <2>3, <4>4, <5>2 DEF Halves
          <6> QED
            BY <6>1, <6>2
        <5> QED
          BY <3>2, <5>1, <5>2
      <4> QED
        BY <4>5, <4>6
    <3> QED
      BY <3>1, <3>2 DEF Redeeming
  <2>5. ver'[w].u = u /\ ver'[w].tok = t /\ ver'[w].seen = ver[w].seen /\ ver'[w].st = ver[w].st
        /\ ver'[w].status = ver[w].status /\ ver'[w].half = ver[w].half
    BY <2>1 DEF Same
  <2>6. (Refused(t) => Refused(ver[w].tok)') /\ (Caught(u, t) => Caught(ver[w].u, ver[w].tok)')
    BY <1>0, <2>5 DEF Refused, Caught
  <2> HIDE DEF u, t
  <2> QED
    BY <2>3, <2>4, <2>5, <2>6
<1>2. CASE w = v
  <2>1. UNCHANGED <<acct, row>>
    BY <1>2, UnderIs
  <2>2. CASE HasReadHalf(v)
    <3>1. /\ Under(v) /\ ~ver[v].raced /\ OfChange(ver[v].tok)
          /\ ver[v].u \in Users /\ ver[v].tok \in Tokens /\ ver[v].tok.kind \in {"current", "new"}
      BY <1>2, <2>2 DEF HasReadHalf, Under, OfChange, TokensAreIssued, TypeOK
    <3>2. /\ ver[v].seen.mail = acct[ver[v].u].addr["mail"] /\ ver[v].seen.change = acct[ver[v].u].change
          /\ row[ver[v].u][ver[v].tok.kind] = ver[v].tok \/ Refused(ver[v].tok)
      BY <3>1 DEF UnracedIsCurrent
    <3>3. ver'[v].half = ver[v].tok.kind \/ Caught(ver[v].u, ver[v].tok)
      <4>1. CASE ver'[v].half \in {"current", "new"} /\ acct[ver[v].u].col[ver'[v].half] = ver[v].tok
        BY <3>1, <4>1, TokenAssumption DEF TokensAreIssued, Kinds
      <4>2. CASE acct[ver[v].u].col["current"] # ver[v].tok /\ acct[ver[v].u].col["new"] # ver[v].tok
        BY <3>1, <3>2, <4>2, TokenAssumption DEF LinkMatchesCode, Caught, Kinds
      <4> QED
        BY <2>2, <4>1, <4>2 DEF HasReadHalf
    <3>4. ver'[v].tok = ver[v].tok /\ ver'[v].u = ver[v].u /\ ver'[v].seen = ver[v].seen
          /\ ver'[v].status = acct[ver[v].u].status
      BY <2>2 DEF HasReadHalf
    <3>5. (Refused(ver[v].tok) => Refused(ver[v].tok)') /\ (Caught(ver[v].u, ver[v].tok) => Caught(ver[v].u, ver[v].tok)')
      BY <1>0, <3>4 DEF Refused, Caught
    <3> QED
      BY <1>2, <2>1, <3>2, <3>3, <3>4, <3>5
  <2>3. ASSUME NEW t \in inbox, NEW u \in Users, HasRead(v, t, u)
        PROVE  /\ ver'[v].seen.mail = acct'[ver'[v].u].addr["mail"]
               /\ ver'[v].seen.change = acct'[ver'[v].u].change
               /\ row'[ver'[v].u][ver'[v].tok.kind] = ver'[v].tok
               /\ ver'[v].st # "tokens"
    BY <1>2, <2>1, <2>3 DEF HasRead, Seen, OfChange
  <2> QED
    BY <1>2, <2>2, <2>3, UnderIs
<1> QED
  BY <1>1, <1>2

\* What exempts a change stays.
LEMMA ExemptIssued ==
    ASSUME TypeOK, TokensAreIssued, NEW s \in Senders, Issuing(s), NEW u \in Users, Exempt(u)
    PROVE  Exempt(u)'
<1>1. /\ refused \subseteq refused' /\ outdated \subseteq outdated' /\ spent' = spent /\ \A w \in Verifiers : Same(w)
  BY IssuingKeeps
<1> QED
  BY <1>1 DEF Exempt, Refused, Same

\* What exempts an account from the rule of two links stays.
LEMMA ExemptRedeemed ==
    ASSUME TypeOK, TokensAreIssued, NEW v \in Verifiers, Redeeming(v), NEW u \in Users, Exempt(u)
    PROVE  Exempt(u)'
<1>1. UNCHANGED <<refused, outdated>> /\ spent \subseteq spent' /\ \A w \in Verifiers \ {v} : Same(w)
  BY RedeemingKeeps
<1>2. ver[v].st # "half"
  BY DEF Redeeming, Reads, ReadsHalf, Exchanges, Halves, Redeemed, Under
<1> QED
  BY <1>1, <1>2 DEF Exempt, Refused, Same

\* A step that writes nothing of a change, or takes links of it away.
LEMMA ChangeKept ==
    ASSUME NEW u \in Users, ChangeIsConfirmed(u), Exempt(u) => Exempt(u)', conf' = conf,
           acct'[u].addr["mail"] = acct[u].addr["mail"], acct'[u].change["mail"] = acct[u].change["mail"],
           acct'[u].status = acct[u].status, refused \subseteq refused', spent \subseteq spent',
           row'[u]["new"] = row[u]["new"] \/ row'[u]["new"] = None,
           \/ row'[u]["current"] = row[u]["current"]
           \/ row'[u]["current"] = None /\ (row[u]["current"].via # "admin" \/ row'[u]["new"] = None)
    PROVE  ChangeIsConfirmed(u)'
<1>1. ASSUME LinksAreAimed(u) PROVE LinksAreAimed(u)'
  BY <1>1 DEF LinksAreAimed, Free, Refused, Aim
<1>2. ASSUME OneHalfIsDone(u) PROVE OneHalfIsDone(u)'
  <2>1. PICK k \in {"current", "new"} :
           /\ row[u][k] = None
           /\ row[u][Other(k)] # None /\ ~Free(row[u][Other(k)]) =>
                 /\ row[u][Other(k)].to = Aim(u, Other(k))
                 /\ \E t \in spent : t.kind = k /\ t.to = Aim(u, k)
    BY <1>2 DEF OneHalfIsDone
  <2>2. row'[u][k] = None /\ (row'[u][Other(k)] = row[u][Other(k)] \/ row'[u][Other(k)] = None)
    BY <2>1 DEF Other
  <2>3. Aim(u, k)' = Aim(u, k) /\ Aim(u, Other(k))' = Aim(u, Other(k)) /\ Other(k)' = Other(k)
    BY DEF Aim, Other
  <2>4. Free(row[u][Other(k)]) /\ row'[u][Other(k)] = row[u][Other(k)] => Free(row[u][Other(k)])'
    BY <2>3 DEF Free, Refused
  <2>5. row'[u][Other(k)] # None /\ ~Free(row[u][Other(k)])' =>
                 /\ row'[u][Other(k)].to = Aim(u, Other(k))
                 /\ \E t \in spent' : t.kind = k /\ t.to = Aim(u, k)
    BY <2>1, <2>2, <2>4
  <2> QED
    BY <2>2, <2>3, <2>5 DEF OneHalfIsDone
<1> QED
  BY <1>1, <1>2 DEF ChangeIsConfirmed

\* ChangesAreConfirmed is preserved.
LEMMA ConfirmedIssued ==
    ASSUME TypeOK, TypeOK', TokensAreIssued, LinksBelong, ChangesAreConfirmed, NEW s \in Senders, Issuing(s)
    PROVE  ChangesAreConfirmed'
<1> SUFFICES ASSUME NEW w \in Users PROVE ChangeIsConfirmed(w)'
  BY DEF ChangesAreConfirmed
<1>0. {"current", "new"} \subseteq Kinds
  BY DEF Kinds
<1>1. /\ ChangeIsConfirmed(w) /\ (Exempt(w) => Exempt(w)') /\ conf' = conf
      /\ refused \subseteq refused' /\ spent \subseteq spent'
  BY ExemptIssued, IssuingKeeps DEF ChangesAreConfirmed
<1>2. CASE Decides(s) \/ WroteNothing(s) \/ DiscardStops(s)
  BY <1>1, <1>2, ChangeKept DEF Decides, WroteNothing, DiscardStops
<1>3. CASE ColumnDropped(s)
  BY <1>1, <1>3, ChangeKept DEF ColumnDropped
<1>4. CASE RowDropped(s)
  <2>1. \A t \in req[s].toks : t.via # "admin"
    BY DEF TokensAreIssued
  <2> QED
    BY <1>0, <1>1, <1>4, <2>1, ChangeKept DEF RowDropped
<1>5. ASSUME NEW u \in Users, NEW a \in Accounts, NEW b \in Accounts, NEW toks \in SUBSET Tokens, Wrote(s, u, a, b, toks)
      PROVE  ChangeIsConfirmed(w)'
  <2>1. CASE w # u
    BY <1>1, <1>5, <2>1, WroteLinks, ChangeKept
  <2>2. CASE w = u /\ ~acct[u].there /\ req[s].send \notin {"email_change", "link_current", "link_new"}
    <3>1. b.status = 0 /\ acct'[u] = b
      <4>1. acct'[u] = b
        BY <1>5, WroteLinks
      <4>2. a.status = 0
        BY <1>5, <2>2 DEF Wrote, Target
      <4>3. b.status = a.status
        BY <1>5, <2>2 DEF Wrote, Issues
      <4> QED
        BY <4>1, <4>2, <4>3
    <3>2. \A k \in {"current", "new"} : row'[u][k] = None
      <4>1. \A t \in toks : ~OfChange(t)
        BY <1>5, <2>2 DEF Wrote, Issues
      <4> QED
        BY <1>0, <1>5, <2>2, <4>1, WroteLinks DEF OfChange
    <3> QED
      BY <2>2, <3>1, <3>2 DEF ChangeIsConfirmed, LinksAreAimed
  <2>3. CASE w = u /\ acct[u].there /\ req[s].send \notin {"email_change", "link_current", "link_new"}
    <3>1. CASE conf.autoconfirm
      BY <1>1, <3>1 DEF ChangeIsConfirmed
    <3>2. CASE ~conf.autoconfirm
      <4>1. /\ acct'[u] = b /\ a = acct[u]
            /\ \A k \in Kinds : \/ row'[u][k] \in toks /\ row'[u][k].kind = k
                                \/ row'[u][k] = None
                                \/ row'[u][k] = row[u][k] /\ ~Wipes(req[s])
        BY <1>5, <2>3, WroteLinks
      <4>2. /\ b.addr["mail"] = a.addr["mail"] /\ b.change["mail"] = a.change["mail"] /\ b.status = a.status
            /\ \A t \in toks : ~OfChange(t)
        BY <1>5, <2>3, <3>2 DEF Wrote, Known, Issues
      <4>3. \A k \in {"current", "new"} : row'[u][k] = IF Wipes(req[s]) THEN None ELSE row[u][k]
        BY <1>0, <1>5, <4>2 DEF Wrote, Upserts, OfChange
      <4> QED
        BY <1>1, <2>3, <4>1, <4>2, <4>3, ChangeKept
    <3> QED
      BY <3>1, <3>2
  <2>4. CASE w = u /\ req[s].send \in {"email_change", "link_current", "link_new"}
    <3>1. /\ acct[u].there /\ a = acct[u] /\ acct'[u] = b /\ b.addr["mail"] = acct[u].addr["mail"] /\ b.status = 0
          /\ b.change["mail"] = req[s].to
      <4>1. req[s].u # None
        BY <1>5, <2>4 DEF Wrote, Known
      <4>2. acct[u].there /\ a = acct[u] /\ acct'[u] = b
        BY <1>5, <4>1, WroteLinks
      <4> QED
        BY <1>5, <2>4, <4>2 DEF Wrote, Issues
    <3>2. CASE req[s].send = "email_change"
      <4>1. CASE acct[u].addr["mail"] # req[s].mail
        <5>1. u \in outdated'
          BY <1>5, <3>2, <4>1 DEF Wrote, Outdated
        <5> QED
          BY <2>4, <5>1 DEF ChangeIsConfirmed, Exempt
      <4>2. CASE acct[u].addr["mail"] = req[s].mail /\ conf.secure /\ req[s].mail # None
        <5>1. /\ \A t, o \in toks : t.kind = o.kind => t = o
              /\ \E t \in toks : t.kind = "new" /\ t.to = req[s].to
              /\ \E t \in toks : t.kind = "current" /\ t.to = req[s].mail
          BY <1>5, <3>2, <4>2 DEF Wrote, Issues
        <5>2. /\ row'[u]["new"] \in toks /\ row'[u]["new"].kind = "new"
              /\ row'[u]["current"] \in toks /\ row'[u]["current"].kind = "current"
          BY <1>0, <1>5, <5>1 DEF Wrote, Upserts
        <5>3. row'[u]["new"].to = req[s].to /\ row'[u]["current"].to = req[s].mail
          BY <5>1, <5>2
        <5> QED
          BY <2>4, <3>1, <4>2, <5>3 DEF ChangeIsConfirmed, LinksAreAimed, Aim
      <4>3. CASE acct[u].addr["mail"] = req[s].mail /\ ~(conf.secure /\ req[s].mail # None)
        BY <1>1, <2>4, <3>1, <4>3 DEF ChangeIsConfirmed
      <4> QED
        BY <4>1, <4>2, <4>3
    <3>3. CASE req[s].send = "link_new"
      <4>1. \A t \in toks : t.kind = "new" /\ t.via = "admin"
        BY <1>5, <3>3 DEF Wrote, Issues, Links
      <4>2. /\ row'[u]["new"] \in toks \/ row'[u]["new"] = None
            /\ row'[u]["current"] = row[u]["current"]
        <5>1. toks # {} /\ ~Wipes(req[s])
          BY <1>5, <3>3 DEF Wrote, Issues, Wipes
        <5> QED
          BY <1>0, <1>5, <4>1, <5>1 DEF Wrote, Upserts
      <4>3. ASSUME row[u]["current"] # None, ChangeIsConfirmed(u), ~Exempt(u), conf.secure, ~conf.autoconfirm,
                   acct[u].addr["mail"] # None
            PROVE  Free(row[u]["current"]) \/ row[u]["current"].to = acct[u].addr["mail"]
        BY <4>3 DEF ChangeIsConfirmed, LinksAreAimed, OneHalfIsDone, Aim, Other
      <4>4. Free(row[u]["current"]) => Free(row[u]["current"])'
        BY <1>1, <4>2 DEF Free, Refused
      <4> QED
        BY <1>1, <2>4, <3>1, <4>1, <4>2, <4>3, <4>4 DEF ChangeIsConfirmed, LinksAreAimed, Aim, Free
    <3>4. CASE req[s].send = "link_current"
      <4>1. toks # {} /\ \A t \in toks : t.kind = "current" /\ t.via = "admin" /\ t # None
        BY <1>5, <3>4, TokenAssumption DEF Wrote, Issues, Links
      <4>2. row'[u]["current"] \in toks
        BY <1>0, <1>5, <4>1 DEF Wrote, Upserts
      <4>3. row'[u]["current"] # None /\ row'[u]["current"].via = "admin"
        BY <4>1, <4>2
      <4> QED
        BY <2>4, <3>1, <4>3 DEF ChangeIsConfirmed, LinksAreAimed, Free
    <3> QED
      BY <2>4, <3>2, <3>3, <3>4
  <2> QED
    BY <2>1, <2>2, <2>3, <2>4
<1> QED
  BY <1>2, <1>3, <1>4, <1>5 DEF Issuing

LEMMA ConfirmedRedeemed ==
    ASSUME TypeOK, TokensAreIssued, UnracedIsCurrent, ChangesAreConfirmed, NEW v \in Verifiers, Redeeming(v)
    PROVE  ChangesAreConfirmed'
<1> SUFFICES ASSUME NEW w \in Users PROVE ChangeIsConfirmed(w)'
  BY DEF ChangesAreConfirmed
<1>0. {"current", "new"} \subseteq Kinds
  BY DEF Kinds
<1>1. /\ ChangeIsConfirmed(w) /\ (Exempt(w) => Exempt(w)') /\ conf' = conf
      /\ refused' = refused /\ spent \subseteq spent'
  BY ExemptRedeemed, RedeemingKeeps DEF ChangesAreConfirmed
<1>2. CASE Reads(v) \/ ReadsHalf(v) \/ Exchanges(v)
  BY <1>1, <1>2, ChangeKept DEF Reads, ReadsHalf, Exchanges
<1>3. ASSUME NEW b \in Accounts, Redeemed(v, b) PROVE ChangeIsConfirmed(w)'
  <2>1. CASE w # ver[v].u
    <3>1. acct'[w] = acct[w] /\ row'[w] = row[w]
      BY <1>3, <2>1 DEF Redeemed, TypeOK
    <3> QED
      BY <1>1, <3>1, ChangeKept
  <2>2. CASE w = ver[v].u
    <3>1. acct'[w] = b /\ \A k \in Kinds : row'[w][k] = None
      BY <1>3, <2>2 DEF Redeemed, TypeOK, NoRows
    <3>2. b.status \in {0, 1}
      BY DEF Accounts
    <3>3. LinksAreAimed(w)' /\ OneHalfIsDone(w)'
      BY <1>0, <3>1 DEF LinksAreAimed, OneHalfIsDone, Other
    <3> QED
      BY <3>1, <3>2, <3>3 DEF ChangeIsConfirmed
  <2> QED
    BY <2>1, <2>2
<1>4. ASSUME NEW b \in Accounts, Halves(v, b) PROVE ChangeIsConfirmed(w)'
  <2>1. CASE w # ver[v].u
    <3>1. acct'[w] = acct[w] /\ \A k \in Kinds : row'[w][k] = row[w][k]
      BY <1>4, <2>1 DEF Halves, TypeOK
    <3> QED
      BY <1>0, <1>1, <3>1, ChangeKept
  <2>2. CASE w = ver[v].u
    <3> DEFINE t == ver[v].tok
               k == ver[v].half
    <3>1. /\ acct'[w] = b /\ b.addr = acct[w].addr /\ b.change = acct[w].change /\ b.status = 1
          /\ \A j \in Kinds : row'[w][j] = IF j = k THEN None ELSE row[w][j]
          /\ t \in spent'
      BY <1>4, <2>2 DEF Halves, TypeOK
    <3>2. /\ Under(v) /\ OfChange(t) /\ t \in Tokens /\ t # None
          /\ conf.secure /\ ver[v].status = 0 /\ ver[v].seen.mail # None
      BY <1>4, TokenAssumption DEF Halves, Under, TwoHalves, TokensAreIssued, TypeOK
    <3>3. CASE ver[v].raced
      <4>1. PICK x \in Vers : ver' = [Raced(ver[v].u, v) EXCEPT ![v] = x] /\ x.st = "half" /\ x.u = w /\ x.raced
        BY <1>4, <2>2, <3>3 DEF Halves
      <4>2. ver'[v] = x
        BY <4>1, <2>2, RacedIs
      <4> QED
        BY <4>1, <4>2 DEF ChangeIsConfirmed, Exempt
    <3>4. CASE Free(t) \/ w \in outdated
      <4>1. w \in outdated => w \in outdated'
        BY RedeemingKeeps
      <4>2. Free(t) => \E x \in spent' : OfChange(x)' /\ (x.via = "admin" \/ Refused(x)')
        BY <1>1, <3>1, <3>2 DEF Free, Refused, OfChange
      <4> QED
        BY <3>4, <4>1, <4>2 DEF ChangeIsConfirmed, Exempt, OfChange, Refused
    <3>5. CASE ~ver[v].raced /\ ~Free(t) /\ w \notin outdated /\ ~Exempt(w) /\ ~conf.autoconfirm /\ acct[w].addr["mail"] # None
      <4>1. /\ ver[v].status = acct[w].status /\ k = t.kind /\ row[w][t.kind] = t
        BY <1>4, <2>2, <3>2, <3>5 DEF UnracedIsCurrent, Caught, Free, Halves
      <4>2. LinksAreAimed(w)
        BY <1>1, <3>2, <3>5, <4>1 DEF ChangeIsConfirmed
      <4>3. PICK j \in {"current", "new"}, i \in {"current", "new"}, c \in Tokens :
               /\ c = t /\ j = c.kind /\ i = Other(j) /\ i # j
        BY <3>2 DEF OfChange, Other
      <4>4. row'[w][j] = None /\ row'[w][i] = row[w][i] /\ c \in spent'
        BY <1>0, <3>1, <4>1, <4>3
      <4>5. Aim(w, i)' = Aim(w, i) /\ Aim(w, j)' = Aim(w, j)
        BY <3>1 DEF Aim
      <4>6. row[w][i] # None /\ ~Free(row[w][i]) => row[w][i].to = Aim(w, i) /\ c.to = Aim(w, j)
        BY <3>2, <3>5, <4>1, <4>2, <4>3 DEF LinksAreAimed, Free, OfChange, Other
      <4>7. Free(row[w][i]) => Free(row[w][i])'
        BY <1>1, <4>4 DEF Free, Refused
      <4>8. row'[w][i] # None /\ ~Free(row[w][i])' =>
               row'[w][i].to = Aim(w, i)' /\ \E x \in spent' : x.kind = j /\ x.to = Aim(w, j)'
        BY <4>3, <4>4, <4>5, <4>6, <4>7
      <4>9. OneHalfIsDone(w)'
        BY <4>3, <4>4, <4>8 DEF OneHalfIsDone
      <4> QED
        BY <3>1, <4>9 DEF ChangeIsConfirmed
    <3>6. CASE Exempt(w) \/ conf.autoconfirm \/ acct[w].addr["mail"] = None
      BY <1>1, <3>1, <3>6 DEF ChangeIsConfirmed
    <3> QED
      BY <3>3, <3>4, <3>5, <3>6
  <2> QED
    BY <2>1, <2>2
<1> QED
  BY <1>2, <1>3, <1>4 DEF Redeeming

-----------------------------------------------------------------------------
\* The invariant holds at the start.
LEMMA StartsTyped == ASSUME NEW a \in Starts PROVE a \in Accounts /\ \A k \in Kinds : a.col[k] = None
<1>1. CASE a \in {NoAccount, InsertAnonymous}
  BY <1>1, NoAccountTyped
<1>2. ASSUME NEW m \in Addresses, a = InsertWithAddress(m, TRUE) PROVE a \in Accounts /\ \A k \in Kinds : a.col[k] = None
  BY <1>2, InsertTyped
<1> QED
  BY <1>1, <1>2 DEF Starts, InsertEmailUser, InsertPhoneUser, Addresses

LEMMA InitTyped == Init => TypeOK
<1> SUFFICES ASSUME Init PROVE TypeOK
  OBVIOUS
<1>1. acct \in [Users -> Accounts]
  BY StartsTyped, NoAccountTyped DEF Init
<1>2. row \in [Users -> [Kinds -> Tokens \cup {None}]] /\ flow \in [Senders -> Flows]
  BY DEF Init, NoRows, Flows, Methods, Never
<1>3. req \in [Senders -> Reqs]
  BY DEF Init, IdleReq, Reqs, Sends, Methods, Somewhere
<1>4. ver \in [Verifiers -> Vers]
  BY DEF Init, IdleVer, Vers, NothingSeen, Views, Somewhere
<1> QED
  BY <1>1, <1>2, <1>3, <1>4 DEF Init, TypeOK

LEMMA InitInv == Init => Inv
<1> SUFFICES ASSUME Init PROVE Inv
  OBVIOUS
<1>1. TypeOK
  BY InitTyped
<1>2. /\ \A u \in Users, k \in Kinds : row[u][k] = None /\ acct[u].col[k] = None
      /\ \A s \in Senders : req[s].st = "idle" /\ req[s].toks = {} /\ flow[s].st = "none"
      /\ \A v \in Verifiers : ver[v].st = "idle" /\ ver[v].code = None
      /\ inbox = {} /\ spent = {} /\ refused = {}
  BY StartsTyped, NoAccountTyped DEF Init, NoRows, IdleReq, IdleVer
<1>3. "current" \in Kinds /\ "new" \in Kinds
  BY DEF Kinds
<1>4. \A u \in Users : ~acct[u].there => acct[u].addr["mail"] = None
  <2>1. \A a \in Starts : ~a.there => a.addr["mail"] = None
    <3>1. NoAccount.addr["mail"] = None
      BY DEF NoAccount, Channels
    <3> QED
      BY <3>1, NoAccountTyped, InsertTyped DEF Starts, InsertEmailUser, InsertPhoneUser, Addresses
  <2>2. NoAccount \in Starts
    BY DEF Starts
  <2> QED
    BY <2>1, <2>2 DEF Init
<1>5. \A u \in Users : acct[u].status = 0
  <2>1. \A a \in Starts : a.status = 0
    BY NoAccountTyped, InsertTyped DEF Starts, InsertEmailUser, InsertPhoneUser, Addresses
  <2> QED
    BY <2>1, NoAccountTyped DEF Init
<1>6. TokensAreIssued /\ RequestsKnow
  BY <1>2 DEF TokensAreIssued, RequestsKnow, Under
<1>7. LinksBelong
  BY <1>2, <1>3, <1>4 DEF LinksBelong, Under
<1>8. OneHome
  BY <1>2 DEF OneHome, Keeps, Under
<1>9. LinkMatchesCode /\ HalvesAreTokens /\ SpentIsGone /\ UnracedIsCurrent
  BY <1>2 DEF LinkMatchesCode, HalvesAreTokens, SpentIsGone, UnracedIsCurrent, Under
<1>10. FlowsAreUsedOnce /\ CodeBuysOneSession
  BY <1>2 DEF FlowsAreUsedOnce, CodeBuysOneSession
<1>11. ChangesAreConfirmed
  BY <1>2, <1>3, <1>5 DEF ChangesAreConfirmed, ChangeIsConfirmed, LinksAreAimed
<1> QED
  BY <1>1, <1>6, <1>7, <1>8, <1>9, <1>10, <1>11 DEF Inv

\* The clock disturbs nothing.
LEMMA TickKeeps == ASSUME Inv, UNCHANGED <<conf, acct, row, flow, req, ver, inbox, spent, refused, outdated>>, now' \in Nat PROVE Inv'
<1>1. TypeOK' /\ TokensAreIssued' /\ RequestsKnow' /\ LinksBelong'
  BY DEF Inv, TypeOK, TokensAreIssued, RequestsKnow, Known, LinksBelong, Under, OfChange, Issued
<1>2. OneHome' /\ LinkMatchesCode' /\ HalvesAreTokens'
  BY DEF Inv, OneHome, Keeps, Under, LinkMatchesCode, Refused, HalvesAreTokens
<1>3. SpentIsGone' /\ FlowsAreUsedOnce' /\ CodeBuysOneSession'
  BY DEF Inv, SpentIsGone, Caught, Refused, FlowsAreUsedOnce, CodeBuysOneSession
<1>4. UnracedIsCurrent'
  BY DEF Inv, UnracedIsCurrent, Under, OfChange, Refused, Caught
<1>5. ChangesAreConfirmed'
  <2>1. \A u \in Users : Exempt(u) => Exempt(u)'
    BY DEF Exempt, OfChange, Refused
  <2> QED
    BY <2>1, ChangeKept DEF Inv, ChangesAreConfirmed
<1> QED
  BY <1>1, <1>2, <1>3, <1>4, <1>5 DEF Inv

\* Every step preserves the invariant.
LEMMA NextInv == Inv /\ [Next]_vars => Inv'
<1> SUFFICES ASSUME Inv, [Next]_vars PROVE Inv'
  OBVIOUS
<1> USE DEF Inv
<1>1. ASSUME NEW s \in Senders, Issuing(s) PROVE Inv'
  <2>1. TypeOK'
    BY <1>1, IssuingTyped
  <2>2. TokensAreIssued' /\ RequestsKnow' /\ LinksBelong' /\ OneHome'
    BY <1>1, <2>1, TokensIssued, KnownIssued, BelongIssued, HomeIssued
  <2>3. LinkMatchesCode' /\ HalvesAreTokens' /\ SpentIsGone'
    BY <1>1, MatchIssued, HalvesIssued, SpentIssued
  <2>4. FlowsAreUsedOnce' /\ CodeBuysOneSession'
    BY <1>1, FlowsIssued
  <2>5. UnracedIsCurrent' /\ ChangesAreConfirmed'
    BY <1>1, <2>1, CurrentIssued, ConfirmedIssued
  <2> QED
    BY <2>1, <2>2, <2>3, <2>4, <2>5
<1>2. ASSUME NEW v \in Verifiers, Redeeming(v) PROVE Inv'
  <2>1. TypeOK'
    BY <1>2, RedeemingTyped
  <2>2. TokensAreIssued' /\ RequestsKnow' /\ LinksBelong' /\ OneHome'
    BY <1>2, <2>1, TokensRedeemed, KnownRedeemed, BelongRedeemed, HomeRedeemed
  <2>3. LinkMatchesCode' /\ HalvesAreTokens' /\ SpentIsGone'
    BY <1>2, MatchRedeemed, HalvesRedeemed, SpentRedeemed
  <2>4. FlowsAreUsedOnce' /\ CodeBuysOneSession'
    BY <1>2, FlowsRedeemed
  <2>5. UnracedIsCurrent' /\ ChangesAreConfirmed'
    BY <1>2, CurrentRedeemed, ConfirmedRedeemed
  <2> QED
    BY <2>1, <2>2, <2>3, <2>4, <2>5
<1>3. CASE Tick
  BY <1>3, TickKeeps DEF Tick, TypeOK
<1>4. CASE UNCHANGED vars
  BY <1>4, TickKeeps DEF vars, TypeOK
<1> QED
  BY <1>1, <1>2, <1>3, <1>4, Steps

LEMMA Invariance == Spec => []Inv
BY InitInv, NextInv, PTL DEF Spec

-----------------------------------------------------------------------------
\* What a request reads was spent by nobody, but for the exemptions.
LEMMA ReadsTheUnspent ==
    ASSUME Inv, Next, NEW v \in Verifiers, ver[v].st = "idle", ver'[v].st = "read"
    PROVE  LET t == ver'[v].tok
           IN  t \notin spent \/ Refused(t) \/ (t.kind = "current" /\ ver'[v].u \in outdated)
<1> USE DEF Inv
<1>1. ASSUME NEW s \in Senders, Issuing(s) PROVE FALSE
  BY <1>1, IssuingKeeps DEF Same
<1>2. ASSUME NEW x \in Verifiers, Redeeming(x) PROVE \E t \in inbox, u \in Users : HasRead(v, t, u)
  <2>1. x = v
    BY <1>2, RedeemingKeeps DEF Same
  <2> QED
    BY <1>2, <2>1, UnderIs DEF Under, HasReadHalf
<1>3. ~Tick
  BY DEF Tick
<1>4. PICK t \in inbox, u \in Users : HasRead(v, t, u)
  BY <1>1, <1>2, <1>3, Steps
<1>5. t \in spent => Caught(u, t)
  BY <1>4 DEF HasRead, SpentIsGone
<1> QED
  BY <1>4, <1>5 DEF HasRead, Caught

\* An address that changes was confirmed twice, but for the exemptions.
LEMMA LandsConfirmed ==
    ASSUME Inv, Next, NEW u \in Users, Changed(u)
    PROVE  \/ BothConfirmed(u, acct[u].addr["mail"], acct'[u].addr["mail"])
           \/ \E v \in Verifiers : ver[v].u = u /\ ver[v].raced
           \/ u \in outdated
           \/ \E t \in spent' : /\ Slot(t.kind) = "email_change"
                                /\ t.via = "admin" \/ Refused(t)
<1> USE DEF Inv
<1>1. /\ conf.secure /\ ~conf.autoconfirm /\ acct[u].addr["mail"] # None
      /\ acct'[u].addr["mail"] # acct[u].addr["mail"]
  BY DEF Changed
<1>2. ASSUME NEW s \in Senders, Issuing(s) PROVE FALSE
  <2>1. PICK x \in Users, a \in Accounts, b \in Accounts, toks \in SUBSET Tokens : Wrote(s, x, a, b, toks)
    BY <1>1, <1>2 DEF Issuing, Decides, WroteNothing, ColumnDropped, RowDropped, DiscardStops
  <2>2. x = u /\ acct'[u] = b /\ a = acct[u]
    BY <1>1, <2>1, WroteLinks DEF LinksBelong
  <2>3. b.addr["mail"] = a.addr["mail"] \/ req[s].send = "set_email"
    BY <2>1 DEF Wrote, Issues
  <2> QED
    BY <1>1, <2>1, <2>2, <2>3 DEF Wrote, Known
<1>3. ~Tick
  BY <1>1 DEF Tick
<1>4. PICK v \in Verifiers : Redeeming(v)
  BY <1>2, <1>3, Steps
<1>5. PICK b \in Accounts : Redeemed(v, b)
  BY <1>1, <1>4 DEF Redeeming, Reads, ReadsHalf, Exchanges, Halves, TypeOK
<1>6. ver[v].u = u /\ b.addr["mail"] # acct[u].addr["mail"] /\ acct'[u].addr["mail"] = b.addr["mail"]
  BY <1>1, <1>5 DEF Redeemed, TypeOK
<1>7. /\ ver[v].st = "tokens" /\ ~TwoHalves(v) /\ b.addr["mail"] = ver[v].seen.change["mail"]
      /\ Under(v) /\ spent' = spent \cup {ver[v].tok} /\ ver[v].tok \in Tokens
  BY <1>5, <1>6 DEF Redeemed, Lands
<1>8. CASE ver[v].raced
  BY <1>6, <1>8
<1>9. CASE Exempt(u)
  BY <1>7, <1>9 DEF Exempt, OfChange, Slot
<1>10. CASE Free(ver[v].tok)
  <2>1. Slot(ver[v].tok.kind) = "email_change"
    BY <1>7 DEF TokensAreIssued, OfChange, Slot
  <2> QED
    BY <1>7, <1>10, <2>1 DEF Free
<1>11. CASE ~ver[v].raced /\ ~Exempt(u) /\ ~Free(ver[v].tok)
  <2>1. PICK c \in Tokens : c = ver[v].tok /\ c.kind \in {"current", "new"} /\ c # None
    BY <1>7, TokenAssumption DEF TokensAreIssued, OfChange
  <2>2. /\ ver[v].seen.mail = acct[u].addr["mail"] /\ ver[v].seen.change = acct[u].change
        /\ row[u][c.kind] = c /\ ver[v].status = acct[u].status
    BY <1>6, <1>7, <1>11, <2>1 DEF UnracedIsCurrent, OfChange, Free
  <2>3. acct[u].status = 1 /\ OneHalfIsDone(u)
    BY <1>1, <1>7, <1>11, <2>2 DEF TwoHalves, ChangesAreConfirmed, ChangeIsConfirmed
  <2>4. PICK k \in {"current", "new"} :
           /\ row[u][k] = None
           /\ row[u][Other(k)] # None /\ ~Free(row[u][Other(k)]) =>
                 /\ row[u][Other(k)].to = Aim(u, Other(k))
                 /\ \E t \in spent : t.kind = k /\ t.to = Aim(u, k)
    BY <2>3 DEF OneHalfIsDone
  <2>5. Other(k) = c.kind /\ k # c.kind
    BY <2>1, <2>2, <2>4 DEF Other
  <2>6. c.to = Aim(u, c.kind) /\ \E t \in spent : t.kind = k /\ t.to = Aim(u, k)
    BY <1>11, <2>1, <2>2, <2>4, <2>5
  <2>7. /\ acct'[u].addr["mail"] = acct[u].change["mail"] /\ c \in spent' /\ spent \subseteq spent'
    BY <1>6, <1>7, <2>1, <2>2
  <2> QED
    BY <2>1, <2>4, <2>5, <2>6, <2>7 DEF BothConfirmed, Aim
<1> QED
  BY <1>8, <1>9, <1>10, <1>11

\* The state is well formed, whatever requests are refused half way.
THEOREM TypeCorrect == Spec => []TypeOK
BY Invariance, PTL DEF Inv

\* The two stores of a token never drift apart, whatever requests write in
\* between: issueOneTimeToken, clearOneTimeToken, discardToken and the wipe.
THEOREM LinksMatchCodes == Spec => []LinkMatchesCode
BY Invariance, PTL DEF Inv

\* pkceGrant deletes the flow it exchanges: a code buys one session.
THEOREM CodesBuyOneSession == Spec => []CodeBuysOneSession
BY Invariance, PTL DEF Inv

\* A redeemed token is found no more by a request that starts later.
THEOREM SpentTokensStaySpent == Spec => SpentStaysSpent
<1>1. Inv /\ [Next]_vars =>
         [\A v \in Verifiers :
             ver[v].st = "idle" /\ ver'[v].st = "read" =>
                 LET t == ver'[v].tok
                 IN  t \notin spent \/ Refused(t) \/ (t.kind = "current" /\ ver'[v].u \in outdated)]_vars
  BY ReadsTheUnspent
<1> QED
  BY <1>1, Invariance, PTL DEF Spec, SpentStaysSpent

\* A secure change of address lands when both addresses confirmed it, but for
\* the races and exemptions that emailChangeVerify leaves.
THEOREM BothLinksAreFollowed == Spec => BothLinksFollowedUnlessRaced
<1>1. Inv /\ [Next]_vars =>
         [\A u \in Users :
             Changed(u) => \/ BothConfirmed(u, acct[u].addr["mail"], acct'[u].addr["mail"])
                           \/ \E v \in Verifiers : ver[v].u = u /\ ver[v].raced
                           \/ u \in outdated
                           \/ \E t \in spent' : /\ Slot(t.kind) = "email_change"
                                                /\ t.via = "admin" \/ Refused(t)]_vars
  BY LandsConfirmed
<1> QED
  BY <1>1, Invariance, PTL DEF Spec, BothLinksFollowedUnlessRaced
=============================================================================
