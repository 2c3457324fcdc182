# Verification of dilion in TLA+

dilion is an identity and privacy service: a GoTrue-compatible authentication
server (`internal/auth`), a privacy engine that keeps consents, PII and erasure
requests (`internal/privacy`), and a management plane around them
(`internal/api`, `internal/iam`). All shared state is in PostgreSQL. Several
engine processes may run at once, each with its own worker loops and HTTP
handlers, so what matters is what happens between two SQL statements of one
process while the others go on.

This directory models that: TLA+ modules, TLC configurations that check them on
small instances, and theorems that TLAPS proves for every instance.

    tlc -workers 2 -config DeliveryTasks_liveness.cfg MCDeliveryTasks
    tlapm ErasurePipelineProofs.tla

## 1. Inventory

| Component | State | Operations | Hard part | What makes it correct |
|---|---|---|---|---|
| Erasure pipeline (`privacy/requests.go`, `pipeline.go`, `workers.go`) | `personal_data_requests`, `destruction_logs`, an advisory lock per request | create, cancel, poll, process a request step by step, park, finish | several runners, crash between a step and its log, cancellation and holds racing a run, lock session dying alone | one runner per request, evidence ordered and truthful, DONE complete and final, due requests are handled |
| Legal holds (`holds.go`, `engine.go`) | `legal_holds` | create, release (three statements) | read-then-act gate, partial release | a hold stops later runs; a release resumes what was parked |
| Delivery tasks (`tasks.go`, `destinations.go`) | `tasks`, `destinations` | fan-out, claim (`for update skip locked`), deliver, complete, fail, reclaim | claim timing out while its sender works, crash before the outcome is written | attempts exclusive and bounded, settled is final, everything settles |
| Outbox dispatcher (`outbox.go`) | `outbox` | `user.deleted` to `CreateRequest`, reconfirm notices to tasks | handling and publishing are two statements; two dispatchers | no event is lost, a replayed one makes nothing twice |
| Consent ledger (`consent.go`, `consent_segment.go`) | `consent_events`, `consent_state`, `subject_policies` | record, withdraw, reconfirm scan, assign policies | clocks that disagree with the order of the commits, a scan whose candidates change, engines of two revisions | the projection is the ledger's last word, a notice is due when it is sent |
| Vault and keys (`profile.go`, `search.go`, `kmslocal.go`) | `user_profiles`, `profile_search_index`, `subject_keys` | patch, read, search, mint, destroy | patch racing the key step; two first uses of a key | no readable PII after the key is shredded |
| Retention scanner (`retention.go`) | the vault's rows | scheduled sweep | holds placed while it sweeps | held data is not swept |
| Policy engine (`policy.go`, `duration.go`) | YAML in memory | load, merge, resolve | engines of different revisions | the strictest rule wins |
| Sessions and refresh tokens (`auth.go`, `grant.go`, `store.go`, `user.go`, `admin.go`, `cleanup.go`, `factors.go`) | `sessions`, `refresh_tokens` | sign in, refresh, revoke, log out | concurrent refresh, reuse window, a second factor or a ban racing a refresh, cleanup | one active token per session, rotated once; nothing for a banned or deleted user |
| One-time tokens, mail and SMS (`ott.go`, `otp.go`, `verify.go`, `mailflow.go`, `smsflow.go`, `signup.go`, `recover.go`, `resend.go`, `invite.go`, `generate_link.go`, `user.go`, `reauth.go`) | token columns of `auth.users`, `one_time_tokens`, `*_sent_at`, `flow_state` | issue, deliver, discard, redeem by link or by code, exchange | a token has two stores; it is delivered after the commit; two redemptions at once; two addresses of one change | spent is spent; link and code live and die together; a change needs both addresses |
| PKCE, external OAuth, identities (`pkce.go`, `external*.go`, `oidc_grant.go`, `identity.go`) | `flow_state`, `oauth_client_states`, `identities`, `custom_oauth_providers` | redirect, callback, id_token, link, unlink, exchange | two callbacks of one state, sign-up with somebody else's address, two unlinks | one sign-in per state, no stranger keeps access, the last identity stays |
| SAML, SSO (`saml_*.go`, `sso.go`, `admin_sso.go`) | `saml_relay_states`, `sso_providers` | initiate, assertion, administration | relay state read and deleted in two steps | SSO accounts stay apart from others |
| Second factors (`factors*.go`, `mfa_models.go`, `attempts.go`) | `mfa_factors`, `mfa_challenges`, `mfa_amr_claims`, failure counters | enrol, challenge, verify, remove | count read before and written after the comparison; a verification racing a removal | guesses bounded; aal2 rests on a claim |
| Passkeys, OPAQUE (`passkey*.go`, `opaque*.go`) | `webauthn_credentials`, `webauthn_challenges`, handshakes in memory, OPAQUE records | register, sign in, remove; start and finish a handshake | challenge answered twice, limit counted by two, handshake outliving a password | one answer per challenge; a new password ends what was under way |
| OAuth 2.1 server (`oauthserver*.go`) | `oauth_clients`, `oauth_authorizations`, `oauth_consents`, sessions of clients | authorize, consent, exchange, refresh, revoke, administer clients | code redeemed twice, consent revoked meanwhile | a code buys one session, its scopes were agreed to, revoked means out |
| Attempt throttle, rate limits, captcha (`attempts.go`, `captcha.go`) | failure counters | count, block, reset | concurrent failures, window edge | no more than the limit per window |
| Auth administration, hooks, providers, cleanup | users, hooks, provider settings | CRUD, periodic deletes | cleanup racing a flow | expired rows only |
| IAM (`internal/iam`, `api/iam.go`, `api/security.go`) | `dilion_authz.roles`, `permissions`, `role_assignments`, `api_keys` | guard, create, update, grant, revoke | nothing runs in a transaction: guard, ceiling and write are apart | nobody hands out what nobody entitled held |
| Audit sink (`internal/audit`) | `audit_events` | append: one transaction per event, read | | |
| Instances (`internal/instances`) | engines, built once per instance under a singleflight | get | | |
| HTTP API, store, migrations, ports, wiring, console, JS clients | none of their own | decode, project, connect | | |

Interactions:

* The auth server writes `user.deleted` to the outbox in the transaction that
  soft-deletes a user; the dispatcher turns it into `CreateRequest`
  (`ConsentLedger`), whose requests `ErasurePipeline` carries out.
* The pipeline erases the auth server's rows (sessions, identities, factors, the
  account), shreds the subject's key (`SubjectVault`) and fans out delivery tasks;
  its external step waits for the senders' results (`DeliveryTasks`).
* A scan writes reconfirm notices to the outbox, the dispatcher turns each into a
  task per destination.
* Holds gate the pipeline and the retention scanner. Auth handlers never look at
  erasure requests: only `auth.users.deleted_at` stops them.
* Every way to sign in (`OneTimeTokens`, `Identities`, `SecondFactors`,
  `OAuthServer`) ends in the same `grantSession`; what becomes of the session and
  its refresh tokens is `AuthSessions`. A flow state with a code challenge is
  exchanged by the same `pkceGrant` after a mailed link (`OneTimeTokens`) and
  after a provider's callback (`Identities`).
* A management request passes the guard of `AccessControl` before it reaches an
  engine.

The hazards these give rise to, each at its line, are in `PROJECT.json`.

## 2. Modules

| Module | Models | State and actions |
|---|---|---|
| `ErasurePipeline` | requests, holds, runner | rows (`status`, `reason`, `policy`, `logs`, `hold`), the advisory `lock`, each runner's locals (`pc`, `rq`, `batch`, `seen`, `done`, `step`); one action per statement |
| `ErasureLifecycle` | the promise about one request, implemented by `ErasurePipeline` | `phase`, `evidence` |
| `DeliveryTasks` | task senders | task rows, destinations, each sender's claimed batch; one action per statement |
| `SubjectVault` | profiles, index, subject keys, consent evidence, steps 900 and 1000, consent sweep | the rows of one subject, the locals of each call (`pc`, `before`, `dek`), the run (`epc`) and the sweep |
| `ConsentLedger` | consents, reconfirm scanner, outbox dispatcher, idempotent intake of requests | `ledger` and its projection `row`, `assigned` policies and each engine's `revision`, `outbox`, `request`, `task`; locals of changes (`upd`), scans (`scan`), dispatchers (`disp`) |
| `AuthSessions` | sessions and refresh tokens of one user | the rows (`user`, `sess`, `tok`), what each request in flight keeps (`login`, `refr`, `upgr`, `call`), the erasure's step |
| `SessionLifecycle` | the promise about sessions and their keys, implemented by `AuthSessions` | `phase`, `key`, `issued` |
| `OneTimeTokens` | tokens by mail and SMS | accounts with their token columns (`acct`), `one_time_tokens` (`row`), flow states (`flow`), requests that issue (`req`) and redeem (`ver`) |
| `Identities` | external providers, SAML, linking | `user`, `ident`, `flow` (flow state, client state and relay state), `prov`, what providers say (`said`), requests (`req`) |
| `SecondFactors` | factors, passkeys, OPAQUE of one account | `acct`, `sess`, `fac`, `chal`, `tries`, `pass`, `hand`, `keys`, requests (`req`) |
| `OAuthServer` | applications and their grants | `client`, `authz`, `consent`, `sess`, requests (`req`) |
| `AccessControl` | roles, assignments, API keys | `role`, `permissions`, `assignment`, `key`, requests (`req`) |
| `MC...` | one instance or a few of each module for TLC | |
| `ErasurePipelineProofs`, `AuthSessionsProofs` (with `SubjectVault`), `OneTimeTokensProofs`, `IdentitiesProofs`, `SecondFactorsProofs`, `OAuthServerProofs`, `AccessControlProofs`, `ConsentLedgerProofs` (with `DeliveryTasks`) | theorems | |

How the code maps (see `map` in `PROJECT.json`):

* `processRequest` is a sequence of actions, `Claim`, `Gate`, `Park`, `Begin`,
  `ReadDone`, then for each step `SkipStep`, `KeepStep`, `StepRejected`,
  `RunStep`/`RunExternal` and `LogStep`, at last `Finish`. The boundaries are the
  statements: the answer of the gate, the status loaded and the completed domains
  are read in one and used in a later one.
* `CreateRequest` is one action, because the duplicate check and the insert are
  in a transaction under the subject's advisory lock. `ReleaseHold` is three
  actions, because it has no transaction.
* A step erases its domain in one action and logs it in another. A step that is
  half done and repeated leaves the same rows as one that ran once (all its
  statements are deletes and updates by subject), so the halves are not kept apart.
* `UseAccount` stands for sign-in and credential changes; it reads `deleted_at`
  and writes in one action.
* In `DeliveryTasks` time is the two comparisons the code makes: `due`
  (`next_attempt_at <= now`) and `stale` (`started_at` older than
  `stuckRunningAfter`). A batch is any claimable set up to the limit, which
  covers every order of `next_attempt_at`.
* `ErasurePipeline` sees deliveries only as the roll-up `tasks[r]` (none, open,
  clear, dead), changed by `SettleTasks` and `LateTaskWrite`; `RollUpAsAssumed`
  of `DeliveryTasks` checks that the senders move the roll-up in exactly those ways.
* In `SubjectVault` a ciphertext is the document, the key and a fresh number, so
  comparing bytes is comparing numbers: a profile that was removed and stored
  again is a different row. `KMS.dek` is `Load`, `Mint` and `Reload`. The
  transaction of `patchProfile` is one action: `CreateRequest` takes the same
  subject lock, so no run of the pipeline begins inside it. Steps 900 and 1000 are
  taken apart into their statements, because a patch or a consent change may
  run between them; `ErasurePipeline` has them as one action each, and its
  `StepsOwnRequest` is why the vault has one run at a time. A call that dies
  simply takes no further step.
* In `AuthSessions` a transaction excludes what its row locks exclude (READ
  COMMITTED). The refresh grant is `LockToken`, which takes the token's row and
  decides (`Verdict`, in the order of the code's checks), and the action for what
  it decided: `Rotate`, `Answer` or `EndSession`. The token swap of a verified
  factor is `LockSession` and `SwapToken`. A deletion of sessions cascades to
  their tokens and so waits for both (`Free`). Where two transactions wait for
  each other PostgreSQL rolls one back: `RefreshAborts`, `UpgradeAborts`.
  `passwordGrant` reads the user (`ReadUser`) before the transaction that makes
  the session (`GrantSession`); a sign-in that a ban, a deletion or a new password
  overtook in between is marked `stale`, and its session `late`.
* In `OneTimeTokens` a request that issues a token decides in one action, named
  after its handler (`Signup`, `SendMagicLinkTo`, `Recover`, `ResendSignup`,
  `UpdateEmail`, `AdminGenerateLink`, ...) and writes column and row in `Write`; the
  message leaves after the commit, and one that is refused is taken back by
  `DiscardColumn` and `DiscardRow`, two statements between which a redemption may
  run. A redemption is `Verify`, which finds the account by `Forms` (link, code,
  nonce) and keeps what it saw (`Seen`), and the action of its kind: `ApplySignup`,
  `ApplyRecovery`, `ApplySms`, `ApplyPhone`, `ApplyNonce`, `AcceptHalf`,
  `ApplyChange`. A code given instead of a session is exchanged by `PkceGrant`.
  `raced` remembers that another request wrote to the account in between, and
  `outdated` that a change of address went by an address read before the transaction.
* In `Identities` a request is a load (`LoadExternalState`, `LoadRelayState`,
  `LoadAssertion`, `IdTokenGrant`, `DeleteIdentity`), `Decide`, which runs
  `DetermineAccountLinking`, `DetermineSSOAccountLinking`, `DecideLink` or
  `DecideUnlink` on what is there, and `Commit`, which applies the decision to what
  is there by then, or `Rollback` when a constraint refuses it. What a provider
  says of a person (`said`) is an input; `Drift` lets it change.
* In `SecondFactors` a request reads in one action (`VerifyFactor`,
  `UnenrollFactor`, `PasskeyRegistrationVerify`, `OpaqueLoginFinish`, ...) and writes in
  others (`RecordFailure`, `FinalizeFactorVerification`, `ClearAttempts`,
  `DeleteAMRClaims`, `DowngradeAndDeleteFactor`, `CountPasskeys`, `InsertPasskey`,
  `CommitLogin`, ...). A secret is right or wrong; a guess is compared, then counted.
* In `OAuthServer` a consent is approved in one transaction that holds the
  authorization's row (`Approve`), but `AutoApprove` rests on a consent read before
  (`GetAuthorization`); the code is found by `CodeGrant`, locked by `LockCode`
  (`FOR UPDATE SKIP LOCKED`) and paid for by `GrantSession`. `agreed` remembers what
  users agreed to.
* In `AccessControl` no request runs in a transaction: guard (`Begin`), `Read`,
  `GrantCeiling`, `CheckAssignment` and the write are actions of their own.
  `vouched` remembers what the caller held when its ceiling was asked.
* In `ConsentLedger` a consent change is `UpdateConsent` (clock, policy) and
  `CommitConsent` (under the pair's advisory lock); a scan is `ReconcileRead`,
  `ReconcileRow`, `ScanReconfirmDue`, then `EmitReconfirmNotice` or `SkipCandidate` for
  each candidate; a dispatcher is `PollOutbox`, `TakeEvent`, the handler
  (`CreateFromOutbox`, `InsertTask`) and `Publish`, with `Fail` and `Restart` anywhere in
  between.

## 3. Runs

| Run | Instance | Question |
|---|---|---|
| `pipeline_safety` | 2 runners, 2 requests of two subjects, a hold, locks never lost, a crash, cancel, late deliveries | `EvidenceTruthful`, `HoldStopsLaterRuns`, `OneActiveDeletion`, and `ImplementsLifecycle`: the abstract lifecycle is implemented |
| `pipeline_liveness` | 2 requests, 2 runners, batch of one, lock sessions that die alone | two runners on one request: `DoneIsComplete`; `DueIsHandled` |
| `delivery` | 2 requests, 2 senders, batch of one, 2 attempts, a lost outcome, an overtaken claim, an edit of the destination | `AttemptsAccounted`, `AttemptsExclusive`, `SettledIsFinal`, `DeliveriesSettle` |
| `vault_safety` | 2 profile patches, 1 consent change, 2 fields of which one may be stored, 2 attempts, one request, a run that stops, a hold | `PatchesMerge`, `IndexMirrorsProfile`, `SealedUnderStoredKey`, `ErasedStaysErased`, `ShredIsForever`, `HoldStopsSweep` |
| `auth_safety` | 2 sign-ins, 2 refreshes, 1 factor verification, 1 caller, 1 administrative request or erasure, 4 instants | `OneActiveToken`, `SwitchedOffIsSignedOut`, `RefreshedNeverGoesBack`, `ImplementsSessions` |
| `tokens` | 2 accounts, 2 mails, 2 phones, 2 issuing requests with PKCE, 2 redemptions, 2 instants, one refused message; secure changes with confirmation, and everything confirmed on the spot | `LinkMatchesCode`, `SpentStaysSpent`, `CodeBuysOneSession`, `BothLinksFollowedUnlessRaced` |
| `identities` | 2 accounts, 2 people of whom one enters the other's address, one OAuth and one SAML provider, 1 flow, 2 requests; three configurations (PKCE; autoconfirm and a provider whose subject is the account; statements that change) with 4, 3 and 2 events | `OneStateOneSignIn`, `NoStrangerInside`, `SSOStaysApart`, `LastIdentityStays` |
| `factors` | 1 account, 2 sessions, 2 of each kind of row, 2 requests, limit of one attempt; four configurations (totp and phone; webauthn and passkeys; OPAQUE with and without confirmation) with 7 or 8 events | `GuessesBounded`, `ClaimsBackAAL2`, `OneAnswerPerChallenge`, `OpaqueCannotRace` |
| `factors_limit` | two registrations at one below the limit | a finding, see section 5 |
| `oauth` | 2 authorizations, 2 sessions, 2 scopes, 2 requests; four configurations (a stored client and its administrators; refreshes with a timebox; refreshes with a reuse interval; two users and two clients of the resolver) with 7 or 8 events | `CodeRedeemedOnce`, `ScopesWereAgreed`, `RevocationHolds` |
| `access` | an owner, a security admin, a user with nothing, one key, the service token, 2 requests, 4 events, 5 assignments | `NoEscalation`, `UnambiguousUnlessRaced` |
| `ledger` | 2 consents of 2 subjects, 2 engines, 2 revisions of the policies, 2 outbox events; five configurations (changes and scans; with policies; restarts; outbox with crashes; notices beside an erasure) with 3 to 6 events | `ProjectionMirrorsLedger`, `NoticesAreDue`, `EventsAreHandledOnce` |

Symmetry is used for actors and names that differ in nothing, and only in runs
without liveness. Deadlock is not checked: a system with nothing to do may stop,
and an instance whose events are used up does.

Further configurations for the same modules:

* `ErasurePipeline_full`, `SubjectVault_full`, `AuthSessions_full`, `DeliveryTasks_full`:
  the same instances (deliveries with a second destination and a batch of two) with
  the type invariants and `StepsOwnRequest`, `NoLeakedLock`, `TokensRotateOnce`,
  `SwitchedOffGetsNothing`, `CleanupTakesUnusable`, `SomeoneWins`,
  `CompletedWasAccepted`, `RollUpAsAssumed`.
* `ErasurePipeline_lockloss`: lost locks with three steps, a hold and a crash
  (`EvidenceOrdered`, `DoneIsComplete`, `FinalIsFinal`); `ErasurePipeline_restart`:
  `DueIsHandled` with a hold and a crash.
* The counterexamples of section 5.

Bounds. Three steps (one that the auth API can write again, the external one,
the account one) stand for ten: the loop treats all others alike, and the proofs
hold for any number. Two runners, senders, engines or requests suffice for every
pairwise race, one failure for every crash point. Two patches suffice for every
race of the vault's compare-and-swap; two attempts (`MaxTries`) show both the
repeated attempt and the exhausted loop. In `AuthSessions` two sign-ins, two
refreshes and a verification meet in every pair on one session and across two; a
reuse window of 1, a timebox of 2 and an inactivity time-out of 1 within `MaxTime` = 3
put requests before, at and after each limit. `MaxAdmin` allows one ban, deletion
or erasure at any moment; the proofs cover any number. In `OneTimeTokens` two
instants put a redemption before and after expiry and a second send before and
after the frequency. A third issuing request is needed for a change of address that
goes by an outdated one (section 4), which the proofs cover.
In `Identities`, `SecondFactors`, `OAuthServer`, `AccessControl` and `ConsentLedger` the
events (requests that arrive and what else happens) are bounded per
configuration: a race needs an account's set-up, two requests and
one act of somebody else, which four suffice for in `Identities` and `AccessControl`
and eight where enrolment and challenge come first. `MaxFailures`,
`MaxDisturbances`, `MaxLost`, `MaxOvertakes`, `MaxEdits`, `MaxAssignments` and `MaxOutbox`
bound what would otherwise never end; the code has no such bounds.

Fairness. `FairSpec` of the pipeline is weak fairness of each runner's loop
(`workers.go` ticks until its context ends) and of the senders' settling; nobody
has to release a hold or make a request. `FairSpec` of `DeliveryTasks` is weak
fairness of each sender's loop and of time. Failures are finitely many: a step
that fails for ever is not "handled", and twenty such requests
(`maxRequestsPerTick`) fill every batch, since the poll orders by `scheduled_at`
alone. The other modules state safety only: a request that is not repeated owes
nothing, and the scan and the dispatcher start over at every tick.

## 4. Proofs

`ErasurePipelineProofs` proves the safety properties of `Spec` for every number
of requests, runners, holds and steps and every policy, from the named
assumptions of the module. None of the properties is inductive; the
strengthening is built in layers, each proved with the ones below:

1. `TypeOK` (`TypeCorrect`).
2. `LocksMatchRuns` (`LocksAreSound`): a lock and the run that holds it name each
   other. Without it a run could be overtaken by another runner.
3. `RunsKnowStatus` (`StatusIsCurrent`): a run that loaded PROCESSING, or is past
   `Begin`, has a PROCESSING request while its lock session lives. It needs layer 2:
   only the lock's holder leaves PROCESSING. Gives `StepsOwnRequest`.
4. `EvidenceInv` (`EvidenceIsSound`): `RunsFollowLogs` (the steps a run has
   passed are logged, and what it is about to log is gone) and `FreshIsClean`.
   It does not need layers 2 and 3, so `EvidenceOrdered`, `EvidenceTruthful` and
   `DoneIsComplete` hold with lost locks too.

The second half of the module adds `HoldInv` (the holds a run saw at its load are its
subject's and were placed), the action properties, and the refinement: each
action maps to a step of `ErasureLifecycle` or a stutter, given
`~LockLossPossible`. Without that hypothesis it is false: a runner that lost its
lock can log a step of a parked request.

The last section of `AuthSessionsProofs` proves `VaultTypeOK` and all six properties
of `vault_safety` for any number of calls, fields, requests, holds and halts (the
vault's `VaultInit`, `VaultNext` and `VaultSpec` have names of their own for that; it
shares nothing with the sessions):

1. `VaultTypeOK`.
2. `VersionInv`: a version names one document and version 0 the missing row, also
   in what calls have read. A commit that finds the version it read therefore
   merges into the current document: `PatchesMerge`.
3. `KeysAge` (what a step may do to a key: mint it once, shred it once) and
   `KeyInv`: a call about to commit holds the key of the row or the row is
   shredded. They give `SealedUnderStoredKey` and `ShredIsForever`.
4. `EraseInv`: while a run is at work its request is active, so no patch commits
   between its statements, and what it has deleted is still gone when the
   tombstone is written: `ErasedStaysErased`, `IndexMirrorsProfile`.

`AuthSessionsProofs` proves `TypeOK`, the properties of `auth_safety` and three
more of `AuthSessions_full` for any number of requests, any windows and time-outs.
The inductive invariant `Inv`:

1. `RowInv`: a request in flight has made nothing yet (`Unmade`), a lock is on a
   row that exists and has one holder (`Locks`).
2. `TokenInv`: the token that a refresh will rotate is still active, and the one a
   verification read is still its session's only active token (`Chosen`). Without
   it `OneActiveToken` is not inductive: a rotation could add a second token.
3. `ParentInv`: a token with a successor is used up, and the one about to be
   replaced has none (`Parents`): `TokensRotateOnce`.
4. `Times`: what a refresh will write to `refreshed_at` is not before what is
   there, and no active token of a sign-in or a refresh is newer than its session:
   `RefreshedNeverGoesBack`, `CleanupTakesUnusable`.
5. `StandingInv`: a sign-in that nothing overtook is of a user in good standing,
   and a deletion of all sessions waited for every refresh:
   `SwitchedOffIsSignedOut`, `SwitchedOffGetsNothing`.

It also gives the refinement (`SessionsKeepTheirPromise`): with a session's active
token as its key and every token that ever was as issued, each action is a step of
`SessionLifecycle` or a stutter. `GrantOpens`, `RotateTurns`, `SwapTurns`,
`DeletionCloses` and `EraseForgets` are the steps, and all else stutters, the sweep of
revoked tokens too. The promise says what `OneActiveToken` leaves open: a client that
repeats its refresh inside the reuse interval is answered, but the token it presents
does not come back to life.

Steps that do alike are proved together (`QuietKeeps`, `DeletionKeeps`,
`RemovalKeeps`, `EndKeeps`); each other action has a lemma of its own.

`OAuthServerProofs` proves `TypeOK` and the three properties of `OAuthServer` for any
number of clients, authorizations, sessions and requests. `Inv` ties what a request
keeps to the rows:

1. `HolderInv`: an authorization whose code is locked has exactly one holder and is
   approved; one that has bought a session is gone. A second exchange finds the row
   locked or missing: `CodesBuyOneSession`.
2. `ScopeInv`: what an approval is about to write, what a pending authorization asks
   for and what a consent row holds was agreed to by the user: `SessionsWereAgreed`.
3. `ConsentInv`: a session, and a code or an approval that will become one, rests on
   a consent that is still in force or began before the revocation:
   `RevocationsHold`.

`AccessControlProofs` proves `TypeOK`, `NoEscalation` (`EveryGrantWasHeld`) and
`UnambiguousUnlessRaced` (`PairsAreUnambiguous`). The module has no transaction to
lean on, so the invariant `CeilingInv` follows a request from its ceiling to its write:
what it has been let through for (`Covered`) is what `vouched` remembers, and what a
role contains now that it did not contain when the ceiling was asked was vouched for
by whoever put it there. The only new assumption is that the assignments an
installation begins with are of distinct pairs.

`ConsentLedgerProofs` proves `TypeOK`, `ProjectionMirrorsLedger`
(`ProjectionFollows`), `NoticesAreDue` (`NoticesComeDue`) and `EventsAreHandledOnce`
(`EventsHandled`). `Inv` has two halves:

1. `ConsentInv`. `LedgerInv`: the changes of a consent are ordered by their times, and
   no notice is ahead of the clock. `RowInv`: a row is the last change of its consent,
   knows its newest notice unless it was made anew after an erasure, and is due a
   period after both. `ScanInv`: the row a scan read was the last change then, and a
   notice the scan does not know of came after the scan began, which is why the
   statement that emits finds nothing to do. `DueInv`: every notice in the ledger
   waited for its period.
2. `OutboxInv`: an event that is published, or that a dispatcher is past the handler
   of, has its request or its task (`Handled`); a key in use names one request
   (`KeysInv`); what a dispatcher carries is an event (`Working`).

The last change of a consent is the greatest of a finite set of times, so the
module assumes `Consents` finite and rests on `Largest`: a bounded nonempty set of
numbers has a greatest member. It follows from the library's well-foundedness of
`<` on the naturals (`Smallest`), as does every other argument here that would
otherwise be an induction.

A failed proof corrected `NoticesAreDue`: in its earlier form it also spoke of notices
a subject got before it was erased, which a row made anew does not know (section 5).
No run was large enough to show the difference.

Its last part is about the deliveries that requests and notices wait for. The module
extends `DeliveryTasks` beside `ConsentLedger` (hence `DeliveryInit`, `DeliveryNext` and
`DeliverySpec`), and neither part uses the other. It proves `TypeOK`, `AttemptsExclusive`,
`SettledIsFinal` (from `ClaimsCurrent`: the attempt a sender carries is the row's,
unless its claim was overtaken), `AttemptsAccounted` (from `RetriesArePast` and
`StartsExplained`: every start is a distinct retry or a reclaim), `CompletedWasAccepted`
(`CompletedMeansAccepted`, from `OutcomeInv`: an outcome "ok" in a sender's hands is of a
task that was accepted, and an accepted task in nobody's hands is settled, overtaken or its
answer was lost) and `RollUpAsAssumed` (`RollUpsAsAssumed`: what `ErasurePipeline`
assumes of the roll-up, so `SettleTasks` and `LateTaskWrite` are all the moves there are).

`SecondFactorsProofs` proves `TypeOK` and the four properties of `factors` for any
number of sessions, factors, challenges, handshakes and (finitely many) requests:

1. `GuessInv`: a wrong code that was compared is counted, or its request is about to
   count it. A code is compared only below the limit, so at most one for every request
   comes on top: `GuessingIsBounded`.
2. `ClaimInv`: a session at aal2 has the claim of the factor it verified last, and no
   removal of another factor has marked that claim. `ClaimsBackAAL2` alone is not
   inductive: a removal could take the only claim. What saves it is that
   `finalizeFactorVerification` waits for claims that a removal has locked:
   `AAL2IsClaimed`.
3. `AnswerInv`: a challenge with an answer under way is gone, unpaid, and one request
   has it: `PasskeysAnswerOnce`.
4. `OpaqueInv`: a handshake that started from what is there now is of this era
   (`Current`), and so are the credential and all keys: `OpaqueHolds`. It rests on a
   new password and a deletion moving `updated_at` and removing the credential, and on
   versions that are never used again.

`Moves` lists the steps by which a request comes to the places these invariants speak
of, so every other step is handled once (`Aside`).

`IdentitiesProofs` proves `TypeOK` and all four properties of `identities` for any
number of accounts, people, providers, flows and requests:

1. The three steps of a request are reduced to relations: what it may decide
   (`RequestDecided`), and what carrying that out does to accounts and identities,
   whatever has changed in between (`CommitStep`, proved of every branch of `Settle`,
   `Linked`, `Created`, `Attached` and `Unlinked` by `CommitSteps`). `NextSteps` states
   what any step does, and the rest speaks of these relations only.
2. `FlowInv`: a client state that a request took is gone and nobody else has it, and a flow
   with PKCE that has signed somebody in names its account: `StatesAreSpentOnce`.
3. `OwnersInv` and `KeepInv`: identities belong to accounts that are there, and what a
   request decided on is there at its commit or it knows that it was raced:
   `LastIdentityIsKept`.
4. `WordInv` and `ApartInv`: what a provider vouches for, and that a request let in by its
   address is of its account's kind already when it has decided: `SingleSignOnIsApart`.
5. `SameWords`, `DecisionInv` and `StrangerInv`: all the addresses around an account are
   one (its own, its identities', and those of the sign-ins that are about to be let in
   by an address). `NoStrangerInside` alone is not inductive: a decision made before the
   account was closed is carried out after it. Its address was around the account then,
   so it is the owner's: `StrangersAreOut`.

Planning this proof corrected `SSOStaysApart` and `ClosesTakeover`: in their earlier form
they left out the identity of a provider whose subject names the account, but not what
follows from it (section 5). Two providers are needed to see it, and the run has one.
`IdentityAssumption` gained what the model always meant: a provider is not called
`email`, and `None` is none of the things it stands beside.

`OneTimeTokensProofs` proves `TypeOK` and the four properties of `tokens` for any number
of accounts, addresses, issuing requests and redemptions, every configuration and
every clock:

1. Every handler is shown to be a decision (`HandlerDecides`), every send to be an issue
   (`WrittenIs`) and every redemption to be one of three writes (`ApplyIs`); `Steps` says
   what any step does, and the rest speaks of these relations only.
2. `TokensAreIssued`: a token that is stored, held or spent belongs to a request that is
   past its write, so that what a request issues is new. `OneHome`: the tokens of a
   request are one account's.
3. `SpentIsGone`: a spent token stands in no column, and in a row only if its message
   was refused or an outdated request left it. With `HalvesAreTokens` (the half a
   redemption found is that of its token) and `LinkMatchesCode`, which is inductive only
   together with them: `LinksMatchCodes`, `SpentTokensStaySpent`.
4. `FlowsAreUsedOnce`: the flow of a code that bought a session is used, and a used one
   is never made again: `CodesBuyOneSession`.
5. `RequestsKnow` and `LinksBelong`: what a request has decided on is there when it
   writes. `UnracedIsCurrent`: what a redemption has read of a change is so unless
   another request wrote meanwhile. `ChangesAreConfirmed`: before the first half is
   confirmed both links are aimed at the two addresses of the change, and after it the
   other half still stands and the first was redeemed: `BothLinksAreFollowed`.

Planning this proof corrected three properties that hold of two issuing requests and
not of three. `sendEmailChange` goes by the address its caller read before the
transaction (`mailflow.go:468`, called from `user.go:277` and `resend.go:138`). If the
account had none then and has one now, it clears the column of the current half and
leaves the row, and the link of an earlier change can be followed after its code is
gone; if it had another one, the second link goes to that one. `LinkMatchesCode`,
`SpentStaysSpent` and `BothLinksFollowedUnlessRaced` now name this case, by the history
variable `outdated`.

Only model-checked: liveness (`DueIsHandled`, `DeliveriesSettle`), which is out of this
prover's reach; and, of the larger configurations, `SomeoneWins`, which needs a
greatest member of a finite set, as `Largest` gives for the ledger. Every safety
property that a run of section 3 finds to hold is proved.

## 5. Where code and documents differ

`factors_limit` is a run, and `PROJECT.json` lists it as a finding: the passkeys of an
account are counted in the transaction that inserts one, without a lock on the
account, so two registrations each see the rows committed before and exceed the
limit together; `passkeys.go:392` says that they must not.

For these TLC shows the trace under the configuration named:

* `ErasurePipeline_resume` (`ReleaseResumesParked`): `ReleaseHold` resumes what is
  parked at that moment; a runner that read the gate before parks its request
  afterwards, and nobody resumes it.
* `ErasurePipeline_regrow` (`DoneMeansGone`): the account can be used until the last
  step, so a DONE request may leave a session made after the session step.
* `DeliveryTasks_crashloop` (`CrashLoopIsDeadLettered`): a task that kills its worker is
  reclaimed without limit; the comment says the attempt counter dead-letters it.
* `SubjectVault_evidence` (`EvidenceHasExpiry`): a consent change that mints the CONSENT
  key after step 900 wrote `shred_after` leaves evidence whose key never expires;
  the comment says the evidence dies at `shred_after`.
* `AuthSessions_upgrade` (`UpgradeRetiresToken`): the aal1 token that a factor
  verification revoked is answered with the aal2 session's token inside the reuse
  interval; the comment says that it can never be replayed into an AAL2 session.
* `OneTimeTokens_race` (`BothLinksFollowed`): the half of a change of address that is
  confirmed first is read before it is written, so a redemption that races another
  write of the account, an administrator's link, or a half discarded after its
  message was refused lets a change land with one link followed; `mailflow.go:451`
  and `user.go:63` ask for both. `BothLinksFollowedUnlessRaced` names these and
  the outdated change of section 4.
* `Identities_drift` (`ClosesTakeover`): when an identity is known already, the account
  is the identity's and the verification is the one the provider states now, for
  whatever address (`external_callback.go:318`, `:555`), so an account whose provider
  changed the address is confirmed with its earlier holder inside; the comments at
  `:546` and `:649` speak of closing that hole.
* `OAuthServer_deleted` (`DeletedKeepsNothing`): the exchange of a code that found its
  client before the deletion grants a session after it; `oauthserver_clients.go:457`
  says that a deleted client keeps no live grant.

Met while reading, and visible in the models only as what a property leaves out:

* A request that was parked and resumed is REQUESTED again and can be canceled
  with steps already carried out, although `requests.go:302` speaks of the grace
  period. No operation takes a request out of MANUAL_REVIEW except a released hold.
* The poll orders by `scheduled_at` alone: twenty requests whose step always fails
  keep every other request from being polled (`pipeline.go:65`).
* A webhook that answers 2xx without a receipt completes its task (`tasks.go:282`)
  although `pipeline.go:406` speaks of receipts.
* A consent change after the account step puts a row of an erased subject into
  `consent_state` again (`consent.go:234`). The new row has forgotten the notices of the
  old one, so the subject can be asked again, and sooner than a period after the last
  notice, although `pipeline.go:565` says that an erased person is asked nothing
  again; `NoticesAreDue` leaves such subjects out. The limit on a subject's purposes is
  counted under a lock on one purpose (`consent.go:199`).
* A `user.deleted` event counts as handled while a request exists that may be
  canceled later (`outbox.go:103`).
* `cleanup.go:65` calls every row it deletes unusable, which after a factor
  verification is not so, since `finalizeFactorVerification` leaves `refreshed_at`
  alone (`CleanupTakesUnusable` leaves out these tokens). `store.go:418` says that the
  lock on the presented token serialises the refreshes that `checkSinglePerUser`
  compares, which it does only within one session. A password grant that has
  compared the old password makes its session after a password change has ended
  all others (`user.go:335`).
* A token whose message was refused is discarded in two statements; a redemption
  between them finds the half that is left (`SpentStaysSpent` leaves out such
  tokens). A change of address written by a request that had read the account without
  one leaves the row of the other half (`mailflow.go:468`, `LinkMatchesCode` leaves out
  such accounts). A generated link of an address change leaves the other half of an
  earlier change in force (`generate_link.go:252`).
* An identity of a provider whose subject is the account's id is linked to a SAML
  account as to any other. Sign-ins of other providers with the same address then follow
  it, since only SAML identities are left out of the search, not the identities of SAML
  accounts (`identity.go:77`), although `identity.go:81` keeps the two apart
  (`SSOStaysApart` leaves out accounts that a provider named).
* Two unlinks each count the identities before either deletes (`identity.go:353`), so
  an account can be left without one. The relay state is read and deleted in two
  statements, and both of two equal responses may find it (`saml_acs.go:248`).
* A session remembers the factor it verified last: when it verified two and both
  are removed, the claim of the first stays (`factors.go:664`) and the session is
  aal2 by its claims; the dangerous disagreement, a row without a claim, cannot
  happen (`ClaimsBackAAL2`).
* A code that is out when its grant is revoked can still be exchanged
  (`RevocationHolds` leaves out codes that rest on the earlier consent). A client is
  read and written back as a whole, so an update can undo a regenerated secret
  (`oauthserver_clients.go:441`).
* `GrantRole` checks and inserts in two statements, so a pair can get two live
  assignments (`UnambiguousUnlessRaced`), although `iam.go:437` calls that a conflict.

## 6. Plan

What is left of the proofs:

1. `SomeoneWins` of `AuthSessions`, with `Largest`.
2. An abstract promise for the codes and grants of `OAuthServer`, as `SessionLifecycle` is
   for sessions: its three properties are proved one by one, and the refinement would
   say in one formula what becomes of a grant from its request to its revocation.

## 7. Not modelled

* Audit sink: each event is appended in a transaction of its own, and nothing
  reads it to decide anything.
* Instances: engines are built once per instance and kept.
* HTTP decoding and projection, DDL, configuration, hooks, address filters, the
  development mail catcher, logging, wiring, the console and generated clients keep
  no state of their own.
* Policies: parsing and validating YAML is a function of a text; what a request or
  a scan takes from a policy is a constant of the models.
* EXPORT and CONSENT_WITHDRAWAL requests are recorded and advanced by no worker.
* The throttle on password sign-in is the one of factors (`SecondFactors`); the rate
  limits of an address and the captcha only refuse. The `not_after` of SAML sessions
  and the retention of audit logs are comparisons with a clock in one statement.
* Signatures, ciphers, hashes and the protocols of providers are trusted.
