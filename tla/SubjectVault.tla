---------------------------- MODULE SubjectVault ----------------------------
(***************************************************************************)
(* The PII vault of one data subject: the subject keys (kmslocal.go), the  *)
(* sealed profile and its blind index (profile.go, search.go), the sealed  *)
(* consent evidence (consent.go), the steps 900 and 1000 of the erasure    *)
(* pipeline that shred and remove them (pipeline.go), and the retention    *)
(* sweep that shreds the evidence later (retention.go).                    *)
(*                                                                         *)
(* All rows are keyed by the subject, so one subject is the general case.  *)
(* A key is named by the call that minted it, a value by the call that set *)
(* it.  A ciphertext is what was sealed and a number: two seals never give *)
(* the same bytes.  Runs of the pipeline exclude each other (StepsOwnRequest *)
(* of ErasurePipeline).                                                    *)
(***************************************************************************)
EXTENDS Integers, FiniteSets

CONSTANTS
    Fields,       \* profile field keys
    Patchers,     \* calls of UpdateProfile
    Recorders,    \* calls of UpdateConsent
    Patches,      \* what an UpdateProfile may ask: [set, remove]
    Policies,     \* policies a request can snapshot: [keep, retain]
    MaxFields,    \* maxProfileFields
    MaxTries,     \* attempts of the optimistic loop
    NoKey, Shredded, NoValue,
    Earlier,      \* a call that ended before
    Stored,       \* profiles that earlier calls may have stored
    MaxRequests,  \* bound: erasure requests
    MaxHalts,     \* bound: runs of the pipeline that stop half way
    MaxHolds      \* bound: legal holds

Calls == Patchers \cup Recorders
Keys == Calls \cup {Earlier}
Values == Patchers \cup {Earlier}
Steps == {"subject-key", "account"}

Size(doc) == Cardinality({f \in Fields : doc[f] # NoValue})

ASSUME VaultAssumption ==
    /\ Patchers \cap Recorders = {}
    /\ Earlier \notin Calls
    /\ NoKey \notin Keys /\ Shredded \notin Keys /\ NoKey # Shredded
    /\ NoValue \notin Values
    /\ Patches \subseteq [set : SUBSET Fields, remove : SUBSET Fields]
    /\ \A d \in Stored : d \in [Fields -> {Earlier, NoValue}] /\ Size(d) \in 1 .. MaxFields
    /\ Policies \subseteq [keep : SUBSET Steps, retain : BOOLEAN]
    /\ MaxFields \in Nat /\ MaxTries \in Nat \ {0}
    /\ MaxRequests \in Nat /\ MaxHalts \in Nat /\ MaxHolds \in Nat

VARIABLES
    key,          \* subject_keys: key[scope]
    profile,      \* user_profiles: [ver, key, fields], ver = 0 while there is no row
    index,        \* profile_search_index
    evidence,     \* keys that sealed the evidence in consent_events
    asked,        \* whether consent_state has a row
    shredAfter,   \* shred_after of the CONSENT key: "unset", "set" or "due"
    tombstone,    \* erasure_registry has the subject
    held,         \* a legal hold that covers consent-evidence is active
    \* the calls
    pc, patch, tries,
    before,       \* before[c]: the profile row c read
    dek,          \* dek[c]: the key c has in memory
    \* the erasure request and the run that carries it out
    request, policy, logged, epc,
    \* the retention sweep
    sweep,
    \* history
    meant,        \* the profile the committed patches ask for, in commit order
    seals,        \* number of profiles stored
    accountBegun, \* an account step has begun to delete
    lateHold,     \* the hold came after the sweep's last look
    requests, halts, holds

rowVars == <<key, profile, index, evidence, asked, shredAfter, tombstone>>
callVars == <<pc, patch, tries, before, dek>>
runVars == <<request, policy, logged, epc, requests, halts>>
holdVars == <<held, lateHold, holds>>
histVars == <<meant, seals, accountBegun>>
vaultVars == <<rowVars, callVars, runVars, holdVars, sweep, histVars>>

NoFields == [f \in Fields |-> NoValue]
NoProfile == [ver |-> 0, key |-> NoKey, fields |-> NoFields]

Scopes == {"DEFAULT", "CONSENT"}
KeyRows == Keys \cup {NoKey, Shredded}
Documents == [Fields -> Values \cup {NoValue}]
Profiles == [ver : Nat, key : KeyRows, fields : Documents]
Returned == {"ok", "conflict", "notfound", "invalid", "failed"}
CallPCs == {"start", "read", "decode", "load", "mint", "reload", "commit"} \cup Returned
RunPCs == {"idle", "key", "consentKey", "profile", "state", "index", "tombstone", "finish"}

VaultTypeOK ==
    /\ key \in [Scopes -> KeyRows]
    /\ profile \in Profiles
    /\ index \in Documents
    /\ evidence \subseteq Keys
    /\ asked \in BOOLEAN
    /\ shredAfter \in {"unset", "set", "due"}
    /\ tombstone \in BOOLEAN
    /\ pc \in [Calls -> CallPCs]
    /\ patch \in [Patchers -> Patches]
    /\ tries \in [Patchers -> Nat]
    /\ before \in [Calls -> Profiles]
    /\ dek \in [Calls -> KeyRows]
    /\ request \in {"none", "REQUESTED", "PROCESSING", "DONE", "CANCELED"}
    /\ policy \in [keep : SUBSET Steps, retain : BOOLEAN]
    /\ logged \subseteq Steps
    /\ epc \in RunPCs
    /\ sweep \in {"idle", "check", "shred"}
    /\ held \in BOOLEAN /\ lateHold \in BOOLEAN
    /\ meant \in Documents
    /\ seals \in Nat
    /\ accountBegun \in BOOLEAN
    /\ requests \in Nat /\ halts \in Nat /\ holds \in Nat
    /\ \A c \in Recorders : pc[c] = "commit" => dek[c] \in Keys

\* The vault is empty, or earlier calls have used either key.
VaultInit ==
    /\ key \in [Scopes -> {NoKey, Earlier}]
    /\ profile \in {NoProfile} \cup {[ver |-> 1, key |-> Earlier, fields |-> d] : d \in Stored}
    /\ profile.key = key["DEFAULT"]
    /\ index = profile.fields
    /\ evidence = {key["CONSENT"]} \ {NoKey}
    /\ asked = (evidence # {})
    /\ shredAfter = "unset"
    /\ tombstone = FALSE
    /\ pc = [c \in Calls |-> IF c \in Patchers THEN "start" ELSE "load"]
    /\ patch \in [Patchers -> Patches]
    /\ tries = [p \in Patchers |-> 0]
    /\ before = [c \in Calls |-> NoProfile]
    /\ dek = [c \in Calls |-> NoKey]
    /\ request = "none"
    /\ policy = [keep |-> {}, retain |-> FALSE]
    /\ logged = {}
    /\ epc = "idle"
    /\ sweep = "idle"
    /\ held = FALSE /\ lateHold = FALSE
    /\ meant = profile.fields
    /\ seals = 1
    /\ accountBegun = FALSE
    /\ requests = 0 /\ halts = 0 /\ holds = 0

-----------------------------------------------------------------------------
(***************************************************************************)
(* Subject keys: KMS.dek, whose load, insert and second load are three     *)
(* statements, and DestroyDEK.                                             *)
(***************************************************************************)
Scope(c) == IF c \in Patchers THEN "DEFAULT" ELSE "CONSENT"

\* Call c goes on at `where' with key k and row b in its locals; they go out of
\* scope when the call returns and when an attempt is repeated.
Continue(c, where, k, b) ==
    LET over == where \in Returned \cup {"start"}
    IN /\ pc' = [pc EXCEPT ![c] = where]
       /\ dek' = [dek EXCEPT ![c] = IF over THEN NoKey ELSE k]
       /\ before' = [before EXCEPT ![c] = IF over THEN NoProfile ELSE b]

\* The outcome of KMS.load: no row, a shredded row, or a key to unwrap.
TakeKey(c, onMissing) ==
    LET k == key[Scope(c)]
        where == CASE k = NoKey -> onMissing [] k = Shredded -> "failed" [] OTHER -> "commit"
    IN Continue(c, where, k, before[c])

\* Encrypt starts here.
Load(c) ==
    /\ pc[c] = "load"
    /\ TakeKey(c, "mint")
    /\ UNCHANGED <<rowVars, patch, tries, runVars, holdVars, sweep, histVars>>

\* Variants named Mut... are plausible slips of the code; each breaks a property.
MutMintOverwrites(c) ==
    /\ pc[c] = "mint"
    /\ key' = [key EXCEPT ![Scope(c)] = c]
    /\ Continue(c, "commit", c, before[c])
    /\ UNCHANGED <<profile, index, evidence, asked, shredAfter, tombstone,
                   patch, tries, runVars, holdVars, sweep, histVars>>

MutMintKeepsFresh(c) ==
    /\ pc[c] = "mint"
    /\ key' = IF key[Scope(c)] = NoKey THEN [key EXCEPT ![Scope(c)] = c] ELSE key
    /\ Continue(c, "commit", c, before[c])
    /\ UNCHANGED <<profile, index, evidence, asked, shredAfter, tombstone,
                   patch, tries, runVars, holdVars, sweep, histVars>>

\* insert ... on conflict do nothing; the loser reads the winner's key.
Mint(c) ==
    /\ pc[c] = "mint"
    /\ IF key[Scope(c)] = NoKey
       THEN /\ key' = [key EXCEPT ![Scope(c)] = c]
            /\ Continue(c, "commit", c, before[c])
       ELSE /\ Continue(c, "reload", NoKey, before[c])
            /\ UNCHANGED key
    /\ UNCHANGED <<profile, index, evidence, asked, shredAfter, tombstone,
                   patch, tries, runVars, holdVars, sweep, histVars>>

Reload(c) ==
    /\ pc[c] = "reload"
    /\ TakeKey(c, "failed")
    /\ UNCHANGED <<rowVars, patch, tries, runVars, holdVars, sweep, histVars>>

\* A DestroyDEK that only acts on an existing row.
MutDestroyDEKLeavesNoTombstone(s) ==
    key' = IF key[s] = NoKey THEN key ELSE [key EXCEPT ![s] = Shredded]

\* DestroyDEK upserts: a subject without a key gets a shredded row.
DestroyDEK(s) == key' = [key EXCEPT ![s] = Shredded]

-----------------------------------------------------------------------------
(***************************************************************************)
(* Profiles: UpdateProfile and patchProfile.                               *)
(***************************************************************************)

\* hasActiveDeletion; a parked request is active and is REQUESTED or
\* PROCESSING here.
HasActiveDeletion == request \in {"REQUESTED", "PROCESSING"}

\* The merged document: the keys of set, then those of remove.
Merge(doc, p) ==
    [f \in Fields |-> IF f \in patch[p].remove THEN NoValue
                      ELSE IF f \in patch[p].set THEN p ELSE doc[f]]

\* Where patchProfile goes once it has the decoded document.
AfterDecode(p, doc) ==
    IF Size(Merge(doc, p)) > MaxFields THEN "invalid"
    ELSE IF Merge(doc, p) = NoFields THEN "commit" ELSE "load"

StartPatch(p) ==
    /\ pc[p] = "start"
    /\ Continue(p, IF HasActiveDeletion THEN "conflict" ELSE "read", NoKey, NoProfile)
    /\ UNCHANGED <<rowVars, patch, tries, runVars, holdVars, sweep, histVars>>

ReadProfile(p) ==
    /\ pc[p] = "read"
    /\ Continue(p, IF profile.ver = 0 THEN AfterDecode(p, NoFields) ELSE "decode", NoKey, profile)
    /\ UNCHANGED <<rowVars, patch, tries, runVars, holdVars, sweep, histVars>>

\* Decrypt under the key of the row; what cannot be opened is reported absent.
DecodeProfile(p) ==
    /\ pc[p] = "decode"
    /\ Continue(p, IF key["DEFAULT"] = before[p].key
                   THEN AfterDecode(p, before[p].fields) ELSE "notfound", NoKey, before[p])
    /\ UNCHANGED <<rowVars, patch, tries, runVars, holdVars, sweep, histVars>>

\* What the transaction calls erased.
Erased == tombstone \/ key["DEFAULT"] = Shredded

\* The row still holds the bytes patchProfile started from.
MutUnchangedSince(p) == (profile.ver = 0) = (before[p].ver = 0)

UnchangedSince(p) == profile.ver = before[p].ver

MutSyncSearchIndexAddsOnly(doc) ==
    index' = [f \in Fields |-> IF doc[f] = NoValue THEN index[f] ELSE doc[f]]

\* syncSearchIndex: delete all rows, insert one per field.
SyncSearchIndex(doc) == index' = doc

\* The transaction.  It holds the subject lock, which CreateRequest takes too,
\* so no run begins before it ends and its statements are one action.
CommitPatch(p) ==
    /\ p \in Patchers
    /\ pc[p] = "commit"
    /\ IF HasActiveDeletion \/ Erased
       THEN /\ Continue(p, "conflict", NoKey, NoProfile)
            /\ UNCHANGED <<profile, index, tries, meant, seals>>
       ELSE IF ~UnchangedSince(p)
       THEN /\ tries' = [tries EXCEPT ![p] = @ + 1]
            /\ Continue(p, IF tries[p] + 1 < MaxTries THEN "start" ELSE "conflict", NoKey, NoProfile)
            /\ UNCHANGED <<profile, index, meant, seals>>
       ELSE /\ LET doc == Merge(before[p].fields, p)
               IN /\ profile' = IF doc = NoFields THEN NoProfile
                                ELSE [ver |-> seals + 1, key |-> dek[p], fields |-> doc]
                  /\ SyncSearchIndex(doc)
            /\ meant' = Merge(meant, p)
            /\ seals' = seals + 1
            /\ Continue(p, "ok", NoKey, NoProfile)
            /\ UNCHANGED tries
    /\ UNCHANGED <<key, evidence, asked, shredAfter, tombstone, patch,
                   runVars, holdVars, sweep, accountBegun>>

\* UpdateConsent: the evidence was sealed before the transaction that appends
\* it and projects it into consent_state.  It looks at no request.
CommitConsent(c) ==
    /\ c \in Recorders
    /\ pc[c] = "commit"
    /\ evidence' = evidence \cup {dek[c]}
    /\ asked' = TRUE
    /\ Continue(c, "ok", NoKey, NoProfile)
    /\ UNCHANGED <<key, profile, index, shredAfter, tombstone, patch, tries,
                   runVars, holdVars, sweep, histVars>>

-----------------------------------------------------------------------------
(***************************************************************************)
(* The erasure of the subject: requests.go, and the steps 900 and 1000 of  *)
(* pipeline.go statement by statement.                                     *)
(***************************************************************************)
CreateRequest ==
    /\ requests < MaxRequests
    /\ ~HasActiveDeletion
    /\ requests' = requests + 1
    /\ request' = "REQUESTED"
    /\ policy' \in Policies
    /\ logged' = {}
    /\ UNCHANGED <<rowVars, callVars, epc, halts, holdVars, sweep, histVars>>

CancelRequest ==
    /\ request = "REQUESTED"
    /\ request' = "CANCELED"
    /\ UNCHANGED <<rowVars, callVars, policy, logged, epc, requests, halts, holdVars, sweep, histVars>>

\* The first statement of the next step that is neither logged nor kept.
NextStep(log) ==
    IF "subject-key" \notin log \cup policy.keep THEN "key"
    ELSE IF "account" \notin log \cup policy.keep THEN "profile" ELSE "finish"

BeginRun ==
    /\ HasActiveDeletion
    /\ epc = "idle"
    /\ request' = "PROCESSING"
    /\ epc' = NextStep(logged)
    /\ UNCHANGED <<rowVars, callVars, policy, logged, requests, halts, holdVars, sweep, histVars>>

\* Step 900: the DEFAULT key goes at once,
ShredDefaultKey ==
    /\ epc = "key"
    /\ DestroyDEK("DEFAULT")
    /\ epc' = "consentKey"
    /\ UNCHANGED <<profile, index, evidence, asked, shredAfter, tombstone, callVars,
                   request, policy, logged, requests, halts, holdVars, sweep, histVars>>

\* the CONSENT key too, unless the policy retains the evidence: then
\* shred_after is written into the row, if there is one.
ExpireConsentKey ==
    /\ epc = "consentKey"
    /\ IF policy.retain
       THEN /\ shredAfter' = IF key["CONSENT"] \in Keys THEN "set" ELSE shredAfter
            /\ UNCHANGED key
       ELSE DestroyDEK("CONSENT") /\ UNCHANGED shredAfter
    /\ logged' = logged \cup {"subject-key"}
    /\ epc' = NextStep(logged')
    /\ UNCHANGED <<profile, index, evidence, asked, tombstone, callVars,
                   request, policy, requests, halts, holdVars, sweep, histVars>>

\* Step 1000, four statements.
DeleteProfile ==
    /\ epc = "profile"
    /\ profile' = NoProfile
    /\ meant' = NoFields
    /\ accountBegun' = TRUE
    /\ epc' = "state"
    /\ UNCHANGED <<key, index, evidence, asked, shredAfter, tombstone, callVars,
                   request, policy, logged, requests, halts, holdVars, sweep, seals>>

DeleteConsentState ==
    /\ epc = "state"
    /\ asked' = FALSE
    /\ epc' = "index"
    /\ UNCHANGED <<key, profile, index, evidence, shredAfter, tombstone, callVars,
                   request, policy, logged, requests, halts, holdVars, sweep, histVars>>

DeleteIndex ==
    /\ epc = "index"
    /\ index' = NoFields
    /\ epc' = "tombstone"
    /\ UNCHANGED <<key, profile, evidence, asked, shredAfter, tombstone, callVars,
                   request, policy, logged, requests, halts, holdVars, sweep, histVars>>

WriteTombstone ==
    /\ epc = "tombstone"
    /\ tombstone' = TRUE
    /\ logged' = logged \cup {"account"}
    /\ epc' = "finish"
    /\ UNCHANGED <<key, profile, index, evidence, asked, shredAfter, callVars,
                   request, policy, requests, halts, holdVars, sweep, histVars>>

Finish ==
    /\ epc = "finish"
    /\ request' = "DONE"
    /\ epc' = "idle"
    /\ UNCHANGED <<rowVars, callVars, policy, logged, requests, halts, holdVars, sweep, histVars>>

\* The run stops (crash, error, or parked by a hook or a hold); a hold that is
\* released puts the request back to REQUESTED.
Halt ==
    /\ epc # "idle"
    /\ halts < MaxHalts
    /\ halts' = halts + 1
    /\ epc' = "idle"
    /\ request' \in {"REQUESTED", "PROCESSING"}
    /\ UNCHANGED <<rowVars, callVars, policy, logged, requests, holdVars, sweep, histVars>>

-----------------------------------------------------------------------------
(***************************************************************************)
(* The retention sweep, and the holds that gate it.                        *)
(***************************************************************************)
ShredFallsDue ==
    /\ shredAfter = "set"
    /\ shredAfter' = "due"
    /\ UNCHANGED <<key, profile, index, evidence, asked, tombstone, callVars, runVars,
                   holdVars, sweep, histVars>>

\* sweepConsentShredDue selects the key,
SweepSelect ==
    /\ sweep = "idle"
    /\ key["CONSENT"] \in Keys
    /\ shredAfter = "due"
    /\ ~held
    /\ sweep' = "check"
    /\ UNCHANGED <<rowVars, callVars, runVars, holdVars, histVars>>

MutSweepCheckTrustsSelect ==
    /\ sweep = "check"
    /\ sweep' = "shred"
    /\ UNCHANGED <<rowVars, callVars, runVars, holdVars, histVars>>

\* shredConsentKeys asks for a hold again,
SweepCheck ==
    /\ sweep = "check"
    /\ sweep' = IF held THEN "idle" ELSE "shred"
    /\ UNCHANGED <<rowVars, callVars, runVars, holdVars, histVars>>

\* and destroys.
SweepShred ==
    /\ sweep = "shred"
    /\ DestroyDEK("CONSENT")
    /\ sweep' = "idle"
    /\ lateHold' = FALSE
    /\ UNCHANGED <<profile, index, evidence, asked, shredAfter, tombstone, callVars,
                   runVars, held, holds, histVars>>

CreateHold ==
    /\ ~held
    /\ holds < MaxHolds
    /\ holds' = holds + 1
    /\ held' = TRUE
    /\ lateHold' = (sweep = "shred")
    /\ UNCHANGED <<rowVars, callVars, runVars, sweep, histVars>>

ReleaseHold ==
    /\ held
    /\ held' = FALSE
    /\ lateHold' = FALSE
    /\ UNCHANGED <<rowVars, callVars, runVars, holds, sweep, histVars>>

-----------------------------------------------------------------------------
Call(c) ==
    \/ Load(c) \/ Mint(c) \/ Reload(c)
    \/ CommitPatch(c) \/ CommitConsent(c)

Patching(p) == StartPatch(p) \/ ReadProfile(p) \/ DecodeProfile(p)

Erasing ==
    \/ BeginRun \/ ShredDefaultKey \/ ExpireConsentKey \/ DeleteProfile
    \/ DeleteConsentState \/ DeleteIndex \/ WriteTombstone \/ Finish

Sweeping == SweepSelect \/ SweepCheck \/ SweepShred

VaultNext ==
    \/ \E c \in Calls : Call(c)
    \/ \E p \in Patchers : Patching(p)
    \/ CreateRequest \/ CancelRequest \/ Erasing \/ Halt
    \/ ShredFallsDue \/ Sweeping \/ CreateHold \/ ReleaseHold

VaultSpec == VaultInit /\ [][VaultNext]_vaultVars

-----------------------------------------------------------------------------
(***************************************************************************)
(* Properties.                                                             *)
(***************************************************************************)

(* "Concurrent patches therefore merge, never overwrite": the stored        *)
(* profile is what the committed patches ask for, one after the other, and  *)
(* a patch that started from an outdated row is never stored.               *)
PatchesMerge == profile.fields = meant

(* The index answers for the stored profile and for nothing else; only an   *)
(* account step that stopped between its deletes leaves rows behind.        *)
IndexMirrorsProfile ==
    index # profile.fields => accountBegun /\ profile = NoProfile

(* What is stored can be read: although two first uses of a key race to     *)
(* mint it, a profile and every piece of evidence were sealed with the key  *)
(* of the row, for as long as that is not shredded.                         *)
SealedUnderStoredKey ==
    /\ profile.ver # 0 /\ key["DEFAULT"] # Shredded => profile.key = key["DEFAULT"]
    /\ key["CONSENT"] # Shredded => evidence \subseteq {key["CONSENT"]}

(* An erased subject stays erased: once the registry has the tombstone no   *)
(* profile and no index row exists, whatever patch was under way; and after *)
(* the key step the key is shredded, also when there was none, so that a    *)
(* later Encrypt "cannot silently mint a fresh key for an erased subject".  *)
ErasedStaysErased ==
    /\ tombstone => profile = NoProfile /\ index = NoFields
    /\ "subject-key" \in logged => key["DEFAULT"] = Shredded

(* A key is minted once and shredded once: a shredded key never comes back, *)
(* a live one is never replaced, and no profile is stored for a subject     *)
(* whose key is gone.                                                       *)
ShredIsForever ==
    [][/\ \A s \in Scopes : key'[s] # key[s] => key[s] # Shredded /\ (key[s] = NoKey \/ key'[s] = Shredded)
       /\ key["DEFAULT"] = Shredded => profile' \in {profile, NoProfile}]_vaultVars

(* The sweep never shreds evidence under a hold that was in force when it   *)
(* looked for the last time.                                                *)
HoldStopsSweep == sweep = "shred" /\ held => lateHold

(* consent.go: evidence "survives account erasure and dies at shred_after": *)
(* once the key step of a request is done a live CONSENT key has an expiry. *)
EvidenceHasExpiry ==
    request = "DONE" /\ "subject-key" \in logged /\ key["CONSENT"] \in Keys =>
        shredAfter # "unset"
=============================================================================
