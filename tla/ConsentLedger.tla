---------------------------- MODULE ConsentLedger ----------------------------
(***************************************************************************)
(* The consent ledger, its projection, the reconfirm scanner and the       *)
(* outbox dispatcher of the privacy engine (privacy/consent.go, outbox.go, *)
(* and CreateRequest and CancelRequest of requests.go).                    *)
(*                                                                         *)
(* A consent is one (user, purpose) pair; consents are numbered in the     *)
(* order of the projection's key.  A consent change and a notice commit in *)
(* transactions that hold the pair's advisory lock, so each is one step;   *)
(* what they read before (the policy, the clock, the candidates of a scan) *)
(* is a step of its own.  Several engines run, not always of one revision  *)
(* of the policies.  Times start at 1, and 0 is a time that is not set.    *)
(***************************************************************************)
EXTENDS Naturals, Sequences, FiniteSets

CONSTANTS
    Subjects, Consents, SubjectOf,
    Revisions, Policies, Default,
    Rules,          \* [Revisions -> policies -> [period : Nat, required : BOOLEAN]]:
                    \* per revision, the policies it defines
    Engines, Updates, Destinations, None,
    Configs,        \* [features : SUBSET Features, backfilled : SUBSET Consents,
                    \*  batch : Nat \ {0}, maxTime, maxEvents : Nat]
    MaxOutbox       \* bound: events ever put into the outbox

Features == {"consents", "scan", "policies", "erasure", "outbox", "crash"}

ASSUME LedgerAssumption ==
    /\ Consents \subseteq Nat \ {0} /\ IsFiniteSet(Consents)
    /\ SubjectOf \in [Consents -> Subjects]
    /\ Default \in Policies
    /\ \A r \in Revisions : /\ Default \in DOMAIN Rules[r]
                            /\ DOMAIN Rules[r] \subseteq Policies
                            /\ \A p \in DOMAIN Rules[r] : Rules[r][p] \in [period : Nat, required : BOOLEAN]
    /\ Configs \subseteq [features : SUBSET Features, backfilled : SUBSET Consents,
                          batch : Nat \ {0}, maxTime : Nat, maxEvents : Nat]
    /\ MaxOutbox \in Nat

VARIABLES
    conf,       \* the configuration, fixed for a behaviour
    now,
    assigned,   \* dilion_privacy.subject_policies
    revision,   \* the policies each engine runs with
    ledger,     \* dilion_privacy.consent_events, per consent
    row,        \* dilion_privacy.consent_state
    shredded,   \* subjects whose CONSENT key is destroyed
    upd,        \* consent changes under way
    scan,       \* the scanner of each engine
    outbox,     \* dilion_privacy.outbox
    disp,       \* the dispatcher of each engine
    request,    \* the DELETION requests
    task,       \* reconfirm tasks: <<outbox id, destination>>
    events

ledgerVars == <<ledger, row, shredded>>
intakeVars == <<outbox, disp, request, task>>
vars == <<conf, now, assigned, revision, ledgerVars, upd, scan, intakeVars, events>>

Event(feature) == feature \in conf.features /\ events < conf.maxEvents /\ events' = events + 1

Later(a, b) == IF a > b THEN a ELSE b

-----------------------------------------------------------------------------
(***************************************************************************)
(* Policies.                                                               *)
(***************************************************************************)

\* coalesce(sp.policy_id, default).
PolicyOf(s) == IF assigned[s] = None THEN Default ELSE assigned[s]

\* Resolve: a policy the revision does not define is the default one.
Resolve(r, p) == IF p \in DOMAIN Rules[r] THEN p ELSE Default
Period(r, p) == Rules[r][Resolve(r, p)].period

\* reconfirmDue, from the grant or the last notice.
ReconfirmDue(r, p, granted, at, notice) ==
    IF granted /\ Period(r, p) > 0 THEN Later(at, notice) + Period(r, p) ELSE 0

-----------------------------------------------------------------------------
(***************************************************************************)
(* The ledger and UpdateConsent.                                           *)
(***************************************************************************)

NoRow == [granted |-> FALSE, at |-> 0, notice |-> 0, due |-> 0, policy |-> None, revision |-> None]
Present == {c \in Consents : row[c] # NoRow}

Changes(c) == {i \in DOMAIN ledger[c] : ledger[c][i].action # "RECONFIRM_NOTICE"}
Notices(c) == DOMAIN ledger[c] \ Changes(c)

\* select max(created_at): 0 when there is none.
LastAt(c, S) == IF S = {} THEN 0 ELSE CHOOSE t \in {ledger[c][i].at : i \in S} : \A i \in S : ledger[c][i].at <= t

\* GetConsents, scanConsentSegment and ExportConsentAudience: the newest by
\* (created_at, id).
Latest(c) ==
    CHOOSE i \in Changes(c) : \A j \in Changes(c) :
        \/ ledger[c][j].at < ledger[c][i].at
        \/ ledger[c][j].at = ledger[c][i].at /\ j <= i

AppendEvent(c, action, at, period) ==
    ledger' = [ledger EXCEPT ![c] = Append(@, [action |-> action, at |-> at, period |-> period])]

NoUpdate == [pc |-> "idle", c |-> 0, granted |-> FALSE, at |-> 0, policy |-> None, revision |-> None]

\* The policy is resolved, a required consent stays, the clock is read and
\* the evidence sealed, which needs the subject's key.
UpdateConsent(w, e, c, granted) ==
    LET p == Resolve(revision[e], PolicyOf(SubjectOf[c]))
    IN  /\ Event("consents")
        /\ upd[w].pc = "idle"
        /\ ~granted => ~Rules[revision[e]][p].required
        /\ SubjectOf[c] \notin shredded
        /\ upd' = [upd EXCEPT ![w] = [pc |-> "sealed", c |-> c, granted |-> granted, at |-> now,
                                      policy |-> p, revision |-> revision[e]]]
        /\ UNCHANGED <<conf, now, assigned, revision, ledgerVars, scan, intakeVars>>

\* Variants named Mut... are plausible slips of the code; each breaks a property.
MutStampedAsRead(w) == upd[w].at

\* A change is recorded after the one before it, whatever the clocks say.
Stamped(w) ==
    LET previous == LastAt(upd[w].c, Changes(upd[w].c))
    IN  IF previous > 0 /\ upd[w].at <= previous THEN previous + 1 ELSE upd[w].at

\* The event and the row, under the pair's lock.
CommitConsent(w) ==
    LET u == upd[w]
        c == u.c
        at == Stamped(w)
    IN  /\ u.pc = "sealed"
        /\ AppendEvent(c, IF u.granted THEN "GRANT" ELSE "WITHDRAW", at, 0)
        /\ row' = [row EXCEPT ![c] = [granted |-> u.granted, at |-> at, notice |-> @.notice,
                                      due |-> ReconfirmDue(u.revision, u.policy, u.granted, at, LastAt(c, Notices(c))),
                                      policy |-> u.policy, revision |-> u.revision]]
        /\ upd' = [upd EXCEPT ![w] = NoUpdate]
        /\ UNCHANGED <<conf, now, assigned, revision, shredded, scan, intakeVars, events>>

-----------------------------------------------------------------------------
(***************************************************************************)
(* The scanner: reconcileConsentSchedules, then scanReconfirmDue.          *)
(***************************************************************************)

NoScan == [pc |-> "idle", cursor |-> 0, todo |-> {}, at |-> 0]
Candidate(c) == [c |-> c, granted |-> row[c].granted, at |-> row[c].at, notice |-> row[c].notice,
                 policy |-> PolicyOf(SubjectOf[c])]
First(S) == CHOOSE x \in S : \A y \in S : x.c <= y.c

\* A row whose schedule was computed for the revision and the policy.
Current(e, c) == row[c].revision = revision[e] /\ row[c].policy = PolicyOf(SubjectOf[c])

\* The next page of rows after the cursor, which starts over after the last.
ReconcileRead(e) ==
    LET rest == {c \in Present : c > scan[e].cursor}
        page == {c \in rest : Cardinality({d \in rest : d < c}) < conf.batch}
    IN  /\ Event("scan")
        /\ scan[e].pc = "idle"
        /\ scan' = [scan EXCEPT ![e] =
                      [pc |-> "reconcile", at |-> 0,
                       todo |-> {Candidate(c) : c \in {d \in page : ~Current(e, d)}},
                       cursor |-> IF Cardinality(page) < conf.batch THEN 0
                                  ELSE CHOOSE c \in page : \A d \in page : d <= c]]
        /\ UNCHANGED <<conf, now, assigned, revision, ledgerVars, upd, intakeVars>>

\* The schedule is written if neither a change nor a notice came between.
ReconcileRow(e) ==
    LET x == First(scan[e].todo)
    IN  /\ scan[e].pc = "reconcile" /\ scan[e].todo # {}
        /\ IF row[x.c] # NoRow /\ row[x.c].at = x.at /\ row[x.c].notice = x.notice
           THEN row' = [row EXCEPT ![x.c].due = ReconfirmDue(revision[e], x.policy, x.granted, x.at, x.notice),
                                   ![x.c].policy = x.policy, ![x.c].revision = revision[e]]
           ELSE UNCHANGED row
        /\ scan' = [scan EXCEPT ![e].todo = @ \ {x}]
        /\ UNCHANGED <<conf, now, assigned, revision, ledger, shredded, upd, intakeVars, events>>

\* The rows that are due by the engine's clock, the longest due first.
ScanReconfirmDue(e) ==
    LET due == {c \in Present : /\ row[c].granted /\ Current(e, c)
                                /\ row[c].due \in 1 .. now
                                /\ SubjectOf[c] \notin shredded}
        before(c, d) == row[c].due < row[d].due \/ (row[c].due = row[d].due /\ c < d)
    IN  /\ scan[e].pc = "reconcile" /\ scan[e].todo = {}
        /\ scan' = [scan EXCEPT ![e].pc = "notify", ![e].at = now,
                                ![e].todo = {Candidate(c) : c \in
                                    {d \in due : Cardinality({b \in due : before(b, d)}) < conf.batch}}]
        /\ UNCHANGED <<conf, now, assigned, revision, ledgerVars, upd, intakeVars, events>>

MutStillDueIfGranted(e, x) == row[x.c].granted /\ row[x.c].at = x.at /\ Current(e, x.c)

\* The recheck of emitReconfirmNotice.
StillDue(e, x) ==
    /\ row[x.c].granted /\ row[x.c].at = x.at
    /\ Current(e, x.c) /\ row[x.c].policy = x.policy
    /\ row[x.c].due \in 1 .. scan[e].at

\* One candidate: the policy must ask for notices, the evidence is sealed,
\* and the notice, its outbox event and the next date are one transaction.
EmitReconfirmNotice(e) ==
    LET x == First(scan[e].todo)
        period == Period(revision[e], x.policy)
    IN  /\ scan[e].pc = "notify" /\ scan[e].todo # {}
        /\ IF period > 0 /\ SubjectOf[x.c] \notin shredded /\ StillDue(e, x) /\ Len(outbox) < MaxOutbox
           THEN /\ AppendEvent(x.c, "RECONFIRM_NOTICE", scan[e].at, period)
                /\ outbox' = Append(outbox, [type |-> "consent.reconfirm_due", subject |-> SubjectOf[x.c],
                                             published |-> FALSE])
                /\ row' = [row EXCEPT ![x.c].notice = scan[e].at, ![x.c].due = scan[e].at + period]
           ELSE UNCHANGED <<ledger, outbox, row>>
        /\ scan' = [scan EXCEPT ![e].todo = @ \ {x}]
        /\ UNCHANGED <<conf, now, assigned, revision, shredded, upd, disp, request, task, events>>

\* The pair's lock is taken, or sealing fails: the candidate is left for a
\* later scan.
SkipCandidate(e) ==
    /\ scan[e].pc = "notify" /\ scan[e].todo # {}
    /\ scan' = [scan EXCEPT ![e].todo = @ \ {First(@)}]
    /\ UNCHANGED <<conf, now, assigned, revision, ledgerVars, upd, intakeVars, events>>

EndScan(e) ==
    /\ scan[e].pc = "notify" /\ scan[e].todo = {}
    /\ scan' = [scan EXCEPT ![e] = [NoScan EXCEPT !.cursor = scan[e].cursor]]
    /\ UNCHANGED <<conf, now, assigned, revision, ledgerVars, upd, intakeVars, events>>

-----------------------------------------------------------------------------
(***************************************************************************)
(* Deletion requests and the dispatcher.                                   *)
(***************************************************************************)

\* hasActiveDeletion, under the subject's lock.
Active(s) == \E i \in DOMAIN request : request[i].subject = s /\ request[i].status = "REQUESTED"
Deleted(s) == \E i \in DOMAIN request : request[i].subject = s /\ request[i].status = "DONE"

\* CreateRequest of the API, without an idempotency key.
CreateRequest(s) ==
    /\ Event("outbox")
    /\ ~Active(s)
    /\ request' = Append(request, [subject |-> s, status |-> "REQUESTED", key |-> 0])
    /\ UNCHANGED <<conf, now, assigned, revision, ledgerVars, upd, scan, outbox, disp, task>>

CancelRequest(i) ==
    /\ Event("outbox")
    /\ request[i].status = "REQUESTED"
    /\ request' = [request EXCEPT ![i].status = "CANCELED"]
    /\ UNCHANGED <<conf, now, assigned, revision, ledgerVars, upd, scan, outbox, disp, task>>

\* The auth server deletes an account and puts the event into the outbox in
\* the same transaction.
UserDeleted(s) ==
    /\ Event("outbox")
    /\ Len(outbox) < MaxOutbox
    /\ outbox' = Append(outbox, [type |-> "user.deleted", subject |-> s, published |-> FALSE])
    /\ UNCHANGED <<conf, now, assigned, revision, ledgerVars, upd, scan, disp, request, task>>

\* The pipeline's account step deletes the projection; the ledger stays.
Erase(i) ==
    /\ Event("erasure")
    /\ request[i].status = "REQUESTED"
    /\ request' = [request EXCEPT ![i].status = "DONE"]
    /\ row' = [c \in Consents |-> IF SubjectOf[c] = request[i].subject THEN NoRow ELSE row[c]]
    /\ UNCHANGED <<conf, now, assigned, revision, ledger, shredded, upd, scan, outbox, disp, task>>

\* The retention scanner destroys the CONSENT key of an erased subject.
ShredConsentKey(s) ==
    /\ Event("erasure")
    /\ Deleted(s) /\ s \notin shredded
    /\ shredded' = shredded \cup {s}
    /\ UNCHANGED <<conf, now, assigned, revision, ledger, row, upd, scan, intakeVars>>

NoDispatch == [pc |-> "idle", batch |-> {}, x |-> 0, dests |-> {}]
Turn(e, d) == disp' = [disp EXCEPT ![e] = d]

\* The event is done with, and the batch goes on.
Forget(d) == [d EXCEPT !.pc = "next", !.batch = @ \ {d.x}, !.x = 0]

PollOutbox(e) ==
    LET open == {x \in DOMAIN outbox : ~outbox[x].published}
    IN  /\ disp[e].pc = "idle" /\ open # {}
        /\ "outbox" \in conf.features
        /\ Turn(e, [NoDispatch EXCEPT !.pc = "next", !.batch = open])
        /\ UNCHANGED <<conf, now, assigned, revision, ledgerVars, upd, scan, outbox, request, task, events>>

\* The next event of the batch.  handleUserDeleted looks for a request that is
\* under way or done; handleReconfirmDue reads the destinations.
TakeEvent(e) ==
    LET d == disp[e]
        x == CHOOSE y \in d.batch : \A z \in d.batch : y <= z
        s == outbox[x].subject
    IN  /\ d.pc = "next"
        /\ IF d.batch = {} THEN Turn(e, NoDispatch)
           ELSE Turn(e, [d EXCEPT !.x = x,
                          !.pc = IF outbox[x].type = "consent.reconfirm_due" THEN "tasks"
                                 ELSE IF Active(s) \/ Deleted(s) THEN "publish" ELSE "create",
                          !.dests = IF outbox[x].type = "consent.reconfirm_due" THEN Destinations ELSE {}])
        /\ UNCHANGED <<conf, now, assigned, revision, ledgerVars, upd, scan, outbox, request, task, events>>

MutReplayedNever(x) == FALSE

\* requestByIdempotencyKey, and the unique index behind it.
Replayed(x) == \E i \in DOMAIN request : request[i].key = x

\* CreateRequest with the event's key: a conflict or a replay counts as
\* handled, as the request exists.
CreateFromOutbox(e) ==
    LET d == disp[e]
        s == outbox[d.x].subject
    IN  /\ d.pc = "create"
        /\ request' = IF Replayed(d.x) \/ Active(s) THEN request
                      ELSE Append(request, [subject |-> s, status |-> "REQUESTED", key |-> d.x])
        /\ Turn(e, [d EXCEPT !.pc = "publish"])
        /\ UNCHANGED <<conf, now, assigned, revision, ledgerVars, upd, scan, outbox, task, events>>

\* One insert, on conflict do nothing.
InsertTask(e) ==
    LET d == disp[e]
    IN  /\ d.pc = "tasks"
        /\ IF d.dests = {} THEN Turn(e, [d EXCEPT !.pc = "publish"]) /\ UNCHANGED task
           ELSE \E dst \in d.dests : /\ task' = task \cup {<<d.x, dst>>}
                                     /\ Turn(e, [d EXCEPT !.dests = @ \ {dst}])
        /\ UNCHANGED <<conf, now, assigned, revision, ledgerVars, upd, scan, outbox, request, events>>

\* A statement fails, or a hook vetoes the request: the event stays open.
Fail(e) ==
    /\ Event("crash")
    /\ disp[e].pc \in {"create", "tasks"}
    /\ Turn(e, Forget(disp[e]))
    /\ UNCHANGED <<conf, now, assigned, revision, ledgerVars, upd, scan, outbox, request, task>>

Publish(e) ==
    /\ disp[e].pc = "publish"
    /\ outbox' = [outbox EXCEPT ![disp[e].x].published = TRUE]
    /\ Turn(e, Forget(disp[e]))
    /\ UNCHANGED <<conf, now, assigned, revision, ledgerVars, upd, scan, request, task, events>>

-----------------------------------------------------------------------------
(***************************************************************************)
(* The environment.                                                        *)
(***************************************************************************)

Tick ==
    /\ now < conf.maxTime
    /\ now' = now + 1
    /\ UNCHANGED <<conf, assigned, revision, ledgerVars, upd, scan, intakeVars, events>>

\* The operator assigns a policy (no handler of the program does).
AssignPolicy(s, p) ==
    /\ Event("policies")
    /\ assigned[s] # p
    /\ assigned' = [assigned EXCEPT ![s] = p]
    /\ UNCHANGED <<conf, now, revision, ledgerVars, upd, scan, intakeVars>>

\* An engine stops and starts again, with these policies or new ones.
Restart(e, r) ==
    /\ \/ r # revision[e] /\ Event("policies")
       \/ r = revision[e] /\ Event("crash")
    /\ revision' = [revision EXCEPT ![e] = r]
    /\ scan' = [scan EXCEPT ![e] = NoScan]
    /\ Turn(e, NoDispatch)
    /\ UNCHANGED <<conf, now, assigned, ledgerVars, upd, outbox, request, task>>

\* Consents granted before the projection was there are backfilled.
Init ==
    /\ conf \in Configs
    /\ now = 1
    /\ assigned = [s \in Subjects |-> None]
    /\ \E r \in Revisions : revision = [e \in Engines |-> r]
    /\ ledger = [c \in Consents |-> IF c \in conf.backfilled
                                    THEN <<[action |-> "GRANT", at |-> 1, period |-> 0]>> ELSE <<>>]
    /\ row = [c \in Consents |-> IF c \in conf.backfilled
                                 THEN [NoRow EXCEPT !.granted = TRUE, !.at = 1] ELSE NoRow]
    /\ shredded = {}
    /\ upd = [w \in Updates |-> NoUpdate]
    /\ scan = [e \in Engines |-> NoScan]
    /\ outbox = <<>>
    /\ disp = [e \in Engines |-> NoDispatch]
    /\ request = <<>>
    /\ task = {}
    /\ events = 0

Next ==
    \/ \E w \in Updates : \/ \E e \in Engines, c \in Consents, g \in BOOLEAN : UpdateConsent(w, e, c, g)
                          \/ CommitConsent(w)
    \/ \E e \in Engines : \/ ReconcileRead(e) \/ ReconcileRow(e) \/ ScanReconfirmDue(e)
                          \/ EmitReconfirmNotice(e) \/ SkipCandidate(e) \/ EndScan(e)
                          \/ PollOutbox(e) \/ TakeEvent(e) \/ CreateFromOutbox(e) \/ InsertTask(e)
                          \/ Fail(e) \/ Publish(e)
                          \/ \E r \in Revisions : Restart(e, r)
    \/ \E s \in Subjects : CreateRequest(s) \/ UserDeleted(s) \/ ShredConsentKey(s)
    \/ \E i \in DOMAIN request : CancelRequest(i) \/ Erase(i)
    \/ \E s \in Subjects, p \in Policies \cup {None} : AssignPolicy(s, p)
    \/ Tick

Spec == Init /\ [][Next]_vars

-----------------------------------------------------------------------------
(***************************************************************************)
(* Properties.                                                             *)
(***************************************************************************)

\* "consent_events remains the append-only source of truth; this table is the
\* indexed projection": what the scanner goes by, the row, is what GetConsents
\* and the audience exports answer from the ledger, although the clocks of two
\* changes may disagree with the order they commit in.
ProjectionMirrorsLedger ==
    \A c \in Present :
        /\ Changes(c) # {}
        /\ row[c].granted = (ledger[c][Latest(c)].action = "GRANT")
        /\ row[c].at = ledger[c][Latest(c)].at
        /\ row[c].notice \in {0, LastAt(c, Notices(c))}

\* The subject gets a notice only while the consent is granted and never
\* early: a full period, of the policy the notice was sent under, has passed
\* since the grant and since the notice before, whichever engines scan at the
\* same time, with whichever policies, and however late their answers come.
\* A change that commits after the erasure makes a row that has forgotten the
\* notices before it, and of those nothing is promised.
NoticesAreDue ==
    \A c \in Consents : \A n \in Notices(c) :
        LET changes == {i \in Changes(c) : i < n}
            last == CHOOSE i \in changes : \A j \in changes : j <= i
            earlier == IF Deleted(SubjectOf[c]) THEN {} ELSE {j \in Notices(c) : j < n}
        IN  /\ changes # {}
            /\ ledger[c][last].action = "GRANT"
            /\ \A i \in {last} \cup earlier :
                  ledger[c][n].at >= ledger[c][i].at + ledger[c][n].period

\* An outbox event is handled although the dispatcher dies or fails anywhere
\* between its statements, and handled once although two of them work on it:
\* a published user.deleted has its deletion request, an event makes one
\* request even if that was canceled before the event was seen again, and a
\* published consent.reconfirm_due has a task for every destination.
EventsAreHandledOnce ==
    /\ \A x \in DOMAIN outbox : outbox[x].published =>
        IF outbox[x].type = "user.deleted"
        THEN \E i \in DOMAIN request : request[i].subject = outbox[x].subject
        ELSE \A dst \in Destinations : <<x, dst>> \in task
    /\ \A i, j \in DOMAIN request : request[i].key = request[j].key /\ request[i].key > 0 => i = j
=============================================================================
