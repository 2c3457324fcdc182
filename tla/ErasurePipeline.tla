-------------------------- MODULE ErasurePipeline --------------------------
(***************************************************************************)
(* The erasure pipeline of internal/privacy: DELETION requests, the legal  *)
(* holds that park them, and the pipeline runners that carry them out step *)
(* by step (pipeline.go, requests.go, holds.go).                           *)
(*                                                                         *)
(* Every action is one database statement of the code (or several that no  *)
(* other actor can tell apart); everything a runner remembers between two  *)
(* statements is in its local variables pc, rq, seen, done and step.       *)
(*                                                                         *)
(* A request is named by its scheduled_at: request r falls due when the    *)
(* clock reaches r, and `order by scheduled_at` is the order of the names. *)
(***************************************************************************)
EXTENDS Integers, FiniteSets

CONSTANTS
    Requests,     \* rows of personal_data_requests, as scheduled_at instants
    Users,        \* data subjects
    ReqUser,      \* the subject of each request row
    Holds,        \* rows of legal_holds
    HoldUser,     \* the subject of each hold row
    Runners,      \* pipeline workers, one per engine process
    NoRunner,     \* nobody holds the lock
    NSteps,       \* length of the step table (10 in the code)
    ExtStep,      \* the external-system step (700)
    AccountStep,  \* the account step (1000), which stamps auth.users.deleted_at
    Regrows,      \* steps whose rows the auth API can write again before that
    Policies,     \* policies a request can snapshot: [review, keep]
    MaxPerTick,   \* maxRequestsPerTick
    MaxFailures,  \* bound: runs that end in an error or a crash
    MaxDisturbances,   \* bound: deliveries that reopen after they had cleared
    LockLossPossible   \* whether a session holding an advisory lock can die alone

Steps == 1 .. NSteps
NoReq == 0

ASSUME RequestsAssumption ==
    /\ Requests \subseteq Nat \ {0}
    /\ ReqUser \in [Requests -> Users]
    /\ HoldUser \in [Holds -> Users]
    /\ NoRunner \notin Runners

ASSUME StepsAssumption ==
    /\ NSteps \in Nat
    /\ ExtStep \in Steps
    /\ AccountStep \in Steps
    /\ Regrows \subseteq Steps
    /\ Policies \subseteq [review : BOOLEAN, keep : SUBSET Steps]

ASSUME BoundsAssumption ==
    /\ MaxPerTick \in Nat \ {0}
    /\ MaxFailures \in Nat
    /\ MaxDisturbances \in Nat
    /\ LockLossPossible \in BOOLEAN

VARIABLES
    \* personal_data_requests
    status,    \* status[r], "NONE" while the row does not exist
    reason,    \* manual_review_reason
    policy,    \* policy_snapshot
    \* the other tables
    logs,      \* destruction_logs: the steps recorded for each request
    live,      \* live[u]: the steps whose domain still holds data of u
    hold,      \* legal_holds, with the progress of ReleaseHold
    tasks,     \* roll-up of a request's delivery tasks
    unsent,    \* some enabled destination has no task for the request yet
    lock,      \* holder of the per-request advisory lock
    \* the runners
    pc, rq, batch,
    seen,      \* the status the run loaded
    done,      \* the completed domains the run loaded
    step,
    heldAtLoad,  \* history: the holds in force when the run loaded its request
    \* environment
    now, failures, lockLost, disturbances

reqVars == <<status, reason, policy>>
tableVars == <<logs, live>>
deliveryVars == <<tasks, unsent, disturbances>>
runVars == <<pc, rq, batch, seen, done, step, heldAtLoad>>
envVars == <<now, failures, lockLost>>
vars == <<reqVars, tableVars, hold, deliveryVars, lock, runVars, envVars>>

Statuses == {"NONE", "REQUESTED", "PROCESSING", "MANUAL_REVIEW", "DONE", "CANCELED"}
Reasons == {"none", "POLICY", "LEGAL_HOLD", "HOOK_REJECTED", "TASK_FAILED"}
HoldStates == {"absent", "active", "releasing", "resuming", "released"}
TaskStates == {"none", "open", "clear", "dead"}
PCs == {"idle", "gate", "park", "hook", "read", "step", "log"}

\* The statuses the runner advances.
Runnable == {"REQUESTED", "PROCESSING"}

\* The statuses the partial unique index and hasActiveDeletion call active.
Active == Runnable \cup {"MANUAL_REVIEW"}

RowsTyped ==
    /\ status \in [Requests -> Statuses]
    /\ reason \in [Requests -> Reasons]
    /\ policy \in [Requests -> [review : BOOLEAN, keep : SUBSET Steps]]
    /\ logs \in [Requests -> SUBSET Steps]
    /\ live \in [Users -> SUBSET Steps]
    /\ hold \in [Holds -> HoldStates]
    /\ tasks \in [Requests -> TaskStates]
    /\ unsent \in [Requests -> BOOLEAN]

RunsTyped ==
    /\ lock \in [Requests -> Runners \cup {NoRunner}]
    /\ pc \in [Runners -> PCs]
    /\ rq \in [Runners -> Requests \cup {NoReq}]
    /\ batch \in [Runners -> SUBSET Requests]
    /\ seen \in [Runners -> Runnable]
    /\ done \in [Runners -> SUBSET Steps]
    /\ step \in [Runners -> 1 .. NSteps + 1]
    /\ heldAtLoad \in [Runners -> SUBSET Holds]
    /\ \A w \in Runners : pc[w] # "idle" => rq[w] \in Requests
    /\ \A w \in Runners : pc[w] = "log" => step[w] \in Steps

EnvTyped ==
    /\ now \in Nat
    /\ failures \in 0 .. MaxFailures
    /\ lockLost \subseteq Requests
    /\ disturbances \in 0 .. MaxDisturbances

TypeOK == RowsTyped /\ RunsTyped /\ EnvTyped

Init ==
    /\ status = [r \in Requests |-> "NONE"]
    /\ reason = [r \in Requests |-> "none"]
    /\ policy = [r \in Requests |-> [review |-> FALSE, keep |-> {}]]
    /\ logs = [r \in Requests |-> {}]
    /\ live = [u \in Users |-> Steps]
    /\ hold = [h \in Holds |-> "absent"]
    /\ tasks = [r \in Requests |-> "none"]
    /\ unsent \in [Requests -> BOOLEAN]
    /\ lock = [r \in Requests |-> NoRunner]
    /\ pc = [w \in Runners |-> "idle"]
    /\ rq = [w \in Runners |-> NoReq]
    /\ batch = [w \in Runners |-> {}]
    /\ seen = [w \in Runners |-> "REQUESTED"]
    /\ done = [w \in Runners |-> {}]
    /\ step = [w \in Runners |-> 1]
    /\ heldAtLoad = [w \in Runners |-> {}]
    /\ now = 0
    /\ failures = 0
    /\ lockLost = {}
    /\ disturbances = 0

-----------------------------------------------------------------------------
(***************************************************************************)
(* Requests.                                                               *)
(***************************************************************************)

\* Variants named Mut... are plausible slips of the code; each breaks a property.
MutHasActiveDeletionMissesReview(u) ==
    \E r \in Requests : ReqUser[r] = u /\ status[r] \in Runnable

\* hasActiveDeletionWith, under the subject's advisory transaction lock.
HasActiveDeletion(u) ==
    \E r \in Requests : ReqUser[r] = u /\ status[r] \in Active

(* CreateRequest for a DELETION: the duplicate check and the insert are one *)
(* transaction under the subject lock.  The policy is snapshotted into the  *)
(* row; a policy that asks for manual review parks it at once.  r = now is  *)
(* an immediate request, r > now one with a grace period.                   *)
CreateRequest(r) ==
    /\ status[r] = "NONE"
    /\ r >= now
    /\ ~HasActiveDeletion(ReqUser[r])
    /\ \E p \in Policies :
        /\ policy' = [policy EXCEPT ![r] = p]
        /\ status' = [status EXCEPT ![r] = IF p.review THEN "MANUAL_REVIEW" ELSE "REQUESTED"]
        /\ reason' = [reason EXCEPT ![r] = IF p.review THEN "POLICY" ELSE "none"]
    /\ UNCHANGED <<tableVars, hold, deliveryVars, lock, runVars, envVars>>

\* CancelRequest: a conditional update, whatever the clock says.
CancelRequest(r) ==
    /\ status[r] = "REQUESTED"
    /\ status' = [status EXCEPT ![r] = "CANCELED"]
    /\ UNCHANGED <<reason, policy, tableVars, hold, deliveryVars, lock, runVars, envVars>>

\* setManualReview: parks a request the runner may advance, else does nothing.
SetManualReview(r, why) ==
    IF status[r] \in Runnable
    THEN /\ status' = [status EXCEPT ![r] = "MANUAL_REVIEW"]
         /\ reason' = [reason EXCEPT ![r] = why]
         /\ UNCHANGED policy
    ELSE UNCHANGED reqVars

-----------------------------------------------------------------------------
(***************************************************************************)
(* Legal holds.                                                            *)
(***************************************************************************)

\* activeHoldFor(u, ""): any hold without released_at, whatever its domain.
ActiveHoldFor(u) == \E h \in Holds : HoldUser[h] = u /\ hold[h] = "active"

CreateHold(h) ==
    /\ hold[h] = "absent"
    /\ hold' = [hold EXCEPT ![h] = "active"]
    /\ UNCHANGED <<reqVars, tableVars, deliveryVars, lock, runVars, envVars>>

(* ReleaseHold is three statements with no transaction around them: stamp  *)
(* released_at; ask whether another hold is still active; if none is,      *)
(* resume the requests parked for a hold.                                  *)
ReleaseHold(h) ==
    /\ hold[h] = "active"
    /\ hold' = [hold EXCEPT ![h] = "releasing"]
    /\ UNCHANGED <<reqVars, tableVars, deliveryVars, lock, runVars, envVars>>

ReleaseCheck(h) ==
    /\ hold[h] = "releasing"
    /\ hold' = [hold EXCEPT ![h] = IF ActiveHoldFor(HoldUser[h]) THEN "released" ELSE "resuming"]
    /\ UNCHANGED <<reqVars, tableVars, deliveryVars, lock, runVars, envVars>>

ReleaseResume(h) ==
    /\ hold[h] = "resuming"
    /\ hold' = [hold EXCEPT ![h] = "released"]
    /\ LET parked == {r \in Requests : /\ ReqUser[r] = HoldUser[h]
                                       /\ status[r] = "MANUAL_REVIEW"
                                       /\ reason[r] = "LEGAL_HOLD"}
       IN /\ status' = [r \in Requests |-> IF r \in parked THEN "REQUESTED" ELSE status[r]]
          /\ reason' = [r \in Requests |-> IF r \in parked THEN "none" ELSE reason[r]]
    /\ UNCHANGED <<policy, tableVars, deliveryVars, lock, runVars, envVars>>

\* The process dies, or a statement fails, after released_at was stamped: the
\* hold stays released, and a second ReleaseHold answers ErrConflict.
ReleaseFails(h) ==
    /\ hold[h] \in {"releasing", "resuming"}
    /\ failures < MaxFailures
    /\ failures' = failures + 1
    /\ hold' = [hold EXCEPT ![h] = "released"]
    /\ UNCHANGED <<reqVars, tableVars, deliveryVars, lock, runVars, now, lockLost>>
-----------------------------------------------------------------------------
(***************************************************************************)
(* The pipeline runner: runPipelineOnce, withRequestLock, processRequest.  *)
(***************************************************************************)

User(w) == ReqUser[rq[w]]

MutDueMissesProcessing == {r \in Requests : status[r] = "REQUESTED" /\ r <= now}

DueRequests == {r \in Requests : status[r] \in Runnable /\ r <= now}

\* The poll: the MaxPerTick earliest due requests.
Poll(w) ==
    /\ pc[w] = "idle"
    /\ batch[w] = {}
    /\ DueRequests # {}
    /\ batch' = [batch EXCEPT ![w] =
            {r \in DueRequests : Cardinality({q \in DueRequests : q < r}) < MaxPerTick}]
    /\ UNCHANGED <<reqVars, tableVars, hold, deliveryVars, lock,
                   pc, rq, seen, done, step, heldAtLoad, envVars>>

\* The run is over: its locals go out of scope and the deferred unlock, which
\* only releases a lock this session still holds, is executed.
EndRun(w, rest) ==
    /\ pc' = [pc EXCEPT ![w] = "idle"]
    /\ rq' = [rq EXCEPT ![w] = NoReq]
    /\ batch' = [batch EXCEPT ![w] = rest]
    /\ seen' = [seen EXCEPT ![w] = "REQUESTED"]
    /\ done' = [done EXCEPT ![w] = {}]
    /\ step' = [step EXCEPT ![w] = 1]
    /\ heldAtLoad' = [heldAtLoad EXCEPT ![w] = {}]
    /\ lock' = IF lock[rq[w]] = w THEN [lock EXCEPT ![rq[w]] = NoRunner] ELSE lock

Return(w) == EndRun(w, batch[w] \ {rq[w]})

\* pg_try_advisory_lock and the load of the row.  A request another runner
\* owns, or that left REQUESTED/PROCESSING since the poll, is passed over.
Claim(w, r) ==
    /\ pc[w] = "idle"
    /\ r \in batch[w]
    /\ \A q \in batch[w] : r <= q
    /\ IF lock[r] = NoRunner /\ status[r] \in Runnable
       THEN /\ lock' = [lock EXCEPT ![r] = w]
            /\ pc' = [pc EXCEPT ![w] = "gate"]
            /\ rq' = [rq EXCEPT ![w] = r]
            /\ seen' = [seen EXCEPT ![w] = status[r]]
            /\ heldAtLoad' = [heldAtLoad EXCEPT ![w] =
                    {h \in Holds : HoldUser[h] = ReqUser[r] /\ hold[h] = "active"}]
            /\ UNCHANGED batch
       ELSE /\ batch' = [batch EXCEPT ![w] = @ \ {r}]
            /\ UNCHANGED <<lock, pc, rq, seen, heldAtLoad>>
    /\ UNCHANGED <<reqVars, tableVars, hold, deliveryVars, done, step, envVars>>

MutGateOpen(w) ==
    /\ pc[w] = "gate"
    /\ pc' = [pc EXCEPT ![w] = "hook"]
    /\ UNCHANGED <<reqVars, tableVars, hold, deliveryVars, lock,
                   rq, batch, seen, done, step, heldAtLoad, envVars>>

\* Gate 1: activeHoldFor is read here, its answer is used by the next statement.
Gate(w) ==
    /\ pc[w] = "gate"
    /\ pc' = [pc EXCEPT ![w] = IF ActiveHoldFor(User(w)) THEN "park" ELSE "hook"]
    /\ UNCHANGED <<reqVars, tableVars, hold, deliveryVars, lock,
                   rq, batch, seen, done, step, heldAtLoad, envVars>>

Park(w) ==
    /\ pc[w] = "park"
    /\ SetManualReview(rq[w], "LEGAL_HOLD")
    /\ Return(w)
    /\ UNCHANGED <<tableVars, hold, deliveryVars, envVars>>

\* A before_erasure_step hook rejects the run (or, below, one of its steps).
HookRejects(w) ==
    /\ pc[w] = "hook"
    /\ SetManualReview(rq[w], "HOOK_REJECTED")
    /\ Return(w)
    /\ UNCHANGED <<tableVars, hold, deliveryVars, envVars>>

MutBeginUnconditionally(w) ==
    /\ pc[w] = "hook"
    /\ status' = [status EXCEPT ![rq[w]] = "PROCESSING"]
    /\ pc' = [pc EXCEPT ![w] = "read"]
    /\ UNCHANGED <<reason, policy, tableVars, hold, deliveryVars, lock,
                   rq, batch, seen, done, step, heldAtLoad, envVars>>

\* REQUESTED -> PROCESSING is conditional: when a cancellation came first no
\* row matches and the run ends.
Begin(w) ==
    /\ pc[w] = "hook"
    /\ IF seen[w] = "PROCESSING" \/ status[rq[w]] = "REQUESTED"
       THEN /\ status' = IF seen[w] = "REQUESTED"
                         THEN [status EXCEPT ![rq[w]] = "PROCESSING"] ELSE status
            /\ pc' = [pc EXCEPT ![w] = "read"]
            /\ UNCHANGED <<rq, batch, seen, done, step, heldAtLoad, lock>>
       ELSE /\ Return(w)
            /\ UNCHANGED status
    /\ UNCHANGED <<reason, policy, tableVars, hold, deliveryVars, envVars>>

\* completedDomains.
ReadDone(w) ==
    /\ pc[w] = "read"
    /\ done' = [done EXCEPT ![w] = logs[rq[w]]]
    /\ pc' = [pc EXCEPT ![w] = "step"]
    /\ UNCHANGED <<reqVars, tableVars, hold, deliveryVars, lock,
                   rq, batch, seen, step, heldAtLoad, envVars>>

AtStep(w) == pc[w] = "step" /\ step[w] \in Steps

\* Re-run dedup: a step the run read as logged is passed over.
SkipStep(w) ==
    /\ AtStep(w)
    /\ step[w] \in done[w]
    /\ step' = [step EXCEPT ![w] = @ + 1]
    /\ UNCHANGED <<reqVars, tableVars, hold, deliveryVars, lock,
                   pc, rq, batch, seen, done, heldAtLoad, envVars>>

\* logDestruction inserts on conflict do nothing.
LogDestruction(w) == logs' = [logs EXCEPT ![rq[w]] = @ \cup {step[w]}]

\* KEEP leaves the data and records the decision.
KeepStep(w) ==
    /\ AtStep(w)
    /\ step[w] \notin done[w]
    /\ step[w] \in policy[rq[w]].keep
    /\ LogDestruction(w)
    /\ step' = [step EXCEPT ![w] = @ + 1]
    /\ UNCHANGED <<reqVars, live, hold, deliveryVars, lock,
                   pc, rq, batch, seen, done, heldAtLoad, envVars>>

MustRun(w) ==
    /\ AtStep(w)
    /\ step[w] \notin done[w]
    /\ step[w] \notin policy[rq[w]].keep

StepRejected(w) ==
    /\ MustRun(w)
    /\ SetManualReview(rq[w], "HOOK_REJECTED")
    /\ Return(w)
    /\ UNCHANGED <<tableVars, hold, deliveryVars, envVars>>

MutEraseNothing(w) == live' = live

\* The domain's data of the subject is deleted, anonymised or shredded.
Erase(w) == live' = [live EXCEPT ![User(w)] = @ \ {step[w]}]

RunStep(w) ==
    /\ MustRun(w)
    /\ step[w] # ExtStep
    /\ Erase(w)
    /\ pc' = [pc EXCEPT ![w] = "log"]
    /\ UNCHANGED <<reqVars, logs, hold, deliveryVars, lock,
                   rq, batch, seen, done, step, heldAtLoad, envVars>>

\* stepExternalSystem: fan out a task per enabled destination that has none,
\* then roll the request's tasks up.
FanOut(r) == IF unsent[r] /\ tasks[r] \in {"none", "clear"} THEN "open" ELSE tasks[r]

RunExternal(w) ==
    /\ MustRun(w)
    /\ step[w] = ExtStep
    /\ tasks' = [tasks EXCEPT ![rq[w]] = FanOut(rq[w])]
    /\ unsent' = [unsent EXCEPT ![rq[w]] = FALSE]
    /\ CASE FanOut(rq[w]) = "dead" ->      \* an operator has to decide
               /\ SetManualReview(rq[w], "TASK_FAILED")
               /\ Return(w)
               /\ UNCHANGED live
         [] FanOut(rq[w]) = "open" ->      \* stay PROCESSING, retry next tick
               /\ Return(w)
               /\ UNCHANGED <<reqVars, live>>
         [] OTHER ->
               /\ Erase(w)
               /\ pc' = [pc EXCEPT ![w] = "log"]
               /\ UNCHANGED <<reqVars, lock, rq, batch, seen, done, step, heldAtLoad>>
    /\ UNCHANGED <<logs, hold, disturbances, envVars>>

LogStep(w) ==
    /\ pc[w] = "log"
    /\ LogDestruction(w)
    /\ pc' = [pc EXCEPT ![w] = "step"]
    /\ step' = [step EXCEPT ![w] = @ + 1]
    /\ UNCHANGED <<reqVars, live, hold, deliveryVars, lock,
                   rq, batch, seen, done, heldAtLoad, envVars>>

MutFinishEarly(w) ==
    /\ pc[w] = "step"
    /\ step[w] >= NSteps
    /\ status' = [status EXCEPT ![rq[w]] = "DONE"]
    /\ reason' = [reason EXCEPT ![rq[w]] = "none"]
    /\ Return(w)
    /\ UNCHANGED <<policy, tableVars, hold, deliveryVars, envVars>>

\* The last update is conditional on PROCESSING too.
Finish(w) ==
    /\ pc[w] = "step"
    /\ step[w] = NSteps + 1
    /\ IF status[rq[w]] = "PROCESSING"
       THEN /\ status' = [status EXCEPT ![rq[w]] = "DONE"]
            /\ reason' = [reason EXCEPT ![rq[w]] = "none"]
       ELSE UNCHANGED <<status, reason>>
    /\ Return(w)
    /\ UNCHANGED <<policy, tableVars, hold, deliveryVars, envVars>>

\* A statement fails and processRequest returns its error, so the batch goes
\* on; or the process dies with its batch, and its sessions with it.
RunFails(w) ==
    /\ pc[w] # "idle"
    /\ failures < MaxFailures
    /\ failures' = failures + 1
    /\ \E rest \in {batch[w] \ {rq[w]}, {}} : EndRun(w, rest)
    /\ UNCHANGED <<reqVars, tableVars, hold, deliveryVars, now, lockLost>>

\* The steps go through the pool, the lock sits on a connection of its own:
\* when only that connection dies the run goes on without its lock.
LoseLock(w) ==
    /\ LockLossPossible
    /\ pc[w] # "idle"
    /\ lock[rq[w]] = w
    /\ lock' = [lock EXCEPT ![rq[w]] = NoRunner]
    /\ lockLost' = lockLost \cup {rq[w]}
    /\ UNCHANGED <<reqVars, tableVars, hold, deliveryVars, runVars, now, failures>>

-----------------------------------------------------------------------------
(***************************************************************************)
(* The environment.                                                        *)
(***************************************************************************)

Tick ==
    /\ \E r \in Requests : r > now
    /\ now' = now + 1
    /\ UNCHANGED <<reqVars, tableVars, hold, deliveryVars, lock, runVars, failures, lockLost>>

\* The task sender settles what was open (module DeliveryTasks).
SettleTasks(r) ==
    /\ tasks[r] = "open"
    /\ \E t \in {"clear", "dead"} : tasks' = [tasks EXCEPT ![r] = t]
    /\ UNCHANGED <<reqVars, tableVars, hold, unsent, disturbances, lock, runVars, envVars>>

\* A sender that lost its claim writes its late outcome over a final one.
LateTaskWrite(r) ==
    /\ tasks[r] \in {"clear", "dead"}
    /\ disturbances < MaxDisturbances
    /\ disturbances' = disturbances + 1
    /\ \E t \in {"open", "clear", "dead"} \ {tasks[r]} : tasks' = [tasks EXCEPT ![r] = t]
    /\ UNCHANGED <<reqVars, tableVars, hold, unsent, lock, runVars, envVars>>

EnableDestination ==
    /\ disturbances < MaxDisturbances
    /\ disturbances' = disturbances + 1
    /\ unsent' = [r \in Requests |-> TRUE]
    /\ UNCHANGED <<reqVars, tableVars, hold, tasks, lock, runVars, envVars>>

\* The subject signs in, or sets a credential: no auth handler looks at the
\* request, only deleted_at (grantSession) stops it.
UseAccount(u) ==
    /\ AccountStep \in live[u]
    /\ \E s \in Regrows \ live[u] : live' = [live EXCEPT ![u] = @ \cup {s}]
    /\ UNCHANGED <<reqVars, logs, hold, deliveryVars, lock, runVars, envVars>>

-----------------------------------------------------------------------------
\* What a healthy worker loop executes.
Work(w) ==
    \/ Poll(w) \/ (\E r \in Requests : Claim(w, r)) \/ Gate(w) \/ Park(w)
    \/ HookRejects(w) \/ Begin(w) \/ ReadDone(w) \/ SkipStep(w) \/ KeepStep(w)
    \/ StepRejected(w) \/ RunStep(w) \/ RunExternal(w) \/ LogStep(w) \/ Finish(w)

RequestStep(r) ==
    CreateRequest(r) \/ CancelRequest(r) \/ SettleTasks(r) \/ LateTaskWrite(r)

HoldStep(h) ==
    \/ CreateHold(h) \/ ReleaseHold(h) \/ ReleaseCheck(h) \/ ReleaseResume(h)
    \/ ReleaseFails(h)

Next ==
    \/ \E w \in Runners : Work(w) \/ RunFails(w) \/ LoseLock(w)
    \/ \E r \in Requests : RequestStep(r)
    \/ \E h \in Holds : HoldStep(h)
    \/ \E u \in Users : UseAccount(u)
    \/ EnableDestination
    \/ Tick

Spec == Init /\ [][Next]_vars

\* The worker loops and the task sender never stop for good; nothing else is
\* promised (no request has to be made, no hold released, no clock to advance).
FairSpec ==
    /\ Spec
    /\ \A w \in Runners : WF_vars(Work(w))
    /\ \A r \in Requests : WF_vars(SettleTasks(r))
-----------------------------------------------------------------------------
(***************************************************************************)
(* Properties.                                                             *)
(***************************************************************************)

InSteps(w) == pc[w] \in {"read", "step", "log"}

(* A runner that is past the REQUESTED -> PROCESSING update owns its        *)
(* request: it holds the advisory lock, and nobody (CancelRequest,          *)
(* ReleaseHold, another runner) moves the request out of PROCESSING under   *)
(* it.  "cancellation won; no erasure step may execute" rests on this.      *)
StepsOwnRequest ==
    \A w \in Runners :
        InSteps(w) /\ rq[w] \notin lockLost =>
            lock[rq[w]] = w /\ status[rq[w]] = "PROCESSING"

(* No exit path of withRequestLock leaves an advisory lock behind: a locked *)
(* request is being processed by the runner that holds its lock.            *)
NoLeakedLock ==
    \A r \in Requests : lock[r] # NoRunner => pc[lock[r]] # "idle" /\ rq[lock[r]] = r

(* Over any number of crashed, halted, parked and repeated runs the         *)
(* destruction_logs of a request are a prefix of the step table: nothing is *)
(* shredded or anonymised before the external systems have answered.        *)
EvidenceOrdered ==
    \A r \in Requests : \A s \in logs[r] : 1 .. s \subseteq logs[r]

(* A destruction log that is not a KEEP tells the truth: the subject's data *)
(* of that domain is gone, and stays gone, unless the auth API can write    *)
(* the domain again.                                                        *)
EvidenceTruthful ==
    \A r \in Requests :
        (logs[r] \ (policy[r].keep \cup Regrows)) \cap live[ReqUser[r]] = {}

(* A request is DONE only when every step of the table left its evidence.   *)
DoneIsComplete == \A r \in Requests : status[r] = "DONE" => logs[r] = Steps

(* A legal hold that was in force when a run loaded its request and has not *)
(* been released since keeps that run from reaching any step: the gate is   *)
(* read after the load, and its answer cannot be outdated towards "free".   *)
HoldStopsLaterRuns ==
    \A w \in Runners : \A h \in heldAtLoad[w] :
        hold[h] = "active" => pc[w] \in {"gate", "park"}

(* At most one DELETION of a subject is active, also after a released hold  *)
(* has put parked requests back.                                            *)
OneActiveDeletion ==
    \A r, q \in Requests :
        status[r] \in Active /\ status[q] \in Active /\ ReqUser[r] = ReqUser[q] => r = q

(* DONE and CANCELED are final, and once a request is CANCELED no runner    *)
(* that kept its lock records another step for it.                          *)
FinalIsFinal ==
    [][\A r \in Requests :
        status[r] \in {"DONE", "CANCELED"} =>
            /\ status'[r] = status[r]
            /\ r \notin lockLost => logs'[r] = logs[r]]_vars

(* A due request is never left behind: with finitely many failures every    *)
(* request the runner may advance ends DONE, CANCELED or in a person's      *)
(* hands, although the batch is bounded and earlier requests may be waiting *)
(* for their deliveries.                                                    *)
DueIsHandled ==
    \A r \in Requests :
        (status[r] \in Runnable /\ r <= now) ~> status[r] \notin Runnable

-----------------------------------------------------------------------------
(***************************************************************************)
(* What makes the safety properties inductive (ErasurePipelineProofs).     *)
(***************************************************************************)

Running(w) == pc[w] # "idle"

\* A lock and the run it belongs to name each other, except where a lock
\* session died.
LocksMatchRuns ==
    /\ NoLeakedLock
    /\ \A w \in Runners :
        Running(w) /\ rq[w] \notin lockLost => lock[rq[w]] = w
    /\ ~LockLossPossible => lockLost = {}

\* What a run knows about its request's status is not outdated.
RunsKnowStatus ==
    \A w \in Runners : Running(w) =>
        /\ status[rq[w]] # "NONE"
        /\ rq[w] \notin lockLost /\ (InSteps(w) \/ seen[w] = "PROCESSING") =>
            status[rq[w]] = "PROCESSING"

\* What a run has passed is in the logs, and what it is about to log is gone.
RunsFollowLogs ==
    \A w \in Runners :
        /\ pc[w] \notin {"step", "log"} => step[w] = 1
        /\ pc[w] \in {"step", "log"} =>
            /\ done[w] \subseteq logs[rq[w]]
            /\ \A s \in Steps : s < step[w] => s \in logs[rq[w]]
        /\ pc[w] = "log" /\ step[w] \in live[User(w)] =>
            step[w] \in policy[rq[w]].keep \cup Regrows

\* A row that does not exist has no evidence.
FreshIsClean == \A r \in Requests : status[r] = "NONE" => logs[r] = {}

\* The holds a run saw are holds of its subject that had been placed.
HeldIsPlaced ==
    \A w \in Runners : \A h \in heldAtLoad[w] :
        Running(w) /\ HoldUser[h] = User(w) /\ hold[h] # "absent"

\* The refinement mapping to the abstract lifecycle.
PhaseOf ==
    [NONE |-> "none", REQUESTED |-> "pending", PROCESSING |-> "working",
     MANUAL_REVIEW |-> "parked", DONE |-> "erased", CANCELED |-> "withdrawn"]

Lifecycle == INSTANCE ErasureLifecycle
    WITH phase <- [r \in Requests |-> PhaseOf[status[r]]], evidence <- logs

(* As long as no lock session dies, the pipeline implements the abstract    *)
(* lifecycle of a request.                                                  *)
ImplementsLifecycle == Lifecycle!Spec

-----------------------------------------------------------------------------
(***************************************************************************)
(* What the documents say and the code does not do.                        *)
(***************************************************************************)

(* holds.go, project.md 2.9: releasing a hold resumes the requests it had   *)
(* parked.  A request parked for a hold has a hold that is in force or      *)
(* whose release is still at work.                                          *)
ReleaseResumesParked ==
    \A r \in Requests :
        status[r] = "MANUAL_REVIEW" /\ reason[r] = "LEGAL_HOLD" =>
            \E h \in Holds : HoldUser[h] = ReqUser[r] /\ hold[h] \in {"active", "releasing", "resuming"}

(* project.md 2.9: during the grace period the account is deactivated and   *)
(* its sessions are revoked, so whatever a DONE request erased is gone.     *)
DoneMeansGone ==
    \A r \in Requests :
        status[r] = "DONE" => live[ReqUser[r]] \subseteq policy[r].keep
=============================================================================
