--------------------------- MODULE DeliveryTasks ---------------------------
(***************************************************************************)
(* The delivery tasks of internal/privacy (tasks.go, destinations.go): a   *)
(* task per request and destination, claimed in batches by task senders    *)
(* that deliver it to a webhook or a connector and write the outcome back. *)
(*                                                                         *)
(* Time is abstracted to the two comparisons the code makes with it:       *)
(* due[t] is next_attempt_at <= now, stale[t] is started_at < now -        *)
(* stuckRunningAfter.  A batch is any claimable tasks up to the limit,     *)
(* which covers every order of next_attempt_at.  Its specification is      *)
(* DeliverySpec, so that one module can extend it beside another.          *)
(***************************************************************************)
EXTENDS Integers, FiniteSets

CONSTANTS
    Reqs,          \* request_id of the tasks: requests and reconfirm notices
    Dests,         \* destination ids
    Senders,       \* task workers, one per engine process
    MaxAttempts,   \* maxTaskAttempts
    MaxPerTick,    \* maxTasksPerTick
    MaxLost,       \* bound: outcomes that are never written
    MaxOvertakes,  \* bound: claims that time out while their sender is at work
    MaxEdits       \* bound: changes to the destinations

ASSUME DeliveryAssumption ==
    /\ MaxAttempts \in Nat \ {0}
    /\ MaxPerTick \in Nat \ {0}
    /\ MaxLost \in Nat
    /\ MaxOvertakes \in Nat
    /\ MaxEdits \in Nat

\* The unique key of the table: (request_id, destination_id).
Tasks == Reqs \X Dests

NoTask == <<>>

VARIABLES
    dest,      \* dest[d]: a row that is enabled or disabled, or none
    status,    \* status[t], "none" while there is no row
    attempts,  \* attempt_count
    due, stale,
    batch,     \* batch[s]: the tasks sender s has claimed and not finished
    nth,       \* nth[s][t]: the attempt_count the claim returned
    cur,       \* cur[s]: the task whose outcome s is about to write
    outcome,   \* outcome[s]: "ok", "retry" or "terminal"
    accepted,  \* history: tasks whose destination answered with success
    retried,   \* history: retried[t], the attempts that wrote "failed"
    reclaims,  \* history: reclaims[t], claims of a task left running
    overtaken, \* history: tasks reclaimed while a sender still worked on them
    lost, overtakes, edits   \* environment

rowVars == <<status, attempts, due, stale>>
senderVars == <<batch, nth, cur, outcome>>
histVars == <<accepted, retried, reclaims, overtaken>>
envVars == <<lost, overtakes, edits>>
deliveryVars == <<dest, rowVars, senderVars, histVars, envVars>>

Open == {"pending", "running", "failed"}
Settled == {"completed", "dead"}

TypeOK ==
    /\ dest \in [Dests -> {"none", "enabled", "disabled"}]
    /\ status \in [Tasks -> {"none"} \cup Open \cup Settled]
    /\ attempts \in [Tasks -> Nat]
    /\ due \in [Tasks -> BOOLEAN]
    /\ stale \in [Tasks -> BOOLEAN]
    /\ batch \in [Senders -> SUBSET Tasks]
    /\ nth \in [Senders -> [Tasks -> Nat]]
    /\ cur \in [Senders -> Tasks \cup {NoTask}]
    /\ outcome \in [Senders -> {"ok", "retry", "terminal"}]
    /\ accepted \in SUBSET Tasks
    /\ retried \in [Tasks -> SUBSET (0 .. MaxAttempts - 1)]
    /\ reclaims \in [Tasks -> Nat]
    /\ overtaken \in SUBSET Tasks
    /\ lost \in 0 .. MaxLost
    /\ overtakes \in 0 .. MaxOvertakes
    /\ edits \in 0 .. MaxEdits
    /\ \A s \in Senders : cur[s] = NoTask \/ cur[s] \in batch[s]

DeliveryInit ==
    /\ dest \in [Dests -> {"none", "enabled"}]
    /\ status = [t \in Tasks |-> "none"]
    /\ attempts = [t \in Tasks |-> 0]
    /\ due = [t \in Tasks |-> FALSE]
    /\ stale = [t \in Tasks |-> FALSE]
    /\ batch = [s \in Senders |-> {}]
    /\ nth = [s \in Senders |-> [t \in Tasks |-> 0]]
    /\ cur = [s \in Senders |-> NoTask]
    /\ outcome = [s \in Senders |-> "ok"]
    /\ accepted = {}
    /\ retried = [t \in Tasks |-> {}]
    /\ reclaims = [t \in Tasks |-> 0]
    /\ overtaken = {}
    /\ lost = 0 /\ overtakes = 0 /\ edits = 0

-----------------------------------------------------------------------------
\* Create-, Update- and DeleteDestination; there is no foreign key to keep a
\* destination with open tasks.
EditDestination(d) ==
    /\ edits < MaxEdits
    /\ edits' = edits + 1
    /\ \E x \in {"none", "enabled", "disabled"} \ {dest[d]} : dest' = [dest EXCEPT ![d] = x]
    /\ UNCHANGED <<rowVars, senderVars, histVars, lost, overtakes>>

\* A task for every enabled destination that has none (stepExternalSystem,
\* handleReconfirmDue): insert ... on conflict do nothing.
FanOut(r) ==
    LET new == {t \in Tasks : t[1] = r /\ dest[t[2]] = "enabled" /\ status[t] = "none"}
    IN /\ new # {}
       /\ status' = [t \in Tasks |-> IF t \in new THEN "pending" ELSE status[t]]
       /\ due' = [t \in Tasks |-> t \in new \/ due[t]]
       /\ UNCHANGED <<dest, attempts, stale, senderVars, histVars, envVars>>

\* Variants named Mut... are plausible slips of the code; each breaks a property.
MutClaimableIgnoresRunning ==
    {t \in Tasks : status[t] \in {"pending", "failed"} /\ due[t]}

MutClaimableAnyRunning ==
    {t \in Tasks : \/ status[t] \in {"pending", "failed"} /\ due[t]
                   \/ status[t] = "running"}

\* The where clause of the claim: there is no bound on attempt_count in it.
Claimable ==
    {t \in Tasks : \/ status[t] \in {"pending", "failed"} /\ due[t]
                   \/ status[t] = "running" /\ stale[t]}

\* runTasksOnce's single update: `for update skip locked` makes it atomic.
Claim(s) ==
    /\ batch[s] = {}
    /\ \E c \in SUBSET Claimable :
        /\ c # {}
        /\ Cardinality(c) <= MaxPerTick
        /\ Cardinality(c) < MaxPerTick => c = Claimable
        /\ batch' = [batch EXCEPT ![s] = c]
        /\ status' = [t \in Tasks |-> IF t \in c THEN "running" ELSE status[t]]
        /\ attempts' = [t \in Tasks |-> IF t \in c THEN attempts[t] + 1 ELSE attempts[t]]
        /\ nth' = [nth EXCEPT ![s] = [t \in Tasks |-> IF t \in c THEN attempts[t] + 1 ELSE 0]]
        /\ stale' = [t \in Tasks |-> t \notin c /\ stale[t]]
        /\ reclaims' = [t \in Tasks |->
                IF t \in c /\ status[t] = "running" THEN reclaims[t] + 1 ELSE reclaims[t]]
    /\ UNCHANGED <<dest, due, cur, outcome, accepted, retried, overtaken, envVars>>

\* executeTask: a missing or disabled destination is a terminal failure,
\* otherwise the delivery is made and the peer decides.
Execute(s, t) ==
    /\ t \in batch[s]
    /\ cur[s] = NoTask
    /\ cur' = [cur EXCEPT ![s] = t]
    /\ \E o \in IF dest[t[2]] = "enabled" THEN {"ok", "retry", "terminal"} ELSE {"terminal"} :
        /\ outcome' = [outcome EXCEPT ![s] = o]
        /\ accepted' = IF o = "ok" THEN accepted \cup {t} ELSE accepted
    /\ UNCHANGED <<dest, rowVars, batch, nth, retried, reclaims, overtaken, envVars>>

\* The sender turns to the rest of its batch.
NextInBatch(s) ==
    /\ batch' = [batch EXCEPT ![s] = @ \ {cur[s]}]
    /\ cur' = [cur EXCEPT ![s] = NoTask]
    /\ UNCHANGED <<nth, outcome>>

\* completeTask: an update by id, whatever has become of the row.
CompleteTask(s) ==
    /\ cur[s] # NoTask
    /\ outcome[s] = "ok"
    /\ status' = [status EXCEPT ![cur[s]] = "completed"]
    /\ NextInBatch(s)
    /\ UNCHANGED <<dest, attempts, due, stale, histVars, envVars>>

MutDead(s) == outcome[s] = "terminal" \/ nth[s][cur[s]] > MaxAttempts

Dead(s) == outcome[s] = "terminal" \/ nth[s][cur[s]] >= MaxAttempts

\* failTask: dead-letter or back off, by the attempt this sender had claimed.
FailTask(s) ==
    /\ cur[s] # NoTask
    /\ outcome[s] # "ok"
    /\ status' = [status EXCEPT ![cur[s]] = IF Dead(s) THEN "dead" ELSE "failed"]
    /\ due' = [due EXCEPT ![cur[s]] = Dead(s)]
    /\ retried' = IF Dead(s) THEN retried
                  ELSE [retried EXCEPT ![cur[s]] = @ \cup {nth[s][cur[s]]}]
    /\ NextInBatch(s)
    /\ UNCHANGED <<dest, attempts, stale, accepted, reclaims, overtaken, envVars>>

\* An error before the outcome is written is only logged: the task stays
\* running, the batch goes on.
OutcomeLost(s) ==
    /\ cur[s] # NoTask
    /\ lost < MaxLost
    /\ lost' = lost + 1
    /\ NextInBatch(s)
    /\ UNCHANGED <<dest, rowVars, histVars, overtakes, edits>>

\* The process dies, or is told to stop, in the middle of its batch.
SenderStops(s) ==
    /\ batch[s] # {}
    /\ lost < MaxLost
    /\ lost' = lost + 1
    /\ batch' = [batch EXCEPT ![s] = {}]
    /\ cur' = [cur EXCEPT ![s] = NoTask]
    /\ UNCHANGED <<dest, rowVars, nth, outcome, histVars, overtakes, edits>>

BackoffElapses(t) ==
    /\ status[t] = "failed"
    /\ ~due[t]
    /\ due' = [due EXCEPT ![t] = TRUE]
    /\ UNCHANGED <<dest, status, attempts, stale, senderVars, histVars, envVars>>

AtWork(t) == \E s \in Senders : t \in batch[s]

\* stuckRunningAfter has passed since started_at and nobody is working on t.
ClaimExpires(t) ==
    /\ status[t] = "running"
    /\ ~stale[t]
    /\ ~AtWork(t)
    /\ stale' = [stale EXCEPT ![t] = TRUE]
    /\ UNCHANGED <<dest, status, attempts, due, senderVars, histVars, envVars>>

\* The same while a sender is still at work: 25 webhooks of 15 seconds each
\* fit into the ten minutes, a connector or a paused process need not.
ClaimOvertaken(t) ==
    /\ status[t] = "running"
    /\ ~stale[t]
    /\ AtWork(t)
    /\ overtakes < MaxOvertakes
    /\ overtakes' = overtakes + 1
    /\ stale' = [stale EXCEPT ![t] = TRUE]
    /\ overtaken' = overtaken \cup {t}
    /\ UNCHANGED <<dest, status, attempts, due, senderVars, accepted, retried, reclaims, lost, edits>>

-----------------------------------------------------------------------------
Work(s) ==
    Claim(s) \/ (\E t \in Tasks : Execute(s, t)) \/ CompleteTask(s) \/ FailTask(s)

Elapse(t) == BackoffElapses(t) \/ ClaimExpires(t)

DeliveryNext ==
    \/ \E s \in Senders : Work(s) \/ OutcomeLost(s) \/ SenderStops(s)
    \/ \E t \in Tasks : Elapse(t) \/ ClaimOvertaken(t)
    \/ \E r \in Reqs : FanOut(r)
    \/ \E d \in Dests : EditDestination(d)

DeliverySpec == DeliveryInit /\ [][DeliveryNext]_deliveryVars

\* The worker loops never stop for good and time passes.
FairSpec ==
    /\ DeliverySpec
    /\ \A s \in Senders : WF_deliveryVars(Work(s))
    /\ \A t \in Tasks : WF_deliveryVars(Elapse(t))

-----------------------------------------------------------------------------
(***************************************************************************)
(* Properties.                                                             *)
(***************************************************************************)

(* failTask counts by the attempt its sender had claimed, and a task left   *)
(* running is claimed again whatever its count: a task is started at most   *)
(* maxTaskAttempts times more than it was found abandoned.                  *)
AttemptsAccounted == \A t \in Tasks : attempts[t] <= MaxAttempts + reclaims[t]

(* Two senders never carry the same attempt of a task, and unless a claim   *)
(* was overtaken they never carry the same task: `for update skip locked`   *)
(* and the attempt number make every evidence row attributable.             *)
AttemptsExclusive ==
    \A s1, s2 \in Senders : s1 # s2 =>
        \A t \in batch[s1] \cap batch[s2] :
            t \in overtaken /\ nth[s1][t] # nth[s2][t]

(* completed and dead are final unless a claim was overtaken: completeTask  *)
(* and failTask update by id alone, so only exclusive claims protect them.  *)
SettledIsFinal ==
    [][\A t \in Tasks \ overtaken : status[t] \in Settled => status'[t] = status[t]]_deliveryVars

(* A completed task was accepted by its destination, and a task that was    *)
(* not overtaken is not dead although the destination accepted it, unless   *)
(* the answer was lost and the retries failed.                              *)
CompletedWasAccepted ==
    \A t \in Tasks :
        /\ status[t] = "completed" => t \in accepted
        /\ status[t] = "dead" /\ t \in accepted => t \in overtaken \/ lost > 0

\* The roll-up stepExternalSystem computes of a request's tasks.
RollUp(r) ==
    LET of == {status[t] : t \in {u \in Tasks : u[1] = r}}
    IN CASE "dead" \in of -> "dead"
         [] "dead" \notin of /\ of \cap Open # {} -> "open"
         [] "dead" \notin of /\ of \cap Open = {} /\ "completed" \in of -> "clear"
         [] OTHER -> "none"

(* What ErasurePipeline assumes of the deliveries of a request: between     *)
(* fan-outs the roll-up only moves from open to clear or dead, and only a   *)
(* sender that was overtaken moves it away from those.                      *)
RollUpAsAssumed ==
    [][\A r \in Reqs : RollUp(r)' # RollUp(r) =>
        \/ RollUp(r) = "open"
        \/ RollUp(r) \in {"none", "clear"} /\ FanOut(r)
        \/ \E t \in overtaken : t[1] = r]_deliveryVars

(* Every delivery is settled in the end, and stays settled, whichever       *)
(* senders crashed, lost an outcome or were overtaken on the way.           *)
DeliveriesSettle ==
    \A t \in Tasks : status[t] # "none" ~> [](status[t] \in Settled)

-----------------------------------------------------------------------------
(***************************************************************************)
(* What makes the safety properties inductive (ErasurePipelineProofs).     *)
(***************************************************************************)

\* A claim that was not overtaken is the task's current attempt.
ClaimsCurrent ==
    \A s \in Senders : \A t \in batch[s] :
        /\ nth[s][t] \in 1 .. attempts[t]
        /\ t \notin overtaken =>
            status[t] = "running" /\ nth[s][t] = attempts[t] /\ ~stale[t]

\* An attempt in somebody's hands has not been written off.
RetriesArePast ==
    \A t \in Tasks :
        /\ retried[t] \subseteq 1 .. attempts[t]
        /\ \A s \in Senders : t \in batch[s] => nth[s][t] \notin retried[t]

\* Every start was the first, or followed a failed attempt or a reclaim.
StartsExplained ==
    \A t \in Tasks :
        attempts[t] <= Cardinality(retried[t]) + reclaims[t]
                       + IF status[t] \in {"none", "pending", "failed"} THEN 0 ELSE 1

-----------------------------------------------------------------------------
(* tasks.go: "the attempt counter still applies, so a task that repeatedly  *)
(* kills its worker ends up dead-lettered rather than looping."             *)
CrashLoopIsDeadLettered == \A t \in Tasks : attempts[t] <= MaxAttempts
=============================================================================
