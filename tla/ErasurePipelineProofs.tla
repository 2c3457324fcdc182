----------------------- MODULE ErasurePipelineProofs -----------------------
(***************************************************************************)
(* Proofs about the erasure pipeline, for any number of requests, holds,   *)
(* runners and steps: locks and evidence, legal holds, the one active      *)
(* DELETION of a subject, the finality of DONE and CANCELED, the           *)
(* refinement of the abstract lifecycle, and the deliveries it waits for.  *)
(***************************************************************************)
EXTENDS ErasurePipeline, FiniteSetTheorems, TLAPS

USE DEF Runnable, Active, NoReq, reqVars, tableVars, deliveryVars, runVars, envVars

(* Ending a run leaves the runners' locals and the locks well formed.       *)
LEMMA EndRunTyped ==
    ASSUME TypeOK, NEW w \in Runners, pc[w] # "idle",
           NEW rest \in SUBSET Requests, EndRun(w, rest)
    PROVE  RunsTyped'
BY StepsAssumption, RequestsAssumption DEF TypeOK, RunsTyped, EndRun, Steps, PCs

LEMMA ReturnTyped ==
    ASSUME TypeOK, NEW w \in Runners, pc[w] # "idle", Return(w)
    PROVE  RunsTyped'
<1>1. batch[w] \ {rq[w]} \in SUBSET Requests
  BY DEF TypeOK, RunsTyped
<1> QED
  BY <1>1, EndRunTyped DEF Return

(* Parking a request leaves the tables well formed.                         *)
LEMMA SetManualReviewTyped ==
    ASSUME TypeOK, NEW r \in Requests, NEW why \in Reasons, SetManualReview(r, why)
    PROVE  /\ status' \in [Requests -> Statuses]
           /\ reason' \in [Requests -> Reasons]
           /\ policy' = policy
BY DEF TypeOK, RowsTyped, SetManualReview, Statuses

(* Type correctness: every statement of the pipeline, the holds and the     *)
(* request API keeps the tables and the runners' locals well formed.        *)
THEOREM TypeCorrect == Spec => []TypeOK
<1> USE RequestsAssumption, StepsAssumption, BoundsAssumption
<1>1. Init => TypeOK
  BY DEF Init, TypeOK, RowsTyped, RunsTyped, EnvTyped, Steps, Statuses, Reasons,
         HoldStates, TaskStates, PCs
<1>2. TypeOK /\ [Next]_vars => TypeOK'
  <2> SUFFICES ASSUME TypeOK, [Next]_vars PROVE TypeOK'
    OBVIOUS
  <2> USE DEF TypeOK, RowsTyped, RunsTyped, EnvTyped, Steps, Statuses, Reasons,
              HoldStates, TaskStates, PCs
  <2>1. ASSUME NEW w \in Runners, Poll(w) PROVE TypeOK'
    BY <2>1 DEF Poll, DueRequests
  <2>2. ASSUME NEW w \in Runners, NEW r \in Requests, Claim(w, r) PROVE TypeOK'
    <3>1. RowsTyped' /\ EnvTyped'
      BY <2>2 DEF Claim
    <3>2. CASE lock[r] = NoRunner /\ status[r] \in Runnable
      <4>1. /\ lock' = [lock EXCEPT ![r] = w]
            /\ pc' = [pc EXCEPT ![w] = "gate"]
            /\ rq' = [rq EXCEPT ![w] = r]
            /\ seen' = [seen EXCEPT ![w] = status[r]]
            /\ UNCHANGED <<batch, done, step>>
        BY <2>2, <3>2 DEF Claim
      <4>2. heldAtLoad' \in [Runners -> SUBSET Holds]
        BY <2>2, <3>2 DEF Claim
      <4>3. RunsTyped'
        BY <3>2, <4>1, <4>2
      <4> QED
        BY <3>1, <4>3
    <3>3. CASE ~(lock[r] = NoRunner /\ status[r] \in Runnable)
      <4>1. RunsTyped'
        BY <2>2, <3>3 DEF Claim
      <4> QED
        BY <3>1, <4>1
    <3> QED
      BY <3>2, <3>3
  <2>3. ASSUME NEW w \in Runners, Gate(w) PROVE TypeOK'
    BY <2>3 DEF Gate
  <2>4. ASSUME NEW w \in Runners, Park(w) PROVE TypeOK'
    <3>1. rq[w] \in Requests /\ pc[w] # "idle"
      BY <2>4 DEF Park
    <3>2. RowsTyped' /\ EnvTyped'
      BY <2>4, <3>1, SetManualReviewTyped DEF Park
    <3>3. RunsTyped'
      BY <2>4, <3>1, ReturnTyped DEF Park
    <3> QED
      BY <3>2, <3>3
  <2>5. ASSUME NEW w \in Runners, HookRejects(w) PROVE TypeOK'
    <3>1. rq[w] \in Requests /\ pc[w] # "idle"
      BY <2>5 DEF HookRejects
    <3>2. RowsTyped' /\ EnvTyped'
      BY <2>5, <3>1, SetManualReviewTyped DEF HookRejects
    <3>3. RunsTyped'
      BY <2>5, <3>1, ReturnTyped DEF HookRejects
    <3> QED
      BY <3>2, <3>3
  <2>6. ASSUME NEW w \in Runners, Begin(w) PROVE TypeOK'
    <3>1. rq[w] \in Requests /\ pc[w] # "idle"
      BY <2>6 DEF Begin
    <3>2. RowsTyped' /\ EnvTyped'
      BY <2>6, <3>1, SetManualReviewTyped DEF Begin
    <3>3. RunsTyped'
      BY <2>6, <3>1, ReturnTyped DEF Begin
    <3> QED
      BY <3>2, <3>3
  <2>7. ASSUME NEW w \in Runners, ReadDone(w) PROVE TypeOK'
    BY <2>7 DEF ReadDone
  <2>8. ASSUME NEW w \in Runners, SkipStep(w) PROVE TypeOK'
    BY <2>8 DEF SkipStep, AtStep
  <2>9. ASSUME NEW w \in Runners, KeepStep(w) PROVE TypeOK'
    <3>1. rq[w] \in Requests /\ step[w] \in Steps
      BY <2>9 DEF KeepStep, AtStep
    <3>2. RowsTyped' /\ EnvTyped'
      BY <2>9, <3>1 DEF KeepStep, AtStep, LogDestruction
    <3>3. RunsTyped'
      BY <2>9, <3>1 DEF KeepStep, AtStep
    <3> QED
      BY <3>2, <3>3
  <2>10. ASSUME NEW w \in Runners, StepRejected(w) PROVE TypeOK'
    <3>1. rq[w] \in Requests /\ pc[w] # "idle"
      BY <2>10 DEF StepRejected, MustRun, AtStep
    <3>2. RowsTyped' /\ EnvTyped'
      BY <2>10, <3>1, SetManualReviewTyped DEF StepRejected, MustRun, AtStep
    <3>3. RunsTyped'
      BY <2>10, <3>1, ReturnTyped DEF StepRejected, MustRun, AtStep
    <3> QED
      BY <3>2, <3>3
  <2>11. ASSUME NEW w \in Runners, RunStep(w) PROVE TypeOK'
    BY <2>11 DEF RunStep, MustRun, AtStep, Erase, User
  <2>12. ASSUME NEW w \in Runners, RunExternal(w) PROVE TypeOK'
    <3>1. rq[w] \in Requests /\ pc[w] # "idle"
      BY <2>12 DEF RunExternal, MustRun, AtStep, FanOut, Erase, User
    <3>2. RowsTyped' /\ EnvTyped'
      <4>1. tasks' \in [Requests -> TaskStates] /\ unsent' \in [Requests -> BOOLEAN]
        BY <2>12, <3>1 DEF RunExternal, FanOut
      <4>2. /\ live' \in [Users -> SUBSET Steps]
            /\ status' \in [Requests -> Statuses]
            /\ reason' \in [Requests -> Reasons]
            /\ policy' = policy
        BY <2>12, <3>1, SetManualReviewTyped DEF RunExternal, Erase, User
      <4> QED
        BY <2>12, <4>1, <4>2 DEF RunExternal
    <3>3. RunsTyped'
      BY <2>12, <3>1, ReturnTyped DEF RunExternal, MustRun, AtStep, FanOut, Erase, User
    <3> QED
      BY <3>2, <3>3
  <2>13. ASSUME NEW w \in Runners, LogStep(w) PROVE TypeOK'
    <3>1. rq[w] \in Requests /\ step[w] \in Steps
      BY <2>13 DEF LogStep
    <3>2. RowsTyped' /\ EnvTyped'
      BY <2>13, <3>1 DEF LogStep, LogDestruction
    <3>3. RunsTyped'
      BY <2>13, <3>1 DEF LogStep
    <3> QED
      BY <3>2, <3>3
  <2>14. ASSUME NEW w \in Runners, Finish(w) PROVE TypeOK'
    <3>1. rq[w] \in Requests /\ pc[w] # "idle"
      BY <2>14 DEF Finish
    <3>2. RowsTyped' /\ EnvTyped'
      BY <2>14, <3>1, SetManualReviewTyped DEF Finish
    <3>3. RunsTyped'
      BY <2>14, <3>1, ReturnTyped DEF Finish
    <3> QED
      BY <3>2, <3>3
  <2>15. ASSUME NEW w \in Runners, RunFails(w) PROVE TypeOK'
    <3>1. PICK rest \in {batch[w] \ {rq[w]}, {}} : EndRun(w, rest)
      BY <2>15 DEF RunFails
    <3>2. RunsTyped'
      BY <2>15, <3>1, EndRunTyped DEF RunFails
    <3> QED
      BY <2>15, <3>2 DEF RunFails
  <2>16. ASSUME NEW w \in Runners, LoseLock(w) PROVE TypeOK'
    BY <2>16 DEF LoseLock
  <2>17. ASSUME NEW r \in Requests, CreateRequest(r) PROVE TypeOK'
    BY <2>17 DEF CreateRequest
  <2>18. ASSUME NEW r \in Requests, CancelRequest(r) PROVE TypeOK'
    BY <2>18 DEF CancelRequest
  <2>19. ASSUME NEW r \in Requests, SettleTasks(r) PROVE TypeOK'
    BY <2>19 DEF SettleTasks
  <2>20. ASSUME NEW r \in Requests, LateTaskWrite(r) PROVE TypeOK'
    BY <2>20 DEF LateTaskWrite
  <2>21. ASSUME NEW h \in Holds, CreateHold(h) PROVE TypeOK'
    BY <2>21 DEF CreateHold
  <2>22. ASSUME NEW h \in Holds, ReleaseHold(h) PROVE TypeOK'
    BY <2>22 DEF ReleaseHold
  <2>23. ASSUME NEW h \in Holds, ReleaseCheck(h) PROVE TypeOK'
    BY <2>23 DEF ReleaseCheck
  <2>24. ASSUME NEW h \in Holds, ReleaseResume(h) PROVE TypeOK'
    BY <2>24 DEF ReleaseResume
  <2>25. ASSUME NEW h \in Holds, ReleaseFails(h) PROVE TypeOK'
    BY <2>25 DEF ReleaseFails
  <2>26. ASSUME NEW u \in Users, UseAccount(u) PROVE TypeOK'
    BY <2>26 DEF UseAccount
  <2>27. ASSUME EnableDestination PROVE TypeOK'
    BY <2>27 DEF EnableDestination
  <2>28. ASSUME Tick PROVE TypeOK'
    BY <2>28 DEF Tick
  <2>29. ASSUME UNCHANGED vars PROVE TypeOK'
    BY <2>29 DEF vars
  <2> HIDE DEF TypeOK
  <2> QED
    BY <2>1, <2>2, <2>3, <2>4, <2>5, <2>6, <2>7, <2>8, <2>9, <2>10, <2>11, <2>12, <2>13, <2>14, <2>15, <2>16, <2>17, <2>18, <2>19, <2>20, <2>21, <2>22, <2>23, <2>24, <2>25, <2>26, <2>27, <2>28, <2>29 DEF Next, Work, RequestStep, HoldStep
<1> QED
  BY <1>1, <1>2, PTL DEF Spec

-----------------------------------------------------------------------------

LEMMA EndRunLocks ==
    ASSUME TypeOK, LocksMatchRuns, NEW w \in Runners, pc[w] # "idle", NEW rest,
           EndRun(w, rest), lockLost' = lockLost
    PROVE  LocksMatchRuns'
BY RequestsAssumption DEF TypeOK, RunsTyped, LocksMatchRuns, NoLeakedLock, Running, EndRun

(* The advisory locks do their job: no exit path leaks one, and a run holds *)
(* its request's lock unless that session died.                             *)
THEOREM LocksAreSound == Spec => []LocksMatchRuns
<1>1. Init => LocksMatchRuns
  BY DEF Init, LocksMatchRuns, NoLeakedLock, Running
<1>2. TypeOK /\ LocksMatchRuns /\ [Next]_vars => LocksMatchRuns'
  <2> SUFFICES ASSUME TypeOK, LocksMatchRuns, [Next]_vars PROVE LocksMatchRuns'
    OBVIOUS
  <2>1. ASSUME NEW w \in Runners, Poll(w) PROVE LocksMatchRuns'
    BY <2>1, RequestsAssumption DEF Poll, LocksMatchRuns, NoLeakedLock, Running, TypeOK, RunsTyped
  <2>2. ASSUME NEW w \in Runners, NEW r \in Requests, Claim(w, r) PROVE LocksMatchRuns'
    <3>1. CASE lock[r] = NoRunner /\ status[r] \in Runnable
      <4>1. /\ pc[w] = "idle"
            /\ lock' = [lock EXCEPT ![r] = w]
            /\ pc' = [pc EXCEPT ![w] = "gate"]
            /\ rq' = [rq EXCEPT ![w] = r]
            /\ lockLost' = lockLost
        BY <2>2, <3>1 DEF Claim
      <4>2. NoLeakedLock'
        BY <3>1, <4>1, RequestsAssumption DEF LocksMatchRuns, NoLeakedLock, TypeOK, RunsTyped
      <4>3. \A v \in Runners : Running(v)' => (rq[v] \notin lockLost => lock[rq[v]] = v)'
        BY <3>1, <4>1, RequestsAssumption DEF LocksMatchRuns, Running, TypeOK, RunsTyped
      <4> QED
        BY <4>1, <4>2, <4>3 DEF LocksMatchRuns
    <3>2. CASE ~(lock[r] = NoRunner /\ status[r] \in Runnable)
      BY <2>2, <3>2 DEF Claim, LocksMatchRuns, NoLeakedLock, Running
    <3> QED
      BY <3>1, <3>2
  <2>3. ASSUME NEW w \in Runners, Gate(w) PROVE LocksMatchRuns'
    BY <2>3, RequestsAssumption DEF Gate, LocksMatchRuns, NoLeakedLock, Running, TypeOK, RunsTyped
  <2>4. ASSUME NEW w \in Runners, Park(w) PROVE LocksMatchRuns'
    BY <2>4, EndRunLocks DEF Park, Return
  <2>5. ASSUME NEW w \in Runners, HookRejects(w) PROVE LocksMatchRuns'
    BY <2>5, EndRunLocks DEF HookRejects, Return
  <2>6. ASSUME NEW w \in Runners, Begin(w) PROVE LocksMatchRuns'
    <3>1. CASE seen[w] = "PROCESSING" \/ status[rq[w]] = "REQUESTED"
      BY <2>6, <3>1 DEF Begin, LocksMatchRuns, NoLeakedLock, Running, TypeOK, RunsTyped
    <3>2. CASE ~(seen[w] = "PROCESSING" \/ status[rq[w]] = "REQUESTED")
      BY <2>6, <3>2, EndRunLocks DEF Begin, Return
    <3> QED
      BY <3>1, <3>2
  <2>7. ASSUME NEW w \in Runners, ReadDone(w) PROVE LocksMatchRuns'
    BY <2>7, RequestsAssumption DEF ReadDone, LocksMatchRuns, NoLeakedLock, Running, TypeOK, RunsTyped
  <2>8. ASSUME NEW w \in Runners, SkipStep(w) PROVE LocksMatchRuns'
    BY <2>8, RequestsAssumption DEF SkipStep, AtStep, LocksMatchRuns, NoLeakedLock, Running, TypeOK, RunsTyped
  <2>9. ASSUME NEW w \in Runners, KeepStep(w) PROVE LocksMatchRuns'
    BY <2>9, RequestsAssumption DEF KeepStep, AtStep, LocksMatchRuns, NoLeakedLock, Running, TypeOK, RunsTyped
  <2>10. ASSUME NEW w \in Runners, StepRejected(w) PROVE LocksMatchRuns'
    BY <2>10, EndRunLocks DEF StepRejected, MustRun, AtStep, Return
  <2>11. ASSUME NEW w \in Runners, RunStep(w) PROVE LocksMatchRuns'
    BY <2>11, RequestsAssumption DEF RunStep, MustRun, AtStep, LocksMatchRuns, NoLeakedLock, Running, TypeOK, RunsTyped
  <2>12. ASSUME NEW w \in Runners, RunExternal(w) PROVE LocksMatchRuns'
    <3>1. CASE FanOut(rq[w]) \in {"dead", "open"}
      BY <2>12, <3>1, EndRunLocks DEF RunExternal, MustRun, AtStep, Return
    <3>2. CASE FanOut(rq[w]) \notin {"dead", "open"}
      <4>1. pc[w] = "step" /\ pc' = [pc EXCEPT ![w] = "log"] /\ UNCHANGED <<lock, rq, lockLost>>
        BY <2>12, <3>2 DEF RunExternal, MustRun, AtStep
      <4> QED
        BY <4>1 DEF LocksMatchRuns, NoLeakedLock, Running, TypeOK, RunsTyped
    <3> QED
      BY <3>1, <3>2
  <2>13. ASSUME NEW w \in Runners, LogStep(w) PROVE LocksMatchRuns'
    BY <2>13, RequestsAssumption DEF LogStep, LocksMatchRuns, NoLeakedLock, Running, TypeOK, RunsTyped
  <2>14. ASSUME NEW w \in Runners, Finish(w) PROVE LocksMatchRuns'
    BY <2>14, EndRunLocks DEF Finish, Return
  <2>15. ASSUME NEW w \in Runners, RunFails(w) PROVE LocksMatchRuns'
    BY <2>15, EndRunLocks DEF RunFails
  <2>16. ASSUME NEW w \in Runners, LoseLock(w) PROVE LocksMatchRuns'
    BY <2>16, RequestsAssumption DEF LoseLock, LocksMatchRuns, NoLeakedLock, Running, TypeOK, RunsTyped
  <2>17. ASSUME NEW r \in Requests, CreateRequest(r) PROVE LocksMatchRuns'
    BY <2>17 DEF CreateRequest, LocksMatchRuns, NoLeakedLock, Running
  <2>18. ASSUME NEW r \in Requests, CancelRequest(r) PROVE LocksMatchRuns'
    BY <2>18 DEF CancelRequest, LocksMatchRuns, NoLeakedLock, Running
  <2>19. ASSUME NEW r \in Requests, SettleTasks(r) PROVE LocksMatchRuns'
    BY <2>19 DEF SettleTasks, LocksMatchRuns, NoLeakedLock, Running
  <2>20. ASSUME NEW r \in Requests, LateTaskWrite(r) PROVE LocksMatchRuns'
    BY <2>20 DEF LateTaskWrite, LocksMatchRuns, NoLeakedLock, Running
  <2>21. ASSUME NEW h \in Holds, CreateHold(h) PROVE LocksMatchRuns'
    BY <2>21 DEF CreateHold, LocksMatchRuns, NoLeakedLock, Running
  <2>22. ASSUME NEW h \in Holds, ReleaseHold(h) PROVE LocksMatchRuns'
    BY <2>22 DEF ReleaseHold, LocksMatchRuns, NoLeakedLock, Running
  <2>23. ASSUME NEW h \in Holds, ReleaseCheck(h) PROVE LocksMatchRuns'
    BY <2>23 DEF ReleaseCheck, LocksMatchRuns, NoLeakedLock, Running
  <2>24. ASSUME NEW h \in Holds, ReleaseResume(h) PROVE LocksMatchRuns'
    BY <2>24 DEF ReleaseResume, LocksMatchRuns, NoLeakedLock, Running
  <2>25. ASSUME NEW h \in Holds, ReleaseFails(h) PROVE LocksMatchRuns'
    BY <2>25 DEF ReleaseFails, LocksMatchRuns, NoLeakedLock, Running
  <2>26. ASSUME NEW u \in Users, UseAccount(u) PROVE LocksMatchRuns'
    BY <2>26 DEF UseAccount, LocksMatchRuns, NoLeakedLock, Running
  <2>27. ASSUME EnableDestination PROVE LocksMatchRuns'
    BY <2>27 DEF EnableDestination, LocksMatchRuns, NoLeakedLock, Running
  <2>28. ASSUME Tick PROVE LocksMatchRuns'
    BY <2>28 DEF Tick, LocksMatchRuns, NoLeakedLock, Running
  <2>29. ASSUME UNCHANGED vars PROVE LocksMatchRuns'
    BY <2>29 DEF vars, LocksMatchRuns, NoLeakedLock, Running
  <2> QED
    BY <2>1, <2>2, <2>3, <2>4, <2>5, <2>6, <2>7, <2>8, <2>9, <2>10, <2>11, <2>12, <2>13, <2>14, <2>15, <2>16, <2>17, <2>18, <2>19, <2>20, <2>21, <2>22, <2>23, <2>24, <2>25, <2>26, <2>27, <2>28, <2>29 DEF Next, Work, RequestStep, HoldStep
<1> QED
  BY <1>1, <1>2, TypeCorrect, PTL DEF Spec

-----------------------------------------------------------------------------

\* A step that changes no request but r, and does not remove r.
OnlyTouches(r) ==
    /\ status'[r] # "NONE"
    /\ \A q \in Requests : q # r => status'[q] = status[q]

\* A run that ends may leave its own request in any state: no other run of it
\* is entitled to anything.
LEMMA EndRunStatus ==
    ASSUME TypeOK, LocksMatchRuns, RunsKnowStatus, NEW w \in Runners, pc[w] # "idle",
           NEW rest, EndRun(w, rest), OnlyTouches(rq[w]), lockLost' = lockLost
    PROVE  RunsKnowStatus'
<1>1. \A v \in Runners : Running(v)' => v # w /\ Running(v)
  BY DEF EndRun, Running, TypeOK, RunsTyped
<1>2. \A v \in Runners : v # w => rq'[v] = rq[v] /\ seen'[v] = seen[v] /\ pc'[v] = pc[v]
  BY DEF EndRun, TypeOK, RunsTyped
<1>3. \A v \in Runners : Running(v) /\ v # w /\ rq[v] \notin lockLost => rq[v] # rq[w]
  BY DEF LocksMatchRuns, Running
<1> QED
  BY <1>1, <1>2, <1>3 DEF RunsKnowStatus, InSteps, OnlyTouches, TypeOK, RunsTyped, Running

LEMMA ParkStatus ==
    ASSUME TypeOK, RunsKnowStatus, NEW w \in Runners, pc[w] # "idle",
           NEW why, SetManualReview(rq[w], why)
    PROVE  OnlyTouches(rq[w])
BY DEF SetManualReview, OnlyTouches, TypeOK, RowsTyped, RunsTyped, RunsKnowStatus, Running

(* No status a run relies on is outdated: CancelRequest, ReleaseHold and    *)
(* the other runners cannot move a request that a run is carrying out.      *)
THEOREM StatusIsCurrent == Spec => []RunsKnowStatus
<1>1. Init => RunsKnowStatus
  BY DEF Init, RunsKnowStatus, Running
<1>2. TypeOK /\ LocksMatchRuns /\ RunsKnowStatus /\ [Next]_vars => RunsKnowStatus'
  <2> SUFFICES ASSUME TypeOK, LocksMatchRuns, RunsKnowStatus, [Next]_vars
               PROVE  RunsKnowStatus'
    OBVIOUS
  <2>1. ASSUME NEW w \in Runners, Poll(w) PROVE RunsKnowStatus'
    BY <2>1 DEF Poll, RunsKnowStatus, Running, InSteps, TypeOK, RunsTyped
  <2>2. ASSUME NEW w \in Runners, NEW r \in Requests, Claim(w, r) PROVE RunsKnowStatus'
    <3>1. CASE lock[r] = NoRunner /\ status[r] \in Runnable
      <4>1. /\ pc' = [pc EXCEPT ![w] = "gate"]
            /\ rq' = [rq EXCEPT ![w] = r]
            /\ seen' = [seen EXCEPT ![w] = status[r]]
            /\ UNCHANGED <<status, lockLost>>
        BY <2>2, <3>1 DEF Claim
      <4> QED
        BY <3>1, <4>1 DEF TypeOK, RowsTyped, RunsTyped, RunsKnowStatus, Running, InSteps
    <3>2. CASE ~(lock[r] = NoRunner /\ status[r] \in Runnable)
      BY <2>2, <3>2 DEF Claim, RunsKnowStatus, Running, InSteps
    <3> QED
      BY <3>1, <3>2
  <2>3. ASSUME NEW w \in Runners, Gate(w) PROVE RunsKnowStatus'
    BY <2>3 DEF Gate, RunsKnowStatus, Running, InSteps, TypeOK, RunsTyped
  <2>4. ASSUME NEW w \in Runners, Park(w) PROVE RunsKnowStatus'
    <3>1. pc[w] # "idle" /\ EndRun(w, batch[w] \ {rq[w]}) /\ lockLost' = lockLost
      BY <2>4 DEF Park, Return
    <3> QED
      BY <2>4, <3>1, EndRunStatus, ParkStatus DEF Park
  <2>5. ASSUME NEW w \in Runners, HookRejects(w) PROVE RunsKnowStatus'
    <3>1. pc[w] # "idle" /\ EndRun(w, batch[w] \ {rq[w]}) /\ lockLost' = lockLost
      BY <2>5 DEF HookRejects, Return
    <3> QED
      BY <2>5, <3>1, EndRunStatus, ParkStatus DEF HookRejects
  <2>6. ASSUME NEW w \in Runners, Begin(w) PROVE RunsKnowStatus'
    <3>1. CASE seen[w] = "PROCESSING" \/ status[rq[w]] = "REQUESTED"
      <4>1. \A v \in Runners : Running(v) /\ v # w /\ rq[v] \notin lockLost => rq[v] # rq[w]
        BY <2>6 DEF Begin, LocksMatchRuns, Running
      <4>2. /\ pc[w] = "hook" /\ rq[w] \in Requests
            /\ pc' = [pc EXCEPT ![w] = "read"]
            /\ UNCHANGED <<rq, seen, lockLost>>
            /\ status' \in {status, [status EXCEPT ![rq[w]] = "PROCESSING"]}
            /\ rq[w] \notin lockLost => status'[rq[w]] = "PROCESSING"
        BY <2>6, <3>1 DEF Begin, TypeOK, RowsTyped, RunsTyped, RunsKnowStatus, Running
      <4> QED
        BY <4>1, <4>2 DEF TypeOK, RowsTyped, RunsTyped, RunsKnowStatus, Running, InSteps
    <3>2. CASE ~(seen[w] = "PROCESSING" \/ status[rq[w]] = "REQUESTED")
      <4>1. pc[w] # "idle" /\ EndRun(w, batch[w] \ {rq[w]}) /\ lockLost' = lockLost /\ status' = status
        BY <2>6, <3>2 DEF Begin, Return
      <4> QED
        BY <4>1, EndRunStatus DEF OnlyTouches, RunsKnowStatus, Running
    <3> QED
      BY <3>1, <3>2
  <2>7. ASSUME NEW w \in Runners, ReadDone(w) PROVE RunsKnowStatus'
    BY <2>7 DEF ReadDone, RunsKnowStatus, Running, InSteps, TypeOK, RunsTyped
  <2>8. ASSUME NEW w \in Runners, SkipStep(w) PROVE RunsKnowStatus'
    BY <2>8 DEF SkipStep, AtStep, RunsKnowStatus, Running, InSteps, TypeOK, RunsTyped
  <2>9. ASSUME NEW w \in Runners, KeepStep(w) PROVE RunsKnowStatus'
    BY <2>9 DEF KeepStep, AtStep, RunsKnowStatus, Running, InSteps, TypeOK, RunsTyped
  <2>10. ASSUME NEW w \in Runners, StepRejected(w) PROVE RunsKnowStatus'
    <3>1. pc[w] # "idle" /\ EndRun(w, batch[w] \ {rq[w]}) /\ lockLost' = lockLost
      BY <2>10 DEF StepRejected, MustRun, AtStep, Return
    <3> QED
      BY <2>10, <3>1, EndRunStatus, ParkStatus DEF StepRejected, MustRun, AtStep
  <2>11. ASSUME NEW w \in Runners, RunStep(w) PROVE RunsKnowStatus'
    BY <2>11 DEF RunStep, MustRun, AtStep, RunsKnowStatus, Running, InSteps, TypeOK, RunsTyped
  <2>12. ASSUME NEW w \in Runners, RunExternal(w) PROVE RunsKnowStatus'
    <3>0. pc[w] = "step" /\ lockLost' = lockLost
      BY <2>12 DEF RunExternal, MustRun, AtStep
    <3>1. CASE FanOut(rq[w]) = "dead"
      BY <2>12, <3>0, <3>1, EndRunStatus, ParkStatus DEF RunExternal, Return
    <3>2. CASE FanOut(rq[w]) = "open"
      <4>1. EndRun(w, batch[w] \ {rq[w]}) /\ status' = status
        BY <2>12, <3>2 DEF RunExternal, Return
      <4> QED
        BY <3>0, <4>1, EndRunStatus DEF OnlyTouches, RunsKnowStatus, Running
    <3>3. CASE FanOut(rq[w]) \notin {"dead", "open"}
      <4>1. pc' = [pc EXCEPT ![w] = "log"] /\ UNCHANGED <<status, rq, seen, lockLost>>
        BY <2>12, <3>3 DEF RunExternal
      <4> QED
        BY <3>0, <4>1 DEF RunsKnowStatus, Running, InSteps, TypeOK, RunsTyped
    <3> QED
      BY <3>1, <3>2, <3>3
  <2>13. ASSUME NEW w \in Runners, LogStep(w) PROVE RunsKnowStatus'
    BY <2>13 DEF LogStep, RunsKnowStatus, Running, InSteps, TypeOK, RunsTyped
  <2>14. ASSUME NEW w \in Runners, Finish(w) PROVE RunsKnowStatus'
    <3>1. pc[w] # "idle" /\ EndRun(w, batch[w] \ {rq[w]}) /\ lockLost' = lockLost
      BY <2>14 DEF Finish, Return
    <3>2. OnlyTouches(rq[w])
      BY <2>14, <3>1 DEF Finish, OnlyTouches, TypeOK, RowsTyped, RunsTyped, RunsKnowStatus, Running
    <3> QED
      BY <3>1, <3>2, EndRunStatus
  <2>15. ASSUME NEW w \in Runners, RunFails(w) PROVE RunsKnowStatus'
    <3>1. PICK rest : EndRun(w, rest)
      BY <2>15 DEF RunFails
    <3>2. pc[w] # "idle" /\ lockLost' = lockLost /\ status' = status
      BY <2>15 DEF RunFails
    <3> QED
      BY <3>1, <3>2, EndRunStatus DEF OnlyTouches, RunsKnowStatus, Running
  <2>16. ASSUME NEW w \in Runners, LoseLock(w) PROVE RunsKnowStatus'
    BY <2>16 DEF LoseLock, RunsKnowStatus, Running, InSteps, TypeOK, RunsTyped
  <2>17. ASSUME NEW r \in Requests, CreateRequest(r) PROVE RunsKnowStatus'
    BY <2>17 DEF CreateRequest, RunsKnowStatus, Running, InSteps, TypeOK, RowsTyped, RunsTyped
  <2>18. ASSUME NEW r \in Requests, CancelRequest(r) PROVE RunsKnowStatus'
    BY <2>18 DEF CancelRequest, RunsKnowStatus, Running, InSteps, TypeOK, RowsTyped, RunsTyped
  <2>19. ASSUME NEW r \in Requests, SettleTasks(r) PROVE RunsKnowStatus'
    BY <2>19 DEF SettleTasks, RunsKnowStatus, Running, InSteps
  <2>20. ASSUME NEW r \in Requests, LateTaskWrite(r) PROVE RunsKnowStatus'
    BY <2>20 DEF LateTaskWrite, RunsKnowStatus, Running, InSteps
  <2>21. ASSUME NEW h \in Holds, CreateHold(h) PROVE RunsKnowStatus'
    BY <2>21 DEF CreateHold, RunsKnowStatus, Running, InSteps
  <2>22. ASSUME NEW h \in Holds, ReleaseHold(h) PROVE RunsKnowStatus'
    BY <2>22 DEF ReleaseHold, RunsKnowStatus, Running, InSteps
  <2>23. ASSUME NEW h \in Holds, ReleaseCheck(h) PROVE RunsKnowStatus'
    BY <2>23 DEF ReleaseCheck, RunsKnowStatus, Running, InSteps
  <2>24. ASSUME NEW h \in Holds, ReleaseResume(h) PROVE RunsKnowStatus'
    BY <2>24 DEF ReleaseResume, RunsKnowStatus, Running, InSteps, TypeOK, RowsTyped, RunsTyped
  <2>25. ASSUME NEW h \in Holds, ReleaseFails(h) PROVE RunsKnowStatus'
    BY <2>25 DEF ReleaseFails, RunsKnowStatus, Running, InSteps
  <2>26. ASSUME NEW u \in Users, UseAccount(u) PROVE RunsKnowStatus'
    BY <2>26 DEF UseAccount, RunsKnowStatus, Running, InSteps
  <2>27. ASSUME EnableDestination PROVE RunsKnowStatus'
    BY <2>27 DEF EnableDestination, RunsKnowStatus, Running, InSteps
  <2>28. ASSUME Tick PROVE RunsKnowStatus'
    BY <2>28 DEF Tick, RunsKnowStatus, Running, InSteps
  <2>29. ASSUME UNCHANGED vars PROVE RunsKnowStatus'
    BY <2>29 DEF vars, RunsKnowStatus, Running, InSteps
  <2> QED
    BY <2>1, <2>2, <2>3, <2>4, <2>5, <2>6, <2>7, <2>8, <2>9, <2>10, <2>11, <2>12, <2>13, <2>14, <2>15, <2>16, <2>17, <2>18, <2>19, <2>20, <2>21, <2>22, <2>23, <2>24, <2>25, <2>26, <2>27, <2>28, <2>29 DEF Next, Work, RequestStep, HoldStep
<1> QED
  BY <1>1, <1>2, TypeCorrect, LocksAreSound, PTL DEF Spec

(* A runner that is past REQUESTED -> PROCESSING owns its request.          *)
THEOREM RunnerOwnsRequest == Spec => []StepsOwnRequest
<1>1. LocksMatchRuns /\ RunsKnowStatus => StepsOwnRequest
  BY DEF LocksMatchRuns, RunsKnowStatus, StepsOwnRequest, Running, InSteps
<1> QED
  BY <1>1, LocksAreSound, StatusIsCurrent, PTL

-----------------------------------------------------------------------------

EvidenceInv ==
    /\ RunsFollowLogs /\ FreshIsClean /\ EvidenceOrdered
    /\ EvidenceTruthful /\ DoneIsComplete

LEMMA EndRunEvidence ==
    ASSUME TypeOK, EvidenceInv, NEW w \in Runners, pc[w] # "idle", NEW rest, EndRun(w, rest),
           UNCHANGED <<logs, live, policy>>, OnlyTouches(rq[w]),
           status'[rq[w]] = "DONE" => logs[rq[w]] = Steps
    PROVE  EvidenceInv'
<1>1. \A v \in Runners : v # w => UNCHANGED <<rq[v], pc[v], step[v], done[v]>>
  BY DEF EndRun, TypeOK, RunsTyped
<1>2. pc'[w] = "idle" /\ step'[w] = 1
  BY DEF EndRun, TypeOK, RunsTyped
<1>3. RunsFollowLogs'
  BY <1>1, <1>2 DEF EvidenceInv, RunsFollowLogs, User
<1> QED
  BY <1>3 DEF EvidenceInv, FreshIsClean, EvidenceOrdered, EvidenceTruthful, DoneIsComplete, OnlyTouches

LEMMA ParkEvidence ==
    ASSUME TypeOK, RunsKnowStatus, EvidenceInv, NEW w \in Runners, pc[w] # "idle", NEW why,
           SetManualReview(rq[w], why)
    PROVE  /\ OnlyTouches(rq[w])
           /\ policy' = policy
           /\ status'[rq[w]] = "DONE" => logs[rq[w]] = Steps
<1>1. OnlyTouches(rq[w])
  BY ParkStatus
<1>2. policy' = policy /\ (status'[rq[w]] = "DONE" => status[rq[w]] = "DONE")
  BY DEF SetManualReview, TypeOK, RowsTyped, RunsTyped
<1> QED
  BY <1>1, <1>2 DEF EvidenceInv, DoneIsComplete, TypeOK, RunsTyped

LEMMA NothingTouched ==
    ASSUME TypeOK, RunsKnowStatus, EvidenceInv, NEW w \in Runners, pc[w] # "idle",
           status' = status
    PROVE  /\ OnlyTouches(rq[w])
           /\ status'[rq[w]] = "DONE" => logs[rq[w]] = Steps
BY DEF OnlyTouches, RunsKnowStatus, Running, EvidenceInv, DoneIsComplete, TypeOK, RunsTyped

\* Erasing before logging keeps the logs truthful.
LEMMA ErasedEvidence ==
    ASSUME TypeOK, EvidenceInv, NEW w \in Runners, pc[w] = "step", step[w] \in Steps,
           rq[w] \in Requests, Erase(w), pc' = [pc EXCEPT ![w] = "log"],
           UNCHANGED <<status, policy, rq, done, step, logs>>
    PROVE  EvidenceInv'
<1>1. /\ \A u \in Users : live'[u] \subseteq live[u]
      /\ step[w] \notin live'[User(w)]
  BY RequestsAssumption DEF Erase, User, TypeOK, RowsTyped
<1>2. RunsFollowLogs'
  <2> SUFFICES ASSUME NEW v \in Runners
               PROVE  /\ (pc[v] \notin {"step", "log"} => step[v] = 1)'
                      /\ (pc[v] \in {"step", "log"} =>
                            /\ done[v] \subseteq logs[rq[v]]
                            /\ \A s \in Steps : s < step[v] => s \in logs[rq[v]])'
                      /\ (pc[v] = "log" /\ step[v] \in live[User(v)] =>
                            step[v] \in policy[rq[v]].keep \cup Regrows)'
    BY DEF RunsFollowLogs
  <2>1. CASE v = w
    BY <1>1, <2>1 DEF EvidenceInv, RunsFollowLogs, User, TypeOK, RunsTyped
  <2>2. CASE v # w
    <3>1. pc'[v] = pc[v]
      BY <2>2 DEF TypeOK, RunsTyped
    <3>2. pc[v] = "log" => User(v) \in Users
      BY RequestsAssumption DEF User, TypeOK, RunsTyped
    <3> QED
      BY <1>1, <3>1, <3>2 DEF EvidenceInv, RunsFollowLogs, User
  <2> QED
    BY <2>1, <2>2
<1> QED
  BY <1>1, <1>2, RequestsAssumption DEF EvidenceInv, FreshIsClean, EvidenceOrdered, EvidenceTruthful, DoneIsComplete

\* Logging the step a run stands at, once its data is gone or kept.
LEMMA LoggedEvidence ==
    ASSUME TypeOK, RunsKnowStatus, EvidenceInv, NEW w \in Runners, rq[w] \in Requests,
           step[w] \in Steps, pc[w] \in {"step", "log"}, LogDestruction(w),
           step[w] \in live[User(w)] => step[w] \in policy[rq[w]].keep \cup Regrows,
           step' = [step EXCEPT ![w] = step[w] + 1],
           pc' = [pc EXCEPT ![w] = "step"],
           UNCHANGED <<status, policy, live, rq, done>>
    PROVE  EvidenceInv'
<1>1. /\ logs'[rq[w]] = logs[rq[w]] \cup {step[w]}
      /\ \A q \in Requests : logs[q] \subseteq logs'[q]
      /\ \A q \in Requests : q # rq[w] => logs'[q] = logs[q]
  BY DEF LogDestruction, TypeOK, RowsTyped
<1>a. step[w] \in Int /\ \A s \in Int : s < step[w] + 1 <=> s < step[w] \/ s = step[w]
  BY StepsAssumption DEF Steps
<1>b. \A s \in Steps : s < step[w] => s \in logs[rq[w]]
  BY DEF EvidenceInv, RunsFollowLogs
<1>c. Steps \subseteq Int
  BY StepsAssumption DEF Steps
<1>2. RunsFollowLogs'
  <2> SUFFICES ASSUME NEW v \in Runners
               PROVE  /\ (pc[v] \notin {"step", "log"} => step[v] = 1)'
                      /\ (pc[v] \in {"step", "log"} =>
                            /\ done[v] \subseteq logs[rq[v]]
                            /\ \A s \in Steps : s < step[v] => s \in logs[rq[v]])'
                      /\ (pc[v] = "log" /\ step[v] \in live[User(v)] =>
                            step[v] \in policy[rq[v]].keep \cup Regrows)'
    BY DEF RunsFollowLogs
  <2>1. CASE v = w
    <3>1. pc'[v] = "step" /\ step'[v] = step[w] + 1 /\ rq'[v] = rq[w] /\ done'[v] = done[w]
      BY <2>1 DEF TypeOK, RunsTyped
    <3>2. \A s \in Steps : s < step[w] + 1 => s \in logs'[rq[w]]
      BY <1>1, <1>a, <1>b, <1>c
    <3>3. done[w] \subseteq logs'[rq[w]]
      BY <1>1 DEF EvidenceInv, RunsFollowLogs
    <3> QED
      BY <3>1, <3>2, <3>3
  <2>2. CASE v # w
    <3>1. pc'[v] = pc[v] /\ step'[v] = step[v]
      BY <2>2 DEF TypeOK, RunsTyped
    <3>2. pc[v] \in {"step", "log"} => rq[v] \in Requests
      BY DEF TypeOK, RunsTyped
    <3> QED
      BY <1>1, <3>1, <3>2 DEF EvidenceInv, RunsFollowLogs, User
  <2> QED
    BY <2>1, <2>2
<1>3. EvidenceOrdered'
  <2> SUFFICES ASSUME NEW r \in Requests, NEW s \in logs'[r], NEW t \in 1 .. s
               PROVE  t \in logs'[r]
    BY DEF EvidenceOrdered
  <2>1. CASE s \in logs[r]
    BY <1>1, <2>1 DEF EvidenceInv, EvidenceOrdered
  <2>2. CASE s \notin logs[r]
    <3>1. r = rq[w] /\ s = step[w]
      BY <1>1, <2>2
    <3>2. t \in Steps /\ (t < step[w] \/ t = step[w])
      BY <3>1, StepsAssumption DEF Steps
    <3> QED
      BY <1>1, <1>b, <3>1, <3>2
  <2> QED
    BY <2>1, <2>2
<1>4. EvidenceTruthful'
  BY <1>1 DEF EvidenceInv, EvidenceTruthful, User
<1>5. FreshIsClean'
  BY <1>1 DEF EvidenceInv, FreshIsClean, RunsKnowStatus, Running
<1>6. DoneIsComplete'
  BY <1>1 DEF EvidenceInv, DoneIsComplete
<1> QED
  BY <1>2, <1>3, <1>4, <1>5, <1>6 DEF EvidenceInv

(* The evidence invariant holds over every crash, halt, park and re-run.    *)
LEMMA EvidenceIsSound == Spec => []EvidenceInv
<1>1. Init => EvidenceInv
  BY DEF Init, EvidenceInv, RunsFollowLogs, FreshIsClean, EvidenceOrdered, EvidenceTruthful, DoneIsComplete
<1>2. TypeOK /\ RunsKnowStatus /\ EvidenceInv /\ [Next]_vars => EvidenceInv'
  <2> SUFFICES ASSUME TypeOK, RunsKnowStatus, EvidenceInv, [Next]_vars
               PROVE  EvidenceInv'
    OBVIOUS
  <2>1. ASSUME NEW w \in Runners, Poll(w) PROVE EvidenceInv'
    BY <2>1 DEF Poll, EvidenceInv, RunsFollowLogs, FreshIsClean, EvidenceOrdered, EvidenceTruthful, DoneIsComplete, User
  <2>2. ASSUME NEW w \in Runners, NEW r \in Requests, Claim(w, r) PROVE EvidenceInv'
    <3>1. CASE lock[r] = NoRunner /\ status[r] \in Runnable
      <4>1. /\ pc[w] = "idle" /\ pc' = [pc EXCEPT ![w] = "gate"]
            /\ rq' = [rq EXCEPT ![w] = r]
            /\ UNCHANGED <<status, policy, logs, live, done, step>>
        BY <2>2, <3>1 DEF Claim
      <4>2. RunsFollowLogs'
        BY <4>1 DEF EvidenceInv, RunsFollowLogs, User, TypeOK, RunsTyped
      <4> QED
        BY <4>1, <4>2 DEF EvidenceInv, FreshIsClean, EvidenceOrdered, EvidenceTruthful, DoneIsComplete
    <3>2. CASE ~(lock[r] = NoRunner /\ status[r] \in Runnable)
      BY <2>2, <3>2 DEF Claim, EvidenceInv, RunsFollowLogs, FreshIsClean, EvidenceOrdered, EvidenceTruthful, DoneIsComplete, User
    <3> QED
      BY <3>1, <3>2
  <2>3. ASSUME NEW w \in Runners, Gate(w) PROVE EvidenceInv'
    <3>1. RunsFollowLogs'
      BY <2>3, StepsAssumption DEF Gate, EvidenceInv, RunsFollowLogs, User, TypeOK, RowsTyped, RunsTyped, Steps
    <3> QED
      BY <2>3, <3>1 DEF Gate, EvidenceInv, FreshIsClean, EvidenceOrdered, EvidenceTruthful, DoneIsComplete
  <2>4. ASSUME NEW w \in Runners, Park(w) PROVE EvidenceInv'
    <3>1. /\ pc[w] # "idle" /\ EndRun(w, batch[w] \ {rq[w]})
          /\ UNCHANGED <<logs, live>>
      BY <2>4 DEF Park, Return
    <3> QED
      BY <2>4, <3>1, EndRunEvidence, ParkEvidence DEF Park
  <2>5. ASSUME NEW w \in Runners, HookRejects(w) PROVE EvidenceInv'
    <3>1. /\ pc[w] # "idle" /\ EndRun(w, batch[w] \ {rq[w]})
          /\ UNCHANGED <<logs, live>>
      BY <2>5 DEF HookRejects, Return
    <3> QED
      BY <2>5, <3>1, EndRunEvidence, ParkEvidence DEF HookRejects
  <2>6. ASSUME NEW w \in Runners, Begin(w) PROVE EvidenceInv'
    <3>1. CASE seen[w] = "PROCESSING" \/ status[rq[w]] = "REQUESTED"
      <4>1. /\ pc[w] = "hook" /\ rq[w] \in Requests
            /\ pc' = [pc EXCEPT ![w] = "read"]
            /\ UNCHANGED <<rq, step, done, logs, live, policy>>
            /\ status' \in {status, [status EXCEPT ![rq[w]] = "PROCESSING"]}
        BY <2>6, <3>1 DEF Begin, TypeOK, RunsTyped
      <4>2. RunsFollowLogs'
        BY <4>1 DEF EvidenceInv, RunsFollowLogs, User, TypeOK, RunsTyped
      <4> QED
        BY <4>1, <4>2 DEF EvidenceInv, FreshIsClean, EvidenceOrdered, EvidenceTruthful, DoneIsComplete, TypeOK, RowsTyped
    <3>2. CASE ~(seen[w] = "PROCESSING" \/ status[rq[w]] = "REQUESTED")
      <4>1. /\ pc[w] # "idle" /\ EndRun(w, batch[w] \ {rq[w]})
            /\ UNCHANGED <<logs, live, policy, status>>
        BY <2>6, <3>2 DEF Begin, Return
      <4> QED
        BY <4>1, EndRunEvidence, NothingTouched
    <3> QED
      BY <3>1, <3>2
  <2>7. ASSUME NEW w \in Runners, ReadDone(w) PROVE EvidenceInv'
    <3>1. RunsFollowLogs'
      BY <2>7, StepsAssumption DEF ReadDone, EvidenceInv, RunsFollowLogs, User, TypeOK, RowsTyped, RunsTyped, Steps
    <3> QED
      BY <2>7, <3>1 DEF ReadDone, EvidenceInv, FreshIsClean, EvidenceOrdered, EvidenceTruthful, DoneIsComplete
  <2>8. ASSUME NEW w \in Runners, SkipStep(w) PROVE EvidenceInv'
    <3>1. /\ pc[w] = "step" /\ step[w] \in Steps /\ step[w] \in done[w]
          /\ step' = [step EXCEPT ![w] = step[w] + 1]
          /\ UNCHANGED <<status, policy, logs, live, pc, rq, done>>
      BY <2>8 DEF SkipStep, AtStep
    <3>2. \A s \in Steps : s < step[w] + 1 => s < step[w] \/ s = step[w]
      BY <3>1, StepsAssumption DEF Steps
    <3>3. step'[w] = step[w] + 1 /\ (\A v \in Runners : v # w => step'[v] = step[v])
      BY <3>1 DEF TypeOK, RunsTyped
    <3>4. \A s \in Steps : s < step[w] + 1 => s \in logs[rq[w]]
      BY <3>1, <3>2 DEF EvidenceInv, RunsFollowLogs
    <3>5. RunsFollowLogs'
      BY <3>1, <3>3, <3>4 DEF EvidenceInv, RunsFollowLogs, User
    <3> QED
      BY <3>1, <3>5 DEF EvidenceInv, FreshIsClean, EvidenceOrdered, EvidenceTruthful, DoneIsComplete
  <2>9. ASSUME NEW w \in Runners, KeepStep(w) PROVE EvidenceInv'
    <3>1. /\ rq[w] \in Requests /\ step[w] \in Steps
          /\ step[w] \in policy[rq[w]].keep
          /\ pc[w] = "step" /\ LogDestruction(w)
          /\ step' = [step EXCEPT ![w] = step[w] + 1]
          /\ pc' = [pc EXCEPT ![w] = "step"]
          /\ UNCHANGED <<status, policy, live, rq, done>>
      BY <2>9 DEF KeepStep, AtStep, TypeOK, RunsTyped
    <3> QED
      BY <3>1, LoggedEvidence
  <2>10. ASSUME NEW w \in Runners, StepRejected(w) PROVE EvidenceInv'
    <3>1. /\ pc[w] # "idle" /\ EndRun(w, batch[w] \ {rq[w]})
          /\ UNCHANGED <<logs, live>>
      BY <2>10 DEF StepRejected, MustRun, AtStep, Return
    <3> QED
      BY <2>10, <3>1, EndRunEvidence, ParkEvidence DEF StepRejected, MustRun, AtStep
  <2>11. ASSUME NEW w \in Runners, RunStep(w) PROVE EvidenceInv'
    <3>1. /\ pc[w] = "step" /\ step[w] \in Steps /\ rq[w] \in Requests
          /\ Erase(w) /\ pc' = [pc EXCEPT ![w] = "log"]
          /\ UNCHANGED <<status, policy, rq, done, step, logs>>
      BY <2>11 DEF RunStep, MustRun, AtStep, TypeOK, RunsTyped
    <3> QED
      BY <3>1, ErasedEvidence
  <2>12. ASSUME NEW w \in Runners, RunExternal(w) PROVE EvidenceInv'
    <3>0. pc[w] = "step" /\ step[w] \in Steps /\ logs' = logs /\ rq[w] \in Requests
      BY <2>12 DEF RunExternal, MustRun, AtStep, TypeOK, RunsTyped
    <3>1. CASE FanOut(rq[w]) = "dead"
      BY <2>12, <3>0, <3>1, EndRunEvidence, ParkEvidence DEF RunExternal, Return
    <3>2. CASE FanOut(rq[w]) = "open"
      <4>1. EndRun(w, batch[w] \ {rq[w]}) /\ UNCHANGED <<live, policy, status>>
        BY <2>12, <3>2 DEF RunExternal, Return
      <4> QED
        BY <3>0, <4>1, EndRunEvidence, NothingTouched
    <3>3. CASE FanOut(rq[w]) \notin {"dead", "open"}
      <4>1. /\ Erase(w) /\ pc' = [pc EXCEPT ![w] = "log"]
            /\ UNCHANGED <<status, policy, rq, done, step>>
        BY <2>12, <3>3 DEF RunExternal
      <4> QED
        BY <3>0, <4>1, ErasedEvidence
    <3> QED
      BY <3>1, <3>2, <3>3
  <2>13. ASSUME NEW w \in Runners, LogStep(w) PROVE EvidenceInv'
    <3>1. /\ rq[w] \in Requests /\ step[w] \in Steps
          /\ pc[w] = "log" /\ LogDestruction(w)
          /\ step' = [step EXCEPT ![w] = step[w] + 1]
          /\ pc' = [pc EXCEPT ![w] = "step"]
          /\ UNCHANGED <<status, policy, live, rq, done>>
      BY <2>13 DEF LogStep, TypeOK, RunsTyped
    <3> QED
      BY <3>1, LoggedEvidence DEF EvidenceInv, RunsFollowLogs, User
  <2>14. ASSUME NEW w \in Runners, Finish(w) PROVE EvidenceInv'
    <3>1. /\ pc[w] = "step" /\ step[w] = NSteps + 1
          /\ EndRun(w, batch[w] \ {rq[w]})
          /\ UNCHANGED <<logs, live, policy>>
      BY <2>14 DEF Finish, Return
    <3>2. logs[rq[w]] = Steps
      <4>1. \A s \in Steps : s < step[w]
        BY <3>1, StepsAssumption DEF Steps
      <4>2. Steps \subseteq logs[rq[w]]
        BY <3>1, <4>1 DEF EvidenceInv, RunsFollowLogs
      <4>3. logs[rq[w]] \subseteq Steps
        BY <3>1 DEF TypeOK, RowsTyped, RunsTyped
      <4> QED
        BY <4>2, <4>3
    <3>3. status'[rq[w]] # "NONE" /\ (\A q \in Requests : q # rq[w] => status'[q] = status[q])
      BY <2>14, <3>1 DEF Finish, TypeOK, RowsTyped, RunsTyped, RunsKnowStatus, Running
    <3> QED
      BY <3>1, <3>2, <3>3, EndRunEvidence DEF OnlyTouches
  <2>15. ASSUME NEW w \in Runners, RunFails(w) PROVE EvidenceInv'
    <3>1. PICK rest : EndRun(w, rest)
      BY <2>15 DEF RunFails
    <3>2. pc[w] # "idle" /\ UNCHANGED <<logs, live, policy, status>>
      BY <2>15 DEF RunFails
    <3> QED
      BY <3>1, <3>2, EndRunEvidence, NothingTouched
  <2>16. ASSUME NEW w \in Runners, LoseLock(w) PROVE EvidenceInv'
    BY <2>16 DEF LoseLock, EvidenceInv, RunsFollowLogs, FreshIsClean, EvidenceOrdered, EvidenceTruthful, DoneIsComplete, User
  <2>17. ASSUME NEW r \in Requests, CreateRequest(r) PROVE EvidenceInv'
    <3>1. /\ status[r] = "NONE" /\ logs[r] = {}
          /\ \A q \in Requests \ {r} : status'[q] = status[q] /\ policy'[q] = policy[q]
          /\ status'[r] \notin {"NONE", "DONE"}
          /\ UNCHANGED <<logs, live, pc, rq, step, done>>
      BY <2>17 DEF CreateRequest, EvidenceInv, FreshIsClean, TypeOK, RowsTyped
    <3>2. \A w \in Runners : Running(w) => rq[w] \in Requests \ {r}
      BY <3>1 DEF RunsKnowStatus, Running, TypeOK, RunsTyped
    <3>3. RunsFollowLogs'
      BY <3>1, <3>2 DEF EvidenceInv, RunsFollowLogs, User, Running
    <3> QED
      BY <3>1, <3>3 DEF EvidenceInv, FreshIsClean, EvidenceOrdered, EvidenceTruthful, DoneIsComplete
  <2>18. ASSUME NEW r \in Requests, CancelRequest(r) PROVE EvidenceInv'
    <3>1. RunsFollowLogs'
      BY <2>18 DEF CancelRequest, EvidenceInv, RunsFollowLogs, User
    <3> QED
      BY <2>18, <3>1 DEF CancelRequest, EvidenceInv, FreshIsClean, EvidenceOrdered, EvidenceTruthful, DoneIsComplete, TypeOK, RowsTyped
  <2>19. ASSUME NEW r \in Requests, SettleTasks(r) PROVE EvidenceInv'
    BY <2>19 DEF SettleTasks, EvidenceInv, RunsFollowLogs, FreshIsClean, EvidenceOrdered, EvidenceTruthful, DoneIsComplete, User
  <2>20. ASSUME NEW r \in Requests, LateTaskWrite(r) PROVE EvidenceInv'
    BY <2>20 DEF LateTaskWrite, EvidenceInv, RunsFollowLogs, FreshIsClean, EvidenceOrdered, EvidenceTruthful, DoneIsComplete, User
  <2>21. ASSUME NEW h \in Holds, CreateHold(h) PROVE EvidenceInv'
    BY <2>21 DEF CreateHold, EvidenceInv, RunsFollowLogs, FreshIsClean, EvidenceOrdered, EvidenceTruthful, DoneIsComplete, User
  <2>22. ASSUME NEW h \in Holds, ReleaseHold(h) PROVE EvidenceInv'
    BY <2>22 DEF ReleaseHold, EvidenceInv, RunsFollowLogs, FreshIsClean, EvidenceOrdered, EvidenceTruthful, DoneIsComplete, User
  <2>23. ASSUME NEW h \in Holds, ReleaseCheck(h) PROVE EvidenceInv'
    BY <2>23 DEF ReleaseCheck, EvidenceInv, RunsFollowLogs, FreshIsClean, EvidenceOrdered, EvidenceTruthful, DoneIsComplete, User
  <2>24. ASSUME NEW h \in Holds, ReleaseResume(h) PROVE EvidenceInv'
    <3>1. RunsFollowLogs'
      BY <2>24 DEF ReleaseResume, EvidenceInv, RunsFollowLogs, User
    <3> QED
      BY <2>24, <3>1 DEF ReleaseResume, EvidenceInv, FreshIsClean, EvidenceOrdered, EvidenceTruthful, DoneIsComplete, TypeOK, RowsTyped
  <2>25. ASSUME NEW h \in Holds, ReleaseFails(h) PROVE EvidenceInv'
    BY <2>25 DEF ReleaseFails, EvidenceInv, RunsFollowLogs, FreshIsClean, EvidenceOrdered, EvidenceTruthful, DoneIsComplete, User
  <2>26. ASSUME NEW u \in Users, UseAccount(u) PROVE EvidenceInv'
    <3>1. PICK s \in Regrows : live' = [live EXCEPT ![u] = live[u] \cup {s}]
      BY <2>26 DEF UseAccount
    <3>2. UNCHANGED <<status, policy, logs, pc, rq, step, done>>
      BY <2>26 DEF UseAccount
    <3>3. RunsFollowLogs'
      BY <3>1, <3>2 DEF EvidenceInv, RunsFollowLogs, User, TypeOK, RowsTyped
    <3>4. EvidenceTruthful'
      BY <3>1, <3>2, RequestsAssumption DEF EvidenceInv, EvidenceTruthful, TypeOK, RowsTyped
    <3> QED
      BY <3>2, <3>3, <3>4 DEF EvidenceInv, FreshIsClean, EvidenceOrdered, DoneIsComplete
  <2>27. ASSUME EnableDestination PROVE EvidenceInv'
    BY <2>27 DEF EnableDestination, EvidenceInv, RunsFollowLogs, FreshIsClean, EvidenceOrdered, EvidenceTruthful, DoneIsComplete, User
  <2>28. ASSUME Tick PROVE EvidenceInv'
    BY <2>28 DEF Tick, EvidenceInv, RunsFollowLogs, FreshIsClean, EvidenceOrdered, EvidenceTruthful, DoneIsComplete, User
  <2>29. ASSUME UNCHANGED vars PROVE EvidenceInv'
    BY <2>29 DEF vars, EvidenceInv, RunsFollowLogs, FreshIsClean, EvidenceOrdered, EvidenceTruthful, DoneIsComplete, User
  <2> QED
    BY <2>1, <2>2, <2>3, <2>4, <2>5, <2>6, <2>7, <2>8, <2>9, <2>10, <2>11, <2>12, <2>13, <2>14, <2>15, <2>16, <2>17, <2>18, <2>19, <2>20, <2>21, <2>22, <2>23, <2>24, <2>25, <2>26, <2>27, <2>28, <2>29 DEF Next, Work, RequestStep, HoldStep
<1> QED
  BY <1>1, <1>2, TypeCorrect, StatusIsCurrent, PTL DEF Spec

(* The destruction logs are a prefix of the step table.                     *)
THEOREM LogsArePrefixes == Spec => []EvidenceOrdered
BY EvidenceIsSound, PTL DEF EvidenceInv

(* A destruction log that is not a KEEP tells the truth.                    *)
THEOREM LogsAreTruthful == Spec => []EvidenceTruthful
BY EvidenceIsSound, PTL DEF EvidenceInv

(* DONE only with the evidence of every step.                               *)
THEOREM DoneHasAllEvidence == Spec => []DoneIsComplete
BY EvidenceIsSound, PTL DEF EvidenceInv

-----------------------------------------------------------------------------
(***************************************************************************)
(* Legal holds: HeldIsPlaced makes HoldStopsLaterRuns inductive.           *)
(***************************************************************************)

HoldInv == HeldIsPlaced /\ HoldStopsLaterRuns

\* The run moves on from a pc past the gate.
PastGate(w) ==
    /\ pc[w] \in {"hook", "read", "step", "log"}
    /\ \E p \in {"read", "step", "log"} : pc' = [pc EXCEPT ![w] = p]
    /\ UNCHANGED <<hold, rq, heldAtLoad>>

LEMMA EndRunHolds ==
    ASSUME TypeOK, HoldInv, NEW w \in Runners, NEW rest, EndRun(w, rest), hold' = hold
    PROVE  HoldInv'
<1>1. \A v \in Runners : v # w => UNCHANGED <<pc[v], rq[v], heldAtLoad[v]>>
  BY DEF EndRun, TypeOK, RunsTyped
<1>2. heldAtLoad'[w] = {}
  BY DEF EndRun, TypeOK, RunsTyped
<1> QED
  BY <1>1, <1>2 DEF HoldInv, HeldIsPlaced, HoldStopsLaterRuns, Running, User

LEMMA PastGateHolds ==
    ASSUME TypeOK, HoldInv, NEW w \in Runners, PastGate(w)
    PROVE  HoldInv'
<1>1. \A v \in Runners : v # w => pc'[v] = pc[v]
  BY DEF PastGate, TypeOK, RunsTyped
<1>2. pc'[w] # "idle" /\ pc[w] \notin {"idle", "gate", "park"}
  BY DEF PastGate, TypeOK, RunsTyped
<1> QED
  BY <1>1, <1>2 DEF PastGate, HoldInv, HeldIsPlaced, HoldStopsLaterRuns, Running, User

LEMMA HoldsAreRespected == Spec => []HoldInv
<1>1. Init => HoldInv
  BY DEF Init, HoldInv, HeldIsPlaced, HoldStopsLaterRuns
<1>2. TypeOK /\ HoldInv /\ [Next]_vars => HoldInv'
  <2> SUFFICES ASSUME TypeOK, HoldInv, [Next]_vars
               PROVE  HoldInv'
    OBVIOUS
  <2>0. ASSUME UNCHANGED <<hold, pc, rq, heldAtLoad>> PROVE HoldInv'
    BY <2>0 DEF HoldInv, HeldIsPlaced, HoldStopsLaterRuns, Running, User
  <2>1. ASSUME NEW w \in Runners, Poll(w) \/ SkipStep(w) \/ KeepStep(w) \/ LoseLock(w)
        PROVE  HoldInv'
    BY <2>0, <2>1 DEF Poll, SkipStep, KeepStep, LoseLock, runVars
  <2>2. ASSUME NEW w \in Runners, NEW r \in Requests, Claim(w, r) PROVE HoldInv'
    <3>1. CASE lock[r] = NoRunner /\ status[r] \in Runnable
      <4>1. /\ pc' = [pc EXCEPT ![w] = "gate"]
            /\ rq' = [rq EXCEPT ![w] = r]
            /\ heldAtLoad' = [heldAtLoad EXCEPT ![w] =
                    {h \in Holds : HoldUser[h] = ReqUser[r] /\ hold[h] = "active"}]
            /\ hold' = hold
        BY <2>2, <3>1 DEF Claim
      <4>2. \A v \in Runners : v # w => UNCHANGED <<pc[v], rq[v], heldAtLoad[v]>>
        BY <4>1 DEF TypeOK, RunsTyped
      <4>3. /\ pc'[w] = "gate" /\ rq'[w] = r
            /\ heldAtLoad'[w] = {h \in Holds : HoldUser[h] = ReqUser[r] /\ hold[h] = "active"}
        BY <4>1 DEF TypeOK, RunsTyped
      <4> QED
        BY <4>1, <4>2, <4>3 DEF HoldInv, HeldIsPlaced, HoldStopsLaterRuns, Running, User
    <3>2. CASE ~(lock[r] = NoRunner /\ status[r] \in Runnable)
      BY <2>0, <2>2, <3>2 DEF Claim
    <3> QED
      BY <3>1, <3>2
  <2>3. ASSUME NEW w \in Runners, Gate(w) PROVE HoldInv'
    <3>1. /\ pc[w] = "gate" /\ UNCHANGED <<hold, rq, heldAtLoad>>
          /\ pc' = [pc EXCEPT ![w] = IF ActiveHoldFor(User(w)) THEN "park" ELSE "hook"]
      BY <2>3 DEF Gate
    <3>2. \A v \in Runners : v # w => pc'[v] = pc[v]
      BY <3>1 DEF TypeOK, RunsTyped
    <3>3. pc'[w] = IF ActiveHoldFor(User(w)) THEN "park" ELSE "hook"
      BY <3>1 DEF TypeOK, RunsTyped
    <3>4. \A h \in heldAtLoad[w] : hold[h] = "active" => ActiveHoldFor(User(w))
      BY DEF HoldInv, HeldIsPlaced, ActiveHoldFor, TypeOK, RunsTyped
    <3> QED
      BY <3>1, <3>2, <3>3, <3>4 DEF HoldInv, HeldIsPlaced, HoldStopsLaterRuns, Running, User
  <2>4. ASSUME NEW w \in Runners, Park(w) \/ HookRejects(w) \/ StepRejected(w) \/ Finish(w)
        PROVE  HoldInv'
    <3>1. hold' = hold /\ EndRun(w, batch[w] \ {rq[w]})
      BY <2>4 DEF Park, HookRejects, StepRejected, Finish, Return
    <3> QED
      BY <3>1, EndRunHolds
  <2>5. ASSUME NEW w \in Runners, RunFails(w) PROVE HoldInv'
    <3>1. PICK rest : EndRun(w, rest)
      BY <2>5 DEF RunFails
    <3> QED
      BY <2>5, <3>1, EndRunHolds DEF RunFails
  <2>6. ASSUME NEW w \in Runners, Begin(w) PROVE HoldInv'
    <3>1. CASE seen[w] = "PROCESSING" \/ status[rq[w]] = "REQUESTED"
      BY <2>6, <3>1, PastGateHolds DEF Begin, PastGate
    <3>2. CASE ~(seen[w] = "PROCESSING" \/ status[rq[w]] = "REQUESTED")
      BY <2>6, <3>2, EndRunHolds DEF Begin, Return
    <3> QED
      BY <3>1, <3>2
  <2>7. ASSUME NEW w \in Runners, ReadDone(w) \/ RunStep(w) \/ LogStep(w) PROVE HoldInv'
    <3>1. PastGate(w)
      BY <2>7 DEF PastGate, ReadDone, RunStep, LogStep, MustRun, AtStep
    <3> QED
      BY <3>1, PastGateHolds
  <2>8. ASSUME NEW w \in Runners, RunExternal(w) PROVE HoldInv'
    <3>1. CASE FanOut(rq[w]) \in {"dead", "open"}
      <4>1. hold' = hold /\ EndRun(w, batch[w] \ {rq[w]})
        BY <2>8, <3>1 DEF RunExternal, Return
      <4> QED
        BY <4>1, EndRunHolds
    <3>2. CASE FanOut(rq[w]) \notin {"dead", "open"}
      <4>1. PastGate(w)
        BY <2>8, <3>2 DEF RunExternal, PastGate, MustRun, AtStep
      <4> QED
        BY <4>1, PastGateHolds
    <3> QED
      BY <3>1, <3>2
  <2>9. ASSUME NEW h \in Holds, CreateHold(h) PROVE HoldInv'
    <3>1. hold[h] = "absent" /\ UNCHANGED <<pc, rq, heldAtLoad>>
      BY <2>9 DEF CreateHold, runVars
    <3>2. \A g \in Holds : g # h => hold'[g] = hold[g]
      BY <2>9 DEF CreateHold, TypeOK, RowsTyped
    <3>3. \A w \in Runners : heldAtLoad[w] \subseteq Holds \ {h}
      BY <3>1 DEF HoldInv, HeldIsPlaced, TypeOK, RunsTyped
    <3> QED
      BY <3>1, <3>2, <3>3 DEF HoldInv, HeldIsPlaced, HoldStopsLaterRuns, Running, User
  <2>10. ASSUME NEW h \in Holds,
                ReleaseHold(h) \/ ReleaseCheck(h) \/ ReleaseResume(h) \/ ReleaseFails(h)
         PROVE  HoldInv'
    <3>1. UNCHANGED <<pc, rq, heldAtLoad>>
      BY <2>10 DEF ReleaseHold, ReleaseCheck, ReleaseResume, ReleaseFails, runVars
    <3>2. \E x \in {"releasing", "resuming", "released"} : hold' = [hold EXCEPT ![h] = x]
      BY <2>10 DEF ReleaseHold, ReleaseCheck, ReleaseResume, ReleaseFails
    <3>3. \A g \in Holds : hold'[g] # hold[g] => hold'[g] \in {"releasing", "resuming", "released"}
      BY <3>2 DEF TypeOK, RowsTyped
    <3>4. \A w \in Runners : heldAtLoad[w] \subseteq Holds
      BY DEF TypeOK, RunsTyped
    <3> QED
      BY <3>1, <3>3, <3>4 DEF HoldInv, HeldIsPlaced, HoldStopsLaterRuns, Running, User
  <2>11. ASSUME NEW r \in Requests, RequestStep(r) PROVE HoldInv'
    BY <2>0, <2>11 DEF RequestStep, CreateRequest, CancelRequest, SettleTasks, LateTaskWrite, runVars
  <2>12. ASSUME (\E u \in Users : UseAccount(u)) \/ EnableDestination \/ Tick \/ UNCHANGED vars
         PROVE  HoldInv'
    BY <2>0, <2>12 DEF UseAccount, EnableDestination, Tick, vars, runVars
  <2> QED
    BY <2>1, <2>2, <2>3, <2>4, <2>5, <2>6, <2>7, <2>8, <2>9, <2>10, <2>11, <2>12
       DEF Next, Work, HoldStep
<1> QED
  BY <1>1, <1>2, TypeCorrect, PTL DEF Spec

(* A hold in force since before the load keeps a run from every step.       *)
THEOREM HoldsStopLaterRuns == Spec => []HoldStopsLaterRuns
BY HoldsAreRespected, PTL DEF HoldInv

(* No exit path of withRequestLock leaves an advisory lock behind.          *)
THEOREM LocksAreReleased == Spec => []NoLeakedLock
BY LocksAreSound, PTL DEF LocksMatchRuns

-----------------------------------------------------------------------------
(***************************************************************************)
(* What one step of the system can do to the requests and their evidence.  *)
(***************************************************************************)

Moves(r, from, to) ==
    status[r] \in from /\ status' = [status EXCEPT ![r] = to] /\ logs' = logs

Completes(r) == logs[r] = Steps /\ Moves(r, {"PROCESSING"}, "DONE")

Records(w) ==
    /\ pc[w] \in {"step", "log"} /\ rq[w] \in Requests /\ step[w] \in Steps
    /\ LogDestruction(w) /\ status' = status

Changes ==
    \/ UNCHANGED <<status, logs>>
    \/ \E r \in Requests :
        \/ CreateRequest(r)
        \/ Moves(r, {"REQUESTED"}, "CANCELED")
        \/ Moves(r, {"REQUESTED"}, "PROCESSING")
        \/ Moves(r, Runnable, "MANUAL_REVIEW")
        \/ Completes(r)
    \/ \E h \in Holds : ReleaseResume(h)
    \/ \E w \in Runners : Records(w)

LEMMA ParkChanges ==
    ASSUME NEW r \in Requests, NEW why, SetManualReview(r, why), logs' = logs
    PROVE  Changes
<1>1. CASE status[r] \in Runnable
  BY <1>1 DEF SetManualReview, Changes, Moves
<1>2. CASE status[r] \notin Runnable
  BY <1>2 DEF SetManualReview, Changes, reqVars
<1> QED
  BY <1>1, <1>2

LEMMA StepChanges ==
    ASSUME TypeOK, EvidenceInv, [Next]_vars
    PROVE  Changes
<1>0. ASSUME UNCHANGED <<status, logs>> PROVE Changes
  BY <1>0 DEF Changes
<1>1. ASSUME NEW w \in Runners,
             Poll(w) \/ (\E r \in Requests : Claim(w, r)) \/ Gate(w) \/ ReadDone(w)
             \/ SkipStep(w) \/ RunStep(w) \/ RunFails(w) \/ LoseLock(w)
      PROVE  Changes
  BY <1>0, <1>1 DEF Poll, Claim, Gate, ReadDone, SkipStep, RunStep, RunFails, LoseLock,
                    reqVars, tableVars
<1>2. ASSUME NEW w \in Runners, Park(w) \/ HookRejects(w) \/ StepRejected(w) PROVE Changes
  <2>1. rq[w] \in Requests
    BY <1>2 DEF Park, HookRejects, StepRejected, MustRun, AtStep, TypeOK, RunsTyped
  <2>2. logs' = logs /\ \E why : SetManualReview(rq[w], why)
    BY <1>2 DEF Park, HookRejects, StepRejected, tableVars
  <2> QED
    BY <2>1, <2>2, ParkChanges
<1>3. ASSUME NEW w \in Runners, Begin(w) PROVE Changes
  <2>1. rq[w] \in Requests /\ logs' = logs /\ seen[w] \in Runnable
    BY <1>3 DEF Begin, TypeOK, RunsTyped, tableVars
  <2>2. CASE seen[w] = "REQUESTED" /\ status[rq[w]] = "REQUESTED"
    BY <1>3, <2>1, <2>2 DEF Begin, Changes, Moves
  <2>3. CASE ~(seen[w] = "REQUESTED" /\ status[rq[w]] = "REQUESTED")
    <3>1. status' = status
      BY <1>3, <2>1, <2>3 DEF Begin, Runnable
    <3> QED
      BY <1>0, <2>1, <3>1
  <2> QED
    BY <2>2, <2>3
<1>4. ASSUME NEW w \in Runners, KeepStep(w) \/ LogStep(w) PROVE Changes
  <2>1. Records(w)
    BY <1>4 DEF KeepStep, LogStep, AtStep, Records, TypeOK, RunsTyped, reqVars
  <2> QED
    BY <2>1 DEF Changes
<1>5. ASSUME NEW w \in Runners, RunExternal(w) PROVE Changes
  <2>1. rq[w] \in Requests /\ logs' = logs
    BY <1>5 DEF RunExternal, MustRun, AtStep, TypeOK, RunsTyped
  <2>2. CASE FanOut(rq[w]) = "dead"
    BY <1>5, <2>1, <2>2, ParkChanges DEF RunExternal
  <2>3. CASE FanOut(rq[w]) # "dead"
    <3>1. status' = status
      BY <1>5, <2>3 DEF RunExternal, reqVars
    <3> QED
      BY <1>0, <2>1, <3>1
  <2> QED
    BY <2>2, <2>3
<1>6. ASSUME NEW w \in Runners, Finish(w) PROVE Changes
  <2>1. rq[w] \in Requests /\ logs' = logs
    BY <1>6 DEF Finish, TypeOK, RunsTyped, tableVars
  <2>2. logs[rq[w]] = Steps
    <3>1. \A s \in Steps : s < step[w]
      BY <1>6, StepsAssumption DEF Finish, Steps
    <3>2. Steps \subseteq logs[rq[w]]
      BY <1>6, <3>1 DEF Finish, EvidenceInv, RunsFollowLogs
    <3> QED
      BY <2>1, <3>2 DEF TypeOK, RowsTyped
  <2>3. CASE status[rq[w]] = "PROCESSING"
    BY <1>6, <2>1, <2>2, <2>3 DEF Finish, Changes, Completes, Moves
  <2>4. CASE status[rq[w]] # "PROCESSING"
    BY <1>0, <1>6, <2>1, <2>4 DEF Finish
  <2> QED
    BY <2>3, <2>4
<1>7. ASSUME NEW r \in Requests, RequestStep(r) PROVE Changes
  <2>1. CASE CreateRequest(r)
    BY <2>1 DEF Changes
  <2>2. CASE CancelRequest(r)
    BY <2>2 DEF CancelRequest, Changes, Moves, tableVars
  <2>3. CASE SettleTasks(r) \/ LateTaskWrite(r)
    BY <1>0, <2>3 DEF SettleTasks, LateTaskWrite, reqVars, tableVars
  <2> QED
    BY <1>7, <2>1, <2>2, <2>3 DEF RequestStep
<1>8. ASSUME NEW h \in Holds, HoldStep(h) PROVE Changes
  <2>1. CASE ReleaseResume(h)
    BY <2>1 DEF Changes
  <2>2. CASE CreateHold(h) \/ ReleaseHold(h) \/ ReleaseCheck(h) \/ ReleaseFails(h)
    BY <1>0, <2>2 DEF CreateHold, ReleaseHold, ReleaseCheck, ReleaseFails, reqVars, tableVars
  <2> QED
    BY <1>8, <2>1, <2>2 DEF HoldStep
<1>9. ASSUME (\E u \in Users : UseAccount(u)) \/ EnableDestination \/ Tick \/ UNCHANGED vars
      PROVE  Changes
  BY <1>0, <1>9 DEF UseAccount, EnableDestination, Tick, vars, reqVars, tableVars
<1> QED
  BY <1>1, <1>2, <1>3, <1>4, <1>5, <1>6, <1>7, <1>8, <1>9 DEF Next, Work

(* At most one DELETION of a subject is active.                             *)
THEOREM DeletionsAreUnique == Spec => []OneActiveDeletion
<1>1. Init => OneActiveDeletion
  BY DEF Init, OneActiveDeletion, Active, Runnable
<1>2. TypeOK /\ EvidenceInv /\ OneActiveDeletion /\ [Next]_vars => OneActiveDeletion'
  <2> SUFFICES ASSUME TypeOK, OneActiveDeletion, Changes
               PROVE  OneActiveDeletion'
    BY StepChanges
  <2>1. ASSUME status' = status PROVE OneActiveDeletion'
    BY <2>1 DEF OneActiveDeletion
  <2>2. ASSUME NEW r \in Requests, CreateRequest(r) PROVE OneActiveDeletion'
    <3>1. \A q \in Requests : q # r => status'[q] = status[q]
      BY <2>2 DEF CreateRequest, TypeOK, RowsTyped
    <3>2. \A q \in Requests : ReqUser[q] = ReqUser[r] => status[q] \notin Active
      BY <2>2 DEF CreateRequest, HasActiveDeletion
    <3> QED
      BY <3>1, <3>2 DEF OneActiveDeletion
  <2>3. ASSUME NEW r \in Requests, NEW from \in SUBSET Active, NEW to, Moves(r, from, to)
        PROVE  OneActiveDeletion'
    BY <2>3 DEF Moves, OneActiveDeletion, TypeOK, RowsTyped
  <2>4. ASSUME NEW h \in Holds, ReleaseResume(h) PROVE OneActiveDeletion'
    <3>1. \A q \in Requests : status'[q] \in Active => status[q] \in Active
      BY <2>4 DEF ReleaseResume, Active, Runnable
    <3> QED
      BY <3>1 DEF OneActiveDeletion
  <2> QED
    BY <2>1, <2>2, <2>3, <2>4 DEF Changes, Completes, Records, Active, Runnable
<1> QED
  BY <1>1, <1>2, TypeCorrect, EvidenceIsSound, PTL DEF Spec

(* DONE and CANCELED are final, and no runner that kept its lock records    *)
(* anything for such a request.                                             *)
THEOREM FinalStaysFinal == Spec => FinalIsFinal
<1>1. TypeOK /\ RunsKnowStatus /\ EvidenceInv /\ [Next]_vars =>
        [\A r \in Requests : status[r] \in {"DONE", "CANCELED"} =>
            /\ status'[r] = status[r]
            /\ r \notin lockLost => logs'[r] = logs[r]]_vars
  <2> SUFFICES ASSUME TypeOK, RunsKnowStatus, Changes, NEW r \in Requests,
                      status[r] \in {"DONE", "CANCELED"}
               PROVE  /\ status'[r] = status[r]
                      /\ r \notin lockLost => logs'[r] = logs[r]
    BY StepChanges
  <2>1. CASE UNCHANGED <<status, logs>>
    BY <2>1
  <2>2. ASSUME NEW q \in Requests, CreateRequest(q)
        PROVE  status'[r] = status[r] /\ logs'[r] = logs[r]
    BY <2>2 DEF CreateRequest, TypeOK, RowsTyped, tableVars
  <2>3. ASSUME NEW q \in Requests, NEW from \in SUBSET Active, NEW to, Moves(q, from, to)
        PROVE  status'[r] = status[r] /\ logs'[r] = logs[r]
    BY <2>3 DEF Moves, Active, Runnable, TypeOK, RowsTyped
  <2>4. ASSUME NEW h \in Holds, ReleaseResume(h)
        PROVE  status'[r] = status[r] /\ logs'[r] = logs[r]
    BY <2>4 DEF ReleaseResume, tableVars
  <2>5. ASSUME NEW w \in Runners, Records(w)
        PROVE  status'[r] = status[r] /\ (r \notin lockLost => logs'[r] = logs[r])
    <3>1. rq[w] \notin lockLost => status[rq[w]] = "PROCESSING"
      BY <2>5 DEF Records, RunsKnowStatus, Running, InSteps
    <3>2. r # rq[w] => logs'[r] = logs[r]
      BY <2>5 DEF Records, LogDestruction, TypeOK, RowsTyped
    <3> QED
      BY <2>5, <3>1, <3>2 DEF Records
  <2> QED
    BY <2>1, <2>2, <2>3, <2>4, <2>5 DEF Changes, Completes, Active, Runnable
<1> QED
  BY <1>1, TypeCorrect, StatusIsCurrent, EvidenceIsSound, PTL DEF Spec, FinalIsFinal

-----------------------------------------------------------------------------
(***************************************************************************)
(* The pipeline implements the abstract lifecycle.                         *)
(***************************************************************************)

LEMMA MovesMap ==
    ASSUME TypeOK, NEW r \in Requests, NEW from, NEW to \in Statuses, Moves(r, from, to),
           NEW phases, \A s \in from : PhaseOf[s] \in phases
    PROVE  Lifecycle!Move(r, phases, PhaseOf[to])
<1> DEFINE phase == [q \in Requests |-> PhaseOf[status[q]]]
<1>1. \A q \in Requests : status'[q] = IF q = r THEN to ELSE status[q]
  BY DEF Moves, TypeOK, RowsTyped
<1>2. phase' = [q \in Requests |-> PhaseOf[status'[q]]]
  BY DEF PhaseOf
<1>3. phase' = [phase EXCEPT ![r] = PhaseOf[to]]
  BY <1>1, <1>2
<1>4. phase[r] \in phases /\ logs' = logs
  BY DEF Moves
<1> QED
  BY <1>3, <1>4 DEF Lifecycle!Move

(* While no lock session can die, a request goes through its lifecycle and  *)
(* its evidence is recorded one step of the table at a time, in order.      *)
THEOREM PipelineImplementsLifecycle == ~LockLossPossible => (Spec => ImplementsLifecycle)
<1> SUFFICES ASSUME ~LockLossPossible PROVE Spec => Lifecycle!Spec
  BY DEF ImplementsLifecycle
<1>1. Init => Lifecycle!Init
  BY DEF Init, Lifecycle!Init, PhaseOf
<1>2. TypeOK /\ LocksMatchRuns /\ RunsKnowStatus /\ EvidenceInv /\ [Next]_vars
        => [Lifecycle!Next]_<<[r \in Requests |-> PhaseOf[status[r]]], logs>>
  <2> SUFFICES ASSUME TypeOK, LocksMatchRuns, RunsKnowStatus, EvidenceInv, Changes
               PROVE  \/ Lifecycle!Next
                      \/ UNCHANGED <<[r \in Requests |-> PhaseOf[status[r]]], logs>>
    BY StepChanges
  <2>1. CASE UNCHANGED <<status, logs>>
    BY <2>1
  <2>2. ASSUME NEW r \in Requests, CreateRequest(r) PROVE Lifecycle!Ask(r)
    <3>1. PICK to \in {"REQUESTED", "MANUAL_REVIEW"} : Moves(r, {"NONE"}, to)
      BY <2>2 DEF CreateRequest, Moves, tableVars
    <3>2. Lifecycle!Move(r, {"none"}, PhaseOf[to])
      BY <3>1, MovesMap DEF Statuses, PhaseOf
    <3> QED
      BY <3>2 DEF Lifecycle!Ask, PhaseOf
  <2>3. ASSUME NEW r \in Requests, Moves(r, {"REQUESTED"}, "CANCELED") PROVE Lifecycle!Withdraw(r)
    <3>1. \A s \in {"REQUESTED"} : PhaseOf[s] \in {"pending"}
      BY DEF PhaseOf, Runnable
    <3>2. Lifecycle!Move(r, {"pending"}, PhaseOf["CANCELED"])
      BY <2>3, <3>1, MovesMap DEF Statuses
    <3>3. PhaseOf["CANCELED"] = "withdrawn"
      BY DEF PhaseOf
    <3> QED
      BY <3>2, <3>3 DEF Lifecycle!Withdraw
  <2>4. ASSUME NEW r \in Requests, Moves(r, {"REQUESTED"}, "PROCESSING") PROVE Lifecycle!Start(r)
    <3>1. \A s \in {"REQUESTED"} : PhaseOf[s] \in {"pending"}
      BY DEF PhaseOf, Runnable
    <3>2. Lifecycle!Move(r, {"pending"}, PhaseOf["PROCESSING"])
      BY <2>4, <3>1, MovesMap DEF Statuses
    <3>3. PhaseOf["PROCESSING"] = "working"
      BY DEF PhaseOf
    <3> QED
      BY <3>2, <3>3 DEF Lifecycle!Start
  <2>5. ASSUME NEW r \in Requests, Moves(r, Runnable, "MANUAL_REVIEW") PROVE Lifecycle!Park(r)
    <3>1. \A s \in Runnable : PhaseOf[s] \in {"pending", "working"}
      BY DEF PhaseOf, Runnable
    <3>2. Lifecycle!Move(r, {"pending", "working"}, PhaseOf["MANUAL_REVIEW"])
      BY <2>5, <3>1, MovesMap DEF Statuses
    <3>3. PhaseOf["MANUAL_REVIEW"] = "parked"
      BY DEF PhaseOf
    <3> QED
      BY <3>2, <3>3 DEF Lifecycle!Park
  <2>6. ASSUME NEW r \in Requests, Completes(r) PROVE Lifecycle!Complete(r)
    <3>1. \A s \in {"PROCESSING"} : PhaseOf[s] \in {"working"}
      BY DEF PhaseOf, Runnable
    <3>2. Lifecycle!Move(r, {"working"}, PhaseOf["DONE"])
      BY <2>6, <3>1, MovesMap DEF Statuses, Completes
    <3>3. PhaseOf["DONE"] = "erased"
      BY DEF PhaseOf
    <3> QED
      BY <3>2, <3>3, <2>6 DEF Completes, Steps, Lifecycle!Complete
  <2>7. ASSUME NEW h \in Holds, ReleaseResume(h)
        PROVE  \E rs \in SUBSET Requests : Lifecycle!Resume(rs)
    <3> DEFINE parked == {r \in Requests : /\ ReqUser[r] = HoldUser[h]
                                           /\ status[r] = "MANUAL_REVIEW"
                                           /\ reason[r] = "LEGAL_HOLD"}
    <3>1. /\ \A r \in Requests : status'[r] = IF r \in parked THEN "REQUESTED" ELSE status[r]
          /\ logs' = logs
      BY <2>7 DEF ReleaseResume, tableVars
    <3>2. Lifecycle!Resume(parked)
      BY <3>1 DEF Lifecycle!Resume, PhaseOf
    <3>3. parked \in SUBSET Requests
      OBVIOUS
    <3> QED
      BY <3>2, <3>3 DEF Lifecycle!Resume
  <2>8. ASSUME NEW w \in Runners, Records(w)
        PROVE  (\E s \in 1 .. NSteps : Lifecycle!Record(rq[w], s)) \/ logs' = logs
    <3>1. CASE step[w] \in logs[rq[w]]
      BY <2>8, <3>1 DEF Records, LogDestruction, TypeOK, RowsTyped
    <3>2. CASE step[w] \notin logs[rq[w]]
      <4>1. /\ rq[w] \in Requests /\ step[w] \in Steps /\ status' = status
            /\ logs' = [logs EXCEPT ![rq[w]] = logs[rq[w]] \cup {step[w]}]
        BY <2>8 DEF Records, LogDestruction
      <4>2. status[rq[w]] = "PROCESSING"
        BY <2>8 DEF Records, LocksMatchRuns, RunsKnowStatus, Running, InSteps
      <4>3. \A s \in Steps : s < step[w] => s \in logs[rq[w]]
        BY <2>8 DEF Records, EvidenceInv, RunsFollowLogs
      <4>4. logs[rq[w]] \subseteq Steps
        BY <4>1 DEF TypeOK, RowsTyped
      <4>5. ASSUME NEW s \in logs[rq[w]] PROVE s < step[w]
        <5>1. s \in Int /\ step[w] \in Int /\ 1 <= step[w] /\ s \in Steps
          BY <4>1, <4>4, StepsAssumption DEF Steps
        <5>2. 1 .. s \subseteq logs[rq[w]]
          BY <4>1 DEF EvidenceInv, EvidenceOrdered
        <5>3. step[w] \notin 1 .. s
          BY <3>2, <5>2
        <5> QED
          BY <5>1, <5>3
      <4>6. logs[rq[w]] = 1 .. (step[w] - 1)
        <5>1. \A s \in logs[rq[w]] : s \in 1 .. (step[w] - 1)
          BY <4>1, <4>4, <4>5, StepsAssumption DEF Steps
        <5>2. \A s \in 1 .. (step[w] - 1) : s \in Steps /\ s < step[w]
          BY <4>1, StepsAssumption DEF Steps
        <5> QED
          BY <4>3, <5>1, <5>2
      <4>7. logs[rq[w]] \cup {step[w]} = 1 .. step[w]
        BY <4>1, <4>6, StepsAssumption DEF Steps
      <4>8. Lifecycle!Record(rq[w], step[w])
        <5>1. logs' = [logs EXCEPT ![rq[w]] = 1 .. step[w]]
          BY <4>1, <4>7
        <5>2. PhaseOf[status[rq[w]]] = "working"
          BY <4>2 DEF PhaseOf
        <5>3. [r \in Requests |-> PhaseOf[status[r]]]' = [r \in Requests |-> PhaseOf[status[r]]]
          BY <4>1 DEF PhaseOf
        <5> QED
          BY <4>1, <4>6, <5>1, <5>2, <5>3 DEF Lifecycle!Record
      <4> QED
        BY <4>1, <4>8 DEF Steps
    <3> QED
      BY <3>1, <3>2
  <2> QED
    <3>1. CASE \E w \in Runners : Records(w)
      BY <3>1, <2>8 DEF Records, Lifecycle!Next
    <3>2. CASE ~\E w \in Runners : Records(w)
      BY <3>2, <2>1, <2>2, <2>3, <2>4, <2>5, <2>6, <2>7 DEF Changes, Lifecycle!Next
    <3> QED
      BY <3>1, <3>2
<1> QED
  BY <1>1, <1>2, TypeCorrect, LocksAreSound, StatusIsCurrent, EvidenceIsSound, PTL
     DEF Spec, Lifecycle!Spec

=============================================================================
