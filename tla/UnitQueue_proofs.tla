--------------------------- MODULE UnitQueue_proofs ----------------------------
(***************************************************************************)
(* Proofs about UnitQueue for every number of jobs, units, leases and      *)
(* permits.                                                                *)
(***************************************************************************)
EXTENDS UnitQueue, TLAPS

USE ConstantsAssumption

-----------------------------------------------------------------------------
(* Type correctness                                                         *)

LEMMA InitTypeOK == Init => TypeOK
<1>1. ASSUME Init
      PROVE  /\ jobStatus \in [Jobs -> JobStates]
             /\ epoch \in [Jobs -> Nat]
             /\ superseded \in [Jobs -> BOOLEAN]
  BY <1>1 DEF Init, JobStates
<1>2. ASSUME Init
      PROVE  /\ taskStatus \in [Tasks -> TaskStates]
             /\ fence \in [Tasks -> 0 .. MaxFence]
             /\ tries \in [Tasks -> Nat]
             /\ repairs \in [Tasks -> 0 .. 1]
             /\ leaseLive \in [Tasks -> BOOLEAN]
             /\ accepts \in [Tasks -> Nat]
  BY <1>2 DEF Init, TaskStates
<1>3. ASSUME Init
      PROVE  /\ leaseEpoch \in [Tasks -> [Fences -> Nat]]
             /\ leaseRepair \in [Tasks -> [Fences -> 0 .. 1]]
             /\ attState \in [Tasks -> [Fences -> AttemptStates]]
             /\ permit \in [Tasks -> [Fences -> PermitStates]]
             /\ validated \in [Tasks -> [Fences -> BOOLEAN]]
             /\ phase \in [Tasks -> [Fences -> Phases]]
  BY <1>3 DEF Init, AttemptStates, PermitStates, Phases
<1> QED
  BY <1>1, <1>2, <1>3 DEF Init, TypeOK

LEMMA UnitsOfJob == ASSUME NEW t \in Tasks PROVE JobOf[t] \in Jobs
  OBVIOUS

\* Moving a thread, and closing an attempt, keep the types.
LEMMA GotoType ==
  ASSUME TypeOK, NEW t \in Tasks, NEW f, NEW p \in Phases, Goto(t, f, p)
  PROVE  phase' \in [Tasks -> [Fences -> Phases]]
  BY DEF TypeOK, Goto

LEMMA RejectionType == ASSUME NEW t, NEW f PROVE Rejection(t, f) \in Phases
  BY DEF Rejection, Phases, Active, Raised

LEMMA CloseCreatedType ==
  ASSUME TypeOK, NEW t \in Tasks, NEW f, CloseCreated(t, f)
  PROVE  attState' \in [Tasks -> [Fences -> AttemptStates]]
<1>1. attState \in [Tasks -> [Fences -> AttemptStates]] /\ "closed" \in AttemptStates
  BY DEF TypeOK, AttemptStates
<1> DEFINE new == IF attState[t][f] = "created" THEN "closed" ELSE attState[t][f]
<1>2. attState' = [attState EXCEPT ![t] = [attState[t] EXCEPT ![f] = new]]
  BY <1>1 DEF CloseCreated
<1>3. [attState[t] EXCEPT ![f] = new] \in [Fences -> AttemptStates]
  BY <1>1
<1> QED
  BY <1>1, <1>2, <1>3

\* The queue's own transactions keep the types.
LEMMA QueueTypeOK ==
  ASSUME TypeOK, NEW t \in Tasks, Queue(t)
  PROVE  TypeOK'
<1>1. CASE Claim(t)
  <2> DEFINE f == fence[t] + 1
  <2>1. f \in Fences /\ f \in 0 .. MaxFence
    BY <1>1 DEF Claim, TypeOK, Fences
  <2>2. /\ jobStatus' \in [Jobs -> JobStates]
        /\ taskStatus' \in [Tasks -> TaskStates]
    BY <1>1 DEF Claim, TypeOK, SetTask, SetJob, JobStates, TaskStates
  <2>3. /\ fence' \in [Tasks -> 0 .. MaxFence]
        /\ tries' \in [Tasks -> Nat]
        /\ leaseLive' \in [Tasks -> BOOLEAN]
    BY <1>1, <2>1 DEF Claim, TypeOK
  <2>4. /\ leaseEpoch' \in [Tasks -> [Fences -> Nat]]
        /\ leaseRepair' \in [Tasks -> [Fences -> 0 .. 1]]
    BY <1>1 DEF Claim, TypeOK
  <2>5. /\ attState' \in [Tasks -> [Fences -> AttemptStates]]
        /\ phase' \in [Tasks -> [Fences -> Phases]]
    <3>1. "created" \in AttemptStates /\ "claimed" \in Phases
      BY DEF AttemptStates, Phases, Active
    <3> QED
      BY <1>1, <3>1 DEF Claim, TypeOK, SetAttempt, Goto
  <2> QED
    BY <1>1, <2>2, <2>3, <2>4, <2>5 DEF Claim, TypeOK, envVars
<1>2. CASE LeaseExpires(t)
  BY <1>2 DEF LeaseExpires, TypeOK, jobVars, attemptVars, envVars
<1>3. CASE RecoverExpired(t)
  <2>1. /\ jobStatus' \in [Jobs -> JobStates]
        /\ taskStatus' \in [Tasks -> TaskStates]
        /\ attState' \in [Tasks -> [Fences -> AttemptStates]]
        /\ permit' \in [Tasks -> [Fences -> PermitStates]]
    <3>1. CASE RecoverUncertain(t, fence[t])
      <4>1. "outcome_unknown" \in JobStates /\ "outcome_unknown" \in TaskStates
            /\ "outcome_unknown" \in AttemptStates /\ "unknown" \in PermitStates
        BY DEF JobStates, TaskStates, AttemptStates, PermitStates
      <4> QED
        BY <3>1, <4>1 DEF RecoverUncertain, TypeOK, SetPermit, SetAttempt, SetTask, SetJob
    <3>2. CASE RecoverCancelled(t, fence[t])
      BY <3>2, CloseCreatedType DEF RecoverCancelled, TypeOK, SetTask, TaskStates
    <3>3. CASE RecoverCheckpoint(t, fence[t])
      BY <3>3, CloseCreatedType DEF RecoverCheckpoint, TypeOK, SetTask, JobStates, TaskStates
    <3>4. CASE RecoverUnpaid(t, fence[t])
      BY <3>4, CloseCreatedType DEF RecoverUnpaid, TypeOK, SetTask, SetJob, Requeued, JobStates, TaskStates
    <3> QED
      BY <1>3, <3>1, <3>2, <3>3, <3>4 DEF RecoverExpired
  <2> QED
    BY <1>3, <2>1 DEF RecoverExpired, TypeOK, envVars
<1> QED
  BY <1>1, <1>2, <1>3 DEF Queue

LEMMA UntryType ==
  ASSUME TypeOK, NEW t \in Tasks, Untry(t)
  PROVE  tries' \in [Tasks -> Nat]
<1>1. tries[t] \in Nat /\ tries \in [Tasks -> Nat]
  BY DEF TypeOK
<1>2. (IF tries[t] = 0 THEN 0 ELSE tries[t] - 1) \in Nat
  BY <1>1
<1> QED
  BY <1>1, <1>2 DEF Untry

LEMMA FinalizedType ==
  ASSUME NEW j, NEW ts, NEW s \in JobStates
  PROVE  Finalized(j, ts, s) \in JobStates
  BY DEF Finalized, JobStates

LEMMA FinishedType ==
  ASSUME TypeOK, NEW j \in Jobs, NEW ts
  PROVE  Finished(j, ts) \in JobStates
  BY DEF TypeOK, Finished, JobStates

\* The transactions of a worker thread keep the types.
LEMMA SnapshotTypeOK ==
  ASSUME TypeOK, NEW t \in Tasks, NEW f \in Fences, Snapshot(t, f)
  PROVE  TypeOK'
<1>1. \E p \in Phases : Goto(t, f, p)
  <2>1. {"replay", "prepared", "wait_config"} \subseteq Phases
    BY DEF Phases, Active, Waiting
  <2> QED
    BY <2>1, RejectionType DEF Snapshot
<1> QED
  BY <1>1, GotoType DEF Snapshot, TypeOK, jobVars, taskVars, attemptVars, envVars

LEMMA AuthorizeTypeOK ==
  ASSUME TypeOK, NEW t \in Tasks, NEW f \in Fences, Authorize(t, f)
  PROVE  TypeOK'
<1>1. /\ permit' \in [Tasks -> [Fences -> PermitStates]]
      /\ attState' \in [Tasks -> [Fences -> AttemptStates]]
      /\ phase' \in [Tasks -> [Fences -> Phases]]
  <2>1. {"sending", "wait_capacity", "wait_budget", "wait_config", "failed_toolarge"} \subseteq Phases
    BY DEF Phases, Active, Waiting, Failed, Unsent
  <2>2. CASE Reserve(t, f)
    <3>1. "reserved" \in PermitStates /\ "dispatching" \in AttemptStates
      BY DEF PermitStates, AttemptStates
    <3> QED
      BY <2>1, <2>2, <3>1, GotoType DEF Reserve, TypeOK, SetPermit, SetAttempt
  <2>3. CASE DoNotReserve(t, f)
    BY <2>1, <2>3, GotoType DEF DoNotReserve, TypeOK
  <2>4. CASE Goto(t, f, Rejection(t, f)) /\ UNCHANGED <<permit, attState>>
    BY <2>4, GotoType, RejectionType DEF TypeOK
  <2> QED
    BY <2>2, <2>3, <2>4 DEF Authorize
<1> QED
  BY <1>1 DEF Authorize, TypeOK, jobVars, taskVars, envVars

LEMMA WaitTypeOK ==
  ASSUME TypeOK, NEW t \in Tasks, NEW f \in Fences, WaitWithoutDispatch(t, f)
  PROVE  TypeOK'
<1>1. /\ jobStatus' \in [Jobs -> JobStates]
      /\ taskStatus' \in [Tasks -> TaskStates]
      /\ tries' \in [Tasks -> Nat]
      /\ attState' \in [Tasks -> [Fences -> AttemptStates]]
      /\ phase' \in [Tasks -> [Fences -> Phases]]
  <2>1. "done" \in Phases /\ "pending" \in TaskStates /\ "closed" \in AttemptStates
    BY DEF Phases, TaskStates, AttemptStates
  <2>2. StatusWhileWaiting(phase[t][f]) \in JobStates
    BY DEF WaitWithoutDispatch, Waiting, StatusWhileWaiting, JobStates
  <2>3. CASE Current(t, f, {"running"})
    <3>1. jobStatus' \in [Jobs -> JobStates] /\ taskStatus' \in [Tasks -> TaskStates]
      BY <2>1, <2>2, <2>3 DEF WaitWithoutDispatch, TypeOK, SetTask, SetJob
    <3>2. attState' \in [Tasks -> [Fences -> AttemptStates]]
      <4>1. attState' = [attState EXCEPT ![t][f] = "closed"]
        BY <2>3 DEF WaitWithoutDispatch, SetAttempt
      <4>2. attState \in [Tasks -> [Fences -> AttemptStates]]
        BY DEF TypeOK
      <4> QED
        BY <2>1, <4>1, <4>2
    <3> QED
      BY <2>1, <2>3, <3>1, <3>2, UntryType, GotoType DEF WaitWithoutDispatch
  <2>4. CASE ~Current(t, f, {"running"})
    BY <2>4, RejectionType, GotoType DEF WaitWithoutDispatch, TypeOK
  <2> QED
    BY <2>3, <2>4
<1> QED
  BY <1>1 DEF WaitWithoutDispatch, TypeOK, envVars

LEMMA ProviderReturnsTypeOK ==
  ASSUME TypeOK, NEW t \in Tasks, NEW f \in Fences, ProviderReturns(t, f)
  PROVE  TypeOK'
<1>1. Outcomes \subseteq Phases
  BY DEF AllOutcomes, Phases, Active, Returned, Failed, Unsent
<1> QED
  BY <1>1, GotoType DEF ProviderReturns, TypeOK, jobVars, taskVars, attemptVars, envVars

LEMMA SettleTypeOK ==
  ASSUME TypeOK, NEW t \in Tasks, NEW f \in Fences, Settle(t, f)
  PROVE  TypeOK'
<1>1. AfterSettlement(phase[t][f]) \in Phases
  BY DEF Settle, Returned, AfterSettlement, Phases, Active, Failed
<1>2. phase' \in [Tasks -> [Fences -> Phases]]
  BY <1>1, GotoType DEF Settle
<1>3. "settled" \in PermitStates /\ "settled" \in AttemptStates
  BY DEF PermitStates, AttemptStates
<1> QED
  BY <1>2, <1>3 DEF Settle, TypeOK, SetPermit, SetAttempt, jobVars, taskVars, envVars

LEMMA CheckpointTypeOK ==
  ASSUME TypeOK, NEW t \in Tasks, NEW f \in Fences, Checkpoint(t, f)
  PROVE  TypeOK'
<1>1. {"checkpointed", "done"} \subseteq Phases
  BY DEF Phases, Active
<1>2. phase' \in [Tasks -> [Fences -> Phases]]
  BY <1>1, GotoType DEF Checkpoint
<1>3. validated' \in [Tasks -> [Fences -> BOOLEAN]]
  <2>1. CASE MayCheckpoint
    <3>1. validated' = [validated EXCEPT ![t][f] = TRUE]
      BY <2>1 DEF Checkpoint
    <3>2. validated \in [Tasks -> [Fences -> BOOLEAN]]
      BY DEF TypeOK
    <3> QED
      BY <3>1, <3>2
  <2>2. CASE ~MayCheckpoint
    BY <2>2 DEF Checkpoint, TypeOK
  <2> QED
    BY <2>1, <2>2
<1> QED
  BY <1>2, <1>3 DEF Checkpoint, TypeOK, jobVars, taskVars, envVars

LEMMA CommitTypeOK ==
  ASSUME TypeOK, NEW t \in Tasks, NEW f \in Fences, Commit(t, f)
  PROVE  TypeOK'
<1>1. /\ jobStatus' \in [Jobs -> JobStates]
      /\ taskStatus' \in [Tasks -> TaskStates]
      /\ attState' \in [Tasks -> [Fences -> AttemptStates]]
      /\ phase' \in [Tasks -> [Fences -> Phases]]
  <2>1. "done" \in Phases /\ "succeeded" \in TaskStates
    BY DEF Phases, TaskStates
  <2>2. CASE MayCommit(t, f)
    <3> DEFINE ts == [taskStatus EXCEPT ![t] = "succeeded"]
    <3>1. taskStatus' \in [Tasks -> TaskStates]
      BY <2>1, <2>2 DEF Commit, TypeOK
    <3>2. Finalized(JobOf[t], ts, Finished(JobOf[t], ts)) \in JobStates
      BY UnitsOfJob, FinalizedType, FinishedType
    <3>3. jobStatus' = [jobStatus EXCEPT ![JobOf[t]] = Finalized(JobOf[t], ts, Finished(JobOf[t], ts))]
      BY <2>2 DEF Commit, SetJob
    <3>4. jobStatus' \in [Jobs -> JobStates]
      BY <3>2, <3>3 DEF TypeOK
    <3>5. attState' \in [Tasks -> [Fences -> AttemptStates]]
      BY <2>2, CloseCreatedType DEF Commit
    <3>6. phase' \in [Tasks -> [Fences -> Phases]]
      BY <2>1, <2>2, GotoType DEF Commit
    <3> QED
      BY <3>1, <3>4, <3>5, <3>6
  <2>3. CASE ~MayCommit(t, f)
    BY <2>1, <2>3, RejectionType, GotoType DEF Commit, TypeOK
  <2> QED
    BY <2>2, <2>3
<1> QED
  BY <1>1 DEF Commit, TypeOK, envVars

\* The second row of states: written together by the two classifiers.
LEMMA MoneyType ==
  ASSUME TypeOK, NEW t \in Tasks, NEW f \in Fences, NEW p \in PermitStates, NEW a \in AttemptStates,
         SetPermit(t, f, p), SetAttempt(t, f, a)
  PROVE  /\ permit' \in [Tasks -> [Fences -> PermitStates]]
         /\ attState' \in [Tasks -> [Fences -> AttemptStates]]
<1>1. /\ permit \in [Tasks -> [Fences -> PermitStates]]
      /\ attState \in [Tasks -> [Fences -> AttemptStates]]
  BY DEF TypeOK
<1> QED
  BY <1>1 DEF SetPermit, SetAttempt

LEMMA StatusType ==
  ASSUME TypeOK, NEW t \in Tasks, NEW s \in TaskStates, NEW r \in JobStates, SetTask(t, s), SetJob(t, r)
  PROVE  /\ jobStatus' \in [Jobs -> JobStates]
         /\ taskStatus' \in [Tasks -> TaskStates]
  BY DEF TypeOK, SetTask, SetJob

LEMMA RetryOrStopTypeOK ==
  ASSUME TypeOK, NEW t \in Tasks, NEW f \in Fences, RetryOrStop(t, f)
  PROVE  TypeOK'
<1>1. /\ permit' \in [Tasks -> [Fences -> PermitStates]]
      /\ attState' \in [Tasks -> [Fences -> AttemptStates]]
  <2>1. {"released", "unknown"} \subseteq PermitStates /\ {"closed", "outcome_unknown"} \subseteq AttemptStates
    BY DEF PermitStates, AttemptStates
  <2>2. CASE UNCHANGED <<permit, attState>>
    BY <2>2 DEF TypeOK
  <2>3. CASE ClassifyMoney(t, f)
    <3>1. CASE UNCHANGED <<permit, attState>>
      BY <3>1 DEF TypeOK
    <3>2. CASE SetPermit(t, f, "released") /\ SetAttempt(t, f, "closed")
      BY <2>1, <3>2, MoneyType
    <3>3. CASE SetPermit(t, f, "unknown") /\ SetAttempt(t, f, "outcome_unknown")
      BY <2>1, <3>3, MoneyType
    <3> QED
      BY <2>3, <3>1, <3>2, <3>3 DEF ClassifyMoney
  <2> QED
    BY <2>2, <2>3 DEF RetryOrStop
<1>2. phase' \in [Tasks -> [Fences -> Phases]]
  <2>1. {"raised_other", "done"} \subseteq Phases
    BY DEF Phases, Active, Raised
  <2> QED
    BY <2>1, GotoType DEF RetryOrStop
<1>3. /\ jobStatus' \in [Jobs -> JobStates]
      /\ taskStatus' \in [Tasks -> TaskStates]
      /\ repairs' \in [Tasks -> 0 .. 1]
  <2>1. {"pending", "outcome_unknown", "waiting_config"} \subseteq JobStates
        /\ {"pending", "outcome_unknown", "failed"} \subseteq TaskStates
    BY DEF JobStates, TaskStates
  <2>2. CASE UNCHANGED <<jobStatus, taskStatus, repairs>>
    BY <2>2 DEF TypeOK
  <2>3. CASE Reschedule(t, f)
    <3>1. repairs' \in [Tasks -> 0 .. 1]
      <4>1. repairs[t] \in 0 .. 1 /\ repairs \in [Tasks -> 0 .. 1]
        BY DEF TypeOK
      <4>2. (IF RepairInvalid(t, f) THEN repairs[t] + 1 ELSE repairs[t]) \in 0 .. 1
        BY <4>1 DEF RepairInvalid
      <4> QED
        BY <2>3, <4>1, <4>2 DEF Reschedule
    <3> QED
      BY <2>1, <2>3, <3>1, StatusType DEF Reschedule
  <2>4. CASE StopUnknown(t, f)
    BY <2>1, <2>4, StatusType DEF StopUnknown, TypeOK
  <2>5. CASE StopConfig(t, f)
    BY <2>1, <2>5, StatusType DEF StopConfig, TypeOK
  <2>6. CASE StopUnit(t, f)
    <3> DEFINE ts == [taskStatus EXCEPT ![t] = "failed"]
    <3>1. SetTask(t, "failed") /\ SetJob(t, Finalized(JobOf[t], ts, "pending"))
      BY <2>6 DEF StopUnit, SetTask
    <3>2. Finalized(JobOf[t], ts, "pending") \in JobStates
      BY <2>1, FinalizedType
    <3> QED
      BY <2>1, <2>6, <3>1, <3>2, StatusType DEF StopUnit, TypeOK
  <2> QED
    BY <2>2, <2>3, <2>4, <2>5, <2>6 DEF RetryOrStop
<1> QED
  BY <1>1, <1>2, <1>3 DEF RetryOrStop, TypeOK, envVars

LEMMA HandleExceptionTypeOK ==
  ASSUME TypeOK, NEW t \in Tasks, NEW f \in Fences, HandleException(t, f)
  PROVE  TypeOK'
<1>1. phase' \in [Tasks -> [Fences -> Phases]]
  <2>1. "done" \in Phases
    BY DEF Phases
  <2> QED
    BY <2>1, GotoType DEF HandleException
<1>2. /\ jobStatus' \in [Jobs -> JobStates]
      /\ taskStatus' \in [Tasks -> TaskStates]
      /\ tries' \in [Tasks -> Nat]
      /\ permit' \in [Tasks -> [Fences -> PermitStates]]
      /\ attState' \in [Tasks -> [Fences -> AttemptStates]]
  <2>1. /\ {"outcome_unknown", "failed"} \subseteq JobStates
        /\ {"pending", "outcome_unknown", "failed"} \subseteq TaskStates
        /\ "unknown" \in PermitStates /\ {"closed", "outcome_unknown"} \subseteq AttemptStates
    BY DEF JobStates, TaskStates, PermitStates, AttemptStates
  <2>2. CASE HandleStale(t, f)
    BY <2>2 DEF HandleStale, TypeOK
  <2>3. CASE HandleUncertain(t, f)
    BY <2>1, <2>3, MoneyType, StatusType DEF HandleUncertain, TypeOK
  <2>4. CASE HandleYield(t, f)
    <3>1. tries' \in [Tasks -> Nat] /\ attState' \in [Tasks -> [Fences -> AttemptStates]]
      <4>1. CASE permit[t][f] = "none"
        <5>1. attState' = [attState EXCEPT ![t][f] = "closed"] /\ Untry(t)
          BY <2>4, <4>1 DEF HandleYield, SetAttempt
        <5>2. attState \in [Tasks -> [Fences -> AttemptStates]]
          BY DEF TypeOK
        <5> QED
          BY <2>1, <5>1, <5>2, UntryType
      <4>2. CASE permit[t][f] # "none"
        BY <2>4, <4>2 DEF HandleYield, TypeOK
      <4> QED
        BY <4>1, <4>2
    <3>2. taskStatus' \in [Tasks -> TaskStates]
      BY <2>1, <2>4 DEF HandleYield, SetTask, TypeOK
    <3> QED
      BY <2>4, <3>1, <3>2 DEF HandleYield, TypeOK
  <2>5. CASE HandleFailure(t, f)
    BY <2>1, <2>5, StatusType, CloseCreatedType DEF HandleFailure, TypeOK
  <2> QED
    BY <2>2, <2>3, <2>4, <2>5 DEF HandleException
<1> QED
  BY <1>1, <1>2 DEF HandleException, TypeOK, envVars

LEMMA ThreadTypeOK ==
  ASSUME TypeOK, NEW t \in Tasks, NEW f \in Fences, Thread(t, f)
  PROVE  TypeOK'
<1>1. {"raised_other", "done"} \subseteq Phases
  BY DEF Phases, Active, Raised
<1>2. CASE Raise(t, f)
  BY <1>1, <1>2, GotoType DEF Raise, TypeOK, jobVars, taskVars, attemptVars, envVars
<1>3. CASE Dies(t, f)
  BY <1>1, <1>3, GotoType DEF Dies, TypeOK, jobVars, taskVars, attemptVars, envVars
<1> QED
  BY <1>2, <1>3, SnapshotTypeOK, AuthorizeTypeOK, WaitTypeOK, ProviderReturnsTypeOK, SettleTypeOK,
     CheckpointTypeOK, CommitTypeOK, RetryOrStopTypeOK, HandleExceptionTypeOK DEF Thread, ThreadStep

\* The requests of users keep the types.
LEMMA ApiTypeOK ==
  ASSUME TypeOK, Api
  PROVE  TypeOK'
<1> USE DEF envVars
<1>1. ASSUME NEW j \in Jobs, Pause(j) PROVE TypeOK'
  BY <1>1 DEF Pause, TypeOK, taskVars, attemptVars, JobStates
<1>2. ASSUME NEW j \in Jobs, Cancel(j) PROVE TypeOK'
  BY <1>2 DEF Cancel, TypeOK, taskVars, attemptVars, JobStates
<1>3. ASSUME NEW j \in Jobs, Resume(j) PROVE TypeOK'
  BY <1>3 DEF Resume, TypeOK, taskVars, attemptVars, JobStates
<1>4. ASSUME NEW t \in Tasks, NEW f \in Fences, ResolveStop(t, f) PROVE TypeOK'
  BY <1>4 DEF ResolveStop, TypeOK, SetJob, taskVars, attemptVars, JobStates
<1>5. ASSUME NEW t \in Tasks, NEW f \in Fences, ResolveRetry(t, f) PROVE TypeOK'
  <2>1. "pending" \in TaskStates /\ "pending" \in JobStates
    BY DEF TaskStates, JobStates
  <2>2. accepts' \in [Tasks -> Nat]
    BY <1>5 DEF ResolveRetry, TypeOK
  <2> QED
    BY <1>5, <2>1, <2>2, StatusType DEF ResolveRetry, TypeOK, attemptVars
<1>6. CASE ReplaceSource
  <2>1. /\ epoch' \in [Jobs -> Nat]
        /\ superseded' \in [Jobs -> BOOLEAN]
        /\ jobStatus' \in [Jobs -> JobStates]
    BY <1>6 DEF ReplaceSource, TypeOK, JobStates
  <2> QED
    BY <1>6, <2>1 DEF ReplaceSource, TypeOK, taskVars, attemptVars
<1>7. CASE DeleteDocument
  <2>1. /\ epoch' \in [Jobs -> Nat]
        /\ jobStatus' \in [Jobs -> JobStates]
    BY <1>7 DEF DeleteDocument, TypeOK, JobStates
  <2> QED
    BY <1>7, <2>1 DEF DeleteDocument, TypeOK, taskVars, attemptVars
<1>8. CASE Cleanup
  <2>1. /\ taskStatus' \in [Tasks -> TaskStates]
        /\ validated' \in [Tasks -> [Fences -> BOOLEAN]]
    BY <1>8 DEF Cleanup, TypeOK, TaskStates
  <2> QED
    BY <1>8, <2>1 DEF Cleanup, TypeOK, jobVars
<1> QED
  BY <1>1, <1>2, <1>3, <1>4, <1>5, <1>6, <1>7, <1>8 DEF Api

LEMMA MaintenanceTypeOK ==
  ASSUME TypeOK, MaintenanceOn \/ MaintenanceOff
  PROVE  TypeOK'
<1>1. CASE MaintenanceOn
  <2>1. /\ permit' \in [Tasks -> [Fences -> PermitStates]]
        /\ attState' \in [Tasks -> [Fences -> AttemptStates]]
    BY <1>1 DEF MaintenanceOn, TypeOK, PermitStates, AttemptStates
  <2>2. /\ taskStatus' \in [Tasks -> TaskStates]
        /\ jobStatus' \in [Jobs -> JobStates]
        /\ epoch' \in [Jobs -> Nat]
    BY <1>1 DEF MaintenanceOn, TypeOK, TaskStates, JobStates
  <2> QED
    BY <1>1, <2>1, <2>2 DEF MaintenanceOn, TypeOK
<1>2. CASE MaintenanceOff
  BY <1>2 DEF MaintenanceOff, TypeOK, jobVars, taskVars, attemptVars
<1> QED
  BY <1>1, <1>2

LEMMA NextTypeOK == TypeOK /\ [Next]_vars => TypeOK'
<1> SUFFICES ASSUME TypeOK, [Next]_vars PROVE TypeOK'
  OBVIOUS
<1>1. CASE UNCHANGED vars
  BY <1>1 DEF vars, TypeOK, jobVars, taskVars, attemptVars, envVars
<1>2. CASE Next
  BY <1>2, QueueTypeOK, ThreadTypeOK, ApiTypeOK, MaintenanceTypeOK DEF Next
<1> QED
  BY <1>1, <1>2

\* Every row keeps the states the code knows, in every reachable state: the
\* transactions of the queue, the threads, the API and maintenance included.
THEOREM TypeCorrect == Spec => []TypeOK
<1> QED
  BY InitTypeOK, NextTypeOK, PTL DEF Spec

-----------------------------------------------------------------------------
(* One live request per unit                                                *)

\* Where a thread has not asked for a permit, where its request may still be
\* executing, and where its permit is settled.
UnpaidPhases == {"none", "claimed", "prepared", "replay"} \cup Waiting
PaidPhases == {"sending", "failed_unknown"}
SettledPhases == {"settled_valid", "checkpointed", "failed_invalid", "failed_refused", "failed_unsupported"}

\* OneLiveRequest alone is not inductive: what a thread does next depends on
\* where it is, so its phase has to say what its permit can be.
SafeLease(t, f) ==
  /\ permit[t][f] = "reserved" => f = fence[t] /\ taskStatus[t] \in {"leased", "cancelled"}
  /\ f > fence[t] => phase[t][f] = "none" /\ permit[t][f] = "none"
  /\ phase[t][f] \in UnpaidPhases => permit[t][f] = "none"
  /\ phase[t][f] \in PaidPhases => permit[t][f] \in {"reserved", "unknown"}
  /\ phase[t][f] \in SettledPhases => permit[t][f] = "settled"
  /\ taskStatus[t] = "succeeded" /\ f = fence[t] => phase[t][f] = "done"

SafeLeases == \A t \in Tasks, f \in Fences : SafeLease(t, f)

IInv == TypeOK /\ SafeLeases

LEMMA GotoValue ==
  ASSUME TypeOK, NEW t \in Tasks, NEW f \in Fences, NEW p, Goto(t, f, p), NEW u \in Tasks, NEW g \in Fences
  PROVE  phase'[u][g] = IF u = t /\ g = f THEN p ELSE phase[u][g]
<1>1. phase \in [Tasks -> [Fences -> Phases]]
  BY DEF TypeOK
<1> QED
  BY <1>1 DEF Goto

LEMMA SetPermitValue ==
  ASSUME TypeOK, NEW t \in Tasks, NEW f, NEW p, SetPermit(t, f, p), NEW u \in Tasks, NEW g \in Fences
  PROVE  permit'[u][g] = IF u = t /\ g = f THEN p ELSE permit[u][g]
<1>1. permit \in [Tasks -> [Fences -> PermitStates]]
  BY DEF TypeOK
<1> QED
  BY <1>1 DEF SetPermit

LEMMA SetTaskValue ==
  ASSUME TypeOK, NEW t \in Tasks, NEW s, SetTask(t, s), NEW u \in Tasks
  PROVE  taskStatus'[u] = IF u = t THEN s ELSE taskStatus[u]
<1>1. taskStatus \in [Tasks -> TaskStates]
  BY DEF TypeOK
<1> QED
  BY <1>1 DEF SetTask

LEMMA InitSafe == Init => SafeLeases
  BY DEF Init, SafeLeases, SafeLease, Fences, UnpaidPhases, PaidPhases, SettledPhases, Waiting

LEMMA ClaimSafe ==
  ASSUME IInv, NEW t \in Tasks, Claim(t)
  PROVE  SafeLeases'
<1> SUFFICES ASSUME NEW u \in Tasks, NEW g \in Fences PROVE SafeLease(u, g)'
  BY DEF SafeLeases
<1>1. TypeOK /\ SafeLease(u, g)
  BY DEF IInv, SafeLeases
<1>2. fence[u] \in 0 .. MaxFence /\ fence[t] \in 0 .. MaxFence /\ fence[t] + 1 \in Fences /\ g \in 1 .. MaxFence
  <2>1. fence \in [Tasks -> 0 .. MaxFence] /\ fence[t] < MaxFence
    BY <1>1 DEF Claim, TypeOK
  <2> QED
    BY <2>1 DEF Fences
<1>3. fence'[u] = IF u = t THEN fence[t] + 1 ELSE fence[u]
  BY <1>1 DEF Claim, TypeOK
<1>4. /\ taskStatus'[u] = IF u = t THEN "leased" ELSE taskStatus[u]
      /\ phase'[u][g] = IF u = t /\ g = fence[t] + 1 THEN "claimed" ELSE phase[u][g]
      /\ permit'[u][g] = permit[u][g]
  BY <1>1, <1>2, SetTaskValue, GotoValue DEF Claim
<1>5. taskStatus[t] = "pending"
  BY DEF Claim, Claimable
<1> QED
  BY <1>1, <1>2, <1>3, <1>4, <1>5 DEF SafeLease, UnpaidPhases, PaidPhases, SettledPhases, Waiting

LEMMA RecoverSafe ==
  ASSUME IInv, NEW t \in Tasks, RecoverExpired(t)
  PROVE  SafeLeases'
<1> SUFFICES ASSUME NEW u \in Tasks, NEW g \in Fences PROVE SafeLease(u, g)'
  BY DEF SafeLeases
<1>1. TypeOK /\ SafeLease(u, g)
  BY DEF IInv, SafeLeases
<1>2. phase' = phase /\ fence' = fence /\ taskStatus[t] = "leased" /\ fence[t] \in 0 .. MaxFence
  BY <1>1 DEF RecoverExpired, TypeOK
<1>3. CASE RecoverUncertain(t, fence[t])
  <2>1. taskStatus'[u] = IF u = t THEN "outcome_unknown" ELSE taskStatus[u]
    BY <1>1, <1>3, SetTaskValue DEF RecoverUncertain
  <2>2. permit'[u][g] = IF u = t /\ g = fence[t] THEN "unknown" ELSE permit[u][g]
    BY <1>1, <1>3, SetPermitValue DEF RecoverUncertain
  <2>3. u = t /\ g = fence[t] => permit[u][g] \in {"reserved", "unknown"}
    BY <1>3 DEF RecoverUncertain, Uncertain
  <2> QED
    BY <1>1, <1>2, <2>1, <2>2, <2>3 DEF SafeLease
<1>4. ASSUME NEW s \in {"pending", "failed", "cancelled"},
             SetTask(t, s), permit' = permit, ~Uncertain(t, fence[t])
      PROVE  SafeLease(u, g)'
  <2>1. taskStatus'[u] = IF u = t THEN s ELSE taskStatus[u]
    BY <1>1, <1>4, SetTaskValue
  <2>2. permit[t][fence[t]] # "reserved"
    BY <1>4 DEF Uncertain
  <2> QED
    BY <1>1, <1>2, <1>4, <2>1, <2>2 DEF SafeLease
<1>5. CASE RecoverCancelled(t, fence[t])
  BY <1>4, <1>5 DEF RecoverCancelled
<1>6. CASE RecoverCheckpoint(t, fence[t])
  BY <1>4, <1>6 DEF RecoverCheckpoint
<1>7. CASE RecoverUnpaid(t, fence[t])
  BY <1>4, <1>7 DEF RecoverUnpaid
<1> QED
  BY <1>3, <1>5, <1>6, <1>7 DEF RecoverExpired

\* A thread that only moves keeps the invariant, if its new place fits its permit.
LEMMA MoveSafe ==
  ASSUME IInv, NEW t \in Tasks, NEW f \in Fences, NEW p, Goto(t, f, p),
         phase[t][f] \notin {"none", "done"},
         UNCHANGED <<taskStatus, fence, permit>>,
         p \in UnpaidPhases => permit[t][f] = "none",
         p \in PaidPhases => permit[t][f] \in {"reserved", "unknown"},
         p \in SettledPhases => permit[t][f] = "settled"
  PROVE  SafeLeases'
<1> SUFFICES ASSUME NEW u \in Tasks, NEW g \in Fences PROVE SafeLease(u, g)'
  BY DEF SafeLeases
<1>1. TypeOK /\ SafeLease(u, g)
  BY DEF IInv, SafeLeases
<1>2. phase'[u][g] = IF u = t /\ g = f THEN p ELSE phase[u][g]
  BY <1>1, GotoValue
<1> QED
  BY <1>1, <1>2 DEF SafeLease

LEMMA RejectionSafe ==
  ASSUME NEW t, NEW f
  PROVE  Rejection(t, f) \notin UnpaidPhases \cup PaidPhases \cup SettledPhases
  BY DEF Rejection, UnpaidPhases, PaidPhases, SettledPhases, Waiting

LEMMA SnapshotSafe ==
  ASSUME IInv, NEW t \in Tasks, NEW f \in Fences, Snapshot(t, f)
  PROVE  SafeLeases'
<1>1. phase[t][f] = "claimed" /\ permit[t][f] = "none"
  BY DEF Snapshot, IInv, SafeLeases, SafeLease, UnpaidPhases
<1>2. \E p : Goto(t, f, p) /\ p \notin PaidPhases \cup SettledPhases
  BY RejectionSafe DEF Snapshot, PaidPhases, SettledPhases
<1> QED
  BY <1>1, <1>2, MoveSafe DEF Snapshot, taskVars, attemptVars

LEMMA AuthorizeSafe ==
  ASSUME IInv, NEW t \in Tasks, NEW f \in Fences, Authorize(t, f)
  PROVE  SafeLeases'
<1>1. phase[t][f] = "prepared" /\ permit[t][f] = "none" /\ taskStatus' = taskStatus /\ fence' = fence
  BY DEF Authorize, IInv, SafeLeases, SafeLease, UnpaidPhases, taskVars
<1>2. CASE Current(t, f, {"running"}) /\ Reserve(t, f)
  <2> SUFFICES ASSUME NEW u \in Tasks, NEW g \in Fences PROVE SafeLease(u, g)'
    BY DEF SafeLeases
  <2>1. TypeOK /\ SafeLease(u, g) /\ SafeLease(t, f)
    BY DEF IInv, SafeLeases
  <2>2. /\ phase'[u][g] = IF u = t /\ g = f THEN "sending" ELSE phase[u][g]
        /\ permit'[u][g] = IF u = t /\ g = f THEN "reserved" ELSE permit[u][g]
    BY <1>2, <2>1, GotoValue, SetPermitValue DEF Reserve
  <2>3. f = fence[t] /\ taskStatus[t] = "leased"
    BY <1>2 DEF Current, Leased
  <2>4. fence[t] \in 0 .. MaxFence
    BY <2>1 DEF TypeOK
  <2> QED
    BY <1>1, <2>1, <2>2, <2>3, <2>4 DEF SafeLease, UnpaidPhases, PaidPhases, SettledPhases, Waiting
<1>3. CASE DoNotReserve(t, f)
  <2>1. \E p : Goto(t, f, p) /\ p \notin PaidPhases \cup SettledPhases
    BY <1>3 DEF DoNotReserve, PaidPhases, SettledPhases
  <2> QED
    BY <1>1, <1>3, <2>1, MoveSafe DEF DoNotReserve
<1>4. CASE Goto(t, f, Rejection(t, f)) /\ UNCHANGED <<permit, attState>>
  BY <1>1, <1>4, RejectionSafe, MoveSafe
<1> QED
  BY <1>2, <1>3, <1>4 DEF Authorize

LEMMA WaitSafe ==
  ASSUME IInv, NEW t \in Tasks, NEW f \in Fences, WaitWithoutDispatch(t, f)
  PROVE  SafeLeases'
<1>1. phase[t][f] \in Waiting /\ permit[t][f] = "none" /\ permit' = permit /\ fence' = fence
  BY DEF WaitWithoutDispatch, IInv, SafeLeases, SafeLease, UnpaidPhases
<1>2. CASE Current(t, f, {"running"})
  <2> SUFFICES ASSUME NEW u \in Tasks, NEW g \in Fences PROVE SafeLease(u, g)'
    BY DEF SafeLeases
  <2>1. TypeOK /\ SafeLease(u, g) /\ SafeLease(t, f)
    BY DEF IInv, SafeLeases
  <2>2. /\ phase'[u][g] = IF u = t /\ g = f THEN "done" ELSE phase[u][g]
        /\ taskStatus'[u] = IF u = t THEN "pending" ELSE taskStatus[u]
    BY <1>2, <2>1, GotoValue, SetTaskValue DEF WaitWithoutDispatch
  <2>3. f = fence[t] /\ taskStatus[t] = "leased"
    BY <1>2 DEF Current, Leased
  <2>4. fence[t] \in 0 .. MaxFence
    BY <2>1 DEF TypeOK
  <2> QED
    BY <1>1, <2>1, <2>2, <2>3, <2>4 DEF SafeLease, UnpaidPhases, PaidPhases, SettledPhases, Waiting
<1>3. CASE ~Current(t, f, {"running"})
  <2>1. Goto(t, f, Rejection(t, f)) /\ taskStatus' = taskStatus /\ phase[t][f] \notin {"none", "done"}
    BY <1>1, <1>3 DEF WaitWithoutDispatch, Waiting
  <2> QED
    BY <1>1, <2>1, RejectionSafe, MoveSafe
<1> QED
  BY <1>2, <1>3

LEMMA ProviderReturnsSafe ==
  ASSUME IInv, NEW t \in Tasks, NEW f \in Fences, ProviderReturns(t, f)
  PROVE  SafeLeases'
<1>1. \E p \in Outcomes : Goto(t, f, p)
  BY DEF ProviderReturns
<1>2. Outcomes \cap (UnpaidPhases \cup SettledPhases) = {}
  BY DEF AllOutcomes, UnpaidPhases, SettledPhases, Waiting
<1>3. phase[t][f] = "sending" /\ permit[t][f] \in {"reserved", "unknown"}
  BY DEF ProviderReturns, IInv, SafeLeases, SafeLease, PaidPhases
<1> QED
  BY <1>1, <1>2, <1>3, MoveSafe DEF ProviderReturns, taskVars, attemptVars

LEMMA SettleSafe ==
  ASSUME IInv, NEW t \in Tasks, NEW f \in Fences, Settle(t, f)
  PROVE  SafeLeases'
<1> SUFFICES ASSUME NEW u \in Tasks, NEW g \in Fences PROVE SafeLease(u, g)'
  BY DEF SafeLeases
<1>1. TypeOK /\ SafeLease(u, g) /\ SafeLease(t, f)
  BY DEF IInv, SafeLeases
<1>2. AfterSettlement(phase[t][f]) \in SettledPhases
  BY DEF Settle, Returned, AfterSettlement, SettledPhases
<1>3. /\ phase'[u][g] = IF u = t /\ g = f THEN AfterSettlement(phase[t][f]) ELSE phase[u][g]
      /\ permit'[u][g] = IF u = t /\ g = f THEN "settled" ELSE permit[u][g]
  BY <1>1, GotoValue, SetPermitValue DEF Settle
<1>4. phase[t][f] \in Returned /\ taskStatus' = taskStatus /\ fence' = fence
  BY DEF Settle, taskVars
<1> QED
  BY <1>1, <1>2, <1>3, <1>4 DEF SafeLease, Returned, UnpaidPhases, PaidPhases, SettledPhases, Waiting

LEMMA CheckpointSafe ==
  ASSUME IInv, NEW t \in Tasks, NEW f \in Fences, Checkpoint(t, f)
  PROVE  SafeLeases'
<1>1. phase[t][f] = "settled_valid" /\ permit[t][f] = "settled"
  BY DEF Checkpoint, IInv, SafeLeases, SafeLease, SettledPhases
<1>2. \E p \in {"checkpointed", "done"} : Goto(t, f, p)
  BY DEF Checkpoint
<1>3. {"checkpointed", "done"} \cap (UnpaidPhases \cup PaidPhases) = {}
  BY DEF UnpaidPhases, PaidPhases, Waiting
<1> QED
  BY <1>1, <1>2, <1>3, MoveSafe DEF Checkpoint, taskVars

\* The thread of the last lease ends its unit: it must not leave a request.
LEMMA EndSafe ==
  ASSUME IInv, NEW t \in Tasks, NEW f \in Fences, NEW s, NEW p,
         SetTask(t, s), Goto(t, f, "done"), SetPermit(t, f, p) \/ (UNCHANGED permit /\ p = permit[t][f]),
         phase[t][f] \notin {"none", "done"}, f = fence[t], fence' = fence,
         p # "reserved"
  PROVE  SafeLeases'
<1> SUFFICES ASSUME NEW u \in Tasks, NEW g \in Fences PROVE SafeLease(u, g)'
  BY DEF SafeLeases
<1>1. TypeOK /\ SafeLease(u, g) /\ SafeLease(t, f)
  BY DEF IInv, SafeLeases
<1>2. /\ phase'[u][g] = IF u = t /\ g = f THEN "done" ELSE phase[u][g]
      /\ taskStatus'[u] = IF u = t THEN s ELSE taskStatus[u]
  BY <1>1, GotoValue, SetTaskValue
<1>3. permit'[u][g] = IF u = t /\ g = f THEN p ELSE permit[u][g]
  BY <1>1, SetPermitValue
<1>4. fence[t] \in 0 .. MaxFence /\ g \in Nat
  BY <1>1 DEF TypeOK, Fences
<1> QED
  BY <1>1, <1>2, <1>3, <1>4 DEF SafeLease, UnpaidPhases, PaidPhases, SettledPhases, Waiting

LEMMA CommitSafe ==
  ASSUME IInv, NEW t \in Tasks, NEW f \in Fences, Commit(t, f)
  PROVE  SafeLeases'
<1>1. /\ phase[t][f] \in {"replay", "checkpointed"}
      /\ permit[t][f] # "reserved"
      /\ phase[t][f] = "replay" => permit[t][f] = "none"
  BY DEF Commit, IInv, SafeLeases, SafeLease, UnpaidPhases, PaidPhases, SettledPhases
<1>2. permit' = permit /\ fence' = fence
  BY DEF Commit
<1>3. CASE MayCommit(t, f)
  <2>1. SetTask(t, "succeeded") /\ Goto(t, f, "done") /\ f = fence[t]
    BY <1>3 DEF Commit, MayCommit, Current, Leased, SetTask
  <2> QED
    BY <1>1, <1>2, <2>1, EndSafe
<1>4. CASE ~MayCommit(t, f)
  <2>1. taskStatus' = taskStatus
    BY <1>4 DEF Commit
  <2>2. \E p : Goto(t, f, p) /\ p \notin UnpaidPhases \cup PaidPhases \cup SettledPhases
    <3>1. "done" \notin UnpaidPhases \cup PaidPhases \cup SettledPhases
      BY DEF UnpaidPhases, PaidPhases, SettledPhases, Waiting
    <3> QED
      BY <1>4, <3>1, RejectionSafe DEF Commit
  <2> QED
    BY <1>1, <1>2, <2>1, <2>2, MoveSafe
<1> QED
  BY <1>3, <1>4

\* A thread ends and leaves its unit alone: only its permit may move.
LEMMA BookSafe ==
  ASSUME IInv, NEW t \in Tasks, NEW f \in Fences, NEW p,
         Goto(t, f, "done"), SetPermit(t, f, p) \/ (UNCHANGED permit /\ p = permit[t][f]),
         phase[t][f] \notin {"none", "done"}, UNCHANGED <<taskStatus, fence>>,
         p # "reserved"
  PROVE  SafeLeases'
<1> SUFFICES ASSUME NEW u \in Tasks, NEW g \in Fences PROVE SafeLease(u, g)'
  BY DEF SafeLeases
<1>1. TypeOK /\ SafeLease(u, g) /\ SafeLease(t, f)
  BY DEF IInv, SafeLeases
<1>2. phase'[u][g] = IF u = t /\ g = f THEN "done" ELSE phase[u][g]
  BY <1>1, GotoValue
<1>3. permit'[u][g] = IF u = t /\ g = f THEN p ELSE permit[u][g]
  BY <1>1, SetPermitValue
<1> QED
  BY <1>1, <1>2, <1>3 DEF SafeLease, UnpaidPhases, PaidPhases, SettledPhases, Waiting

\* What the money classifier leaves: the permit moves only from reserved or
\* unknown, and to a state in which no request is in flight.
LEMMA ClassifyMoneyValue ==
  ASSUME IInv, NEW t \in Tasks, NEW f \in Fences,
         phase[t][f] \in Failed, ClassifyMoney(t, f)
  PROVE  \E p : /\ SetPermit(t, f, p) \/ (UNCHANGED permit /\ p = permit[t][f])
                /\ ~ReleaseRefused(t, f) => p # "reserved"
<1>1. phase[t][f] \in SettledPhases => permit[t][f] = "settled"
  BY DEF IInv, SafeLeases, SafeLease
<1> DEFINE Left(p) == /\ SetPermit(t, f, p) \/ (UNCHANGED permit /\ p = permit[t][f])
                      /\ ~ReleaseRefused(t, f) => p # "reserved"
<1>2. CASE phase[t][f] \in Unsent /\ permit[t][f] = "reserved"
  <2>1. SetPermit(t, f, "released")
    BY <1>2 DEF ClassifyMoney, Unsent
  <2>2. Left("released")
    BY <2>1
  <2> QED
    BY <2>2
<1>3. CASE phase[t][f] \in Unsent /\ permit[t][f] # "reserved"
  <2>1. UNCHANGED permit
    BY <1>3 DEF ClassifyMoney, Unsent
  <2>2. Left(permit[t][f])
    BY <1>3, <2>1
  <2> QED
    BY <2>2
<1>4. CASE phase[t][f] = "failed_unknown" /\ permit[t][f] # "settled"
  <2>1. SetPermit(t, f, "unknown")
    BY <1>4 DEF ClassifyMoney, Unsent
  <2>2. Left("unknown")
    BY <2>1
  <2> QED
    BY <2>2
<1>5. CASE permit[t][f] = "settled"
  <2>1. UNCHANGED permit
    BY <1>5 DEF ClassifyMoney
  <2>2. Left(permit[t][f])
    BY <1>5, <2>1
  <2> QED
    BY <2>2
<1> QED
  BY <1>1, <1>2, <1>3, <1>4, <1>5 DEF Failed, SettledPhases

LEMMA RetryOrStopSafe ==
  ASSUME IInv, NEW t \in Tasks, NEW f \in Fences, RetryOrStop(t, f)
  PROVE  SafeLeases'
<1>1. phase[t][f] \in Failed /\ phase[t][f] \notin {"none", "done"} /\ fence' = fence
  <2>1. {"none", "done"} \cap Failed = {}
    BY DEF Failed, Unsent
  <2> QED
    BY <2>1 DEF RetryOrStop
<1>2. CASE ReleaseRefused(t, f) /\ Goto(t, f, "raised_other") /\ UNCHANGED <<permit, taskStatus>>
  <2>1. "raised_other" \notin UnpaidPhases \cup PaidPhases \cup SettledPhases
    BY DEF UnpaidPhases, PaidPhases, SettledPhases, Waiting
  <2> QED
    BY <1>1, <1>2, <2>1, MoveSafe
<1>3. CASE ~ReleaseRefused(t, f) /\ ClassifyMoney(t, f)
  <2>1. PICK p : /\ SetPermit(t, f, p) \/ (UNCHANGED permit /\ p = permit[t][f])
                 /\ p # "reserved"
    BY <1>1, <1>3, ClassifyMoneyValue
  <2>2. Goto(t, f, "done")
    BY <1>3 DEF RetryOrStop
  <2>3. CASE MayReschedule(t, f)
    <3>1. \E s : SetTask(t, s)
      <4>1. Reschedule(t, f) \/ StopUnknown(t, f) \/ StopConfig(t, f) \/ StopUnit(t, f)
        BY <1>3, <2>3 DEF RetryOrStop
      <4> QED
        BY <4>1 DEF Reschedule, StopUnknown, StopConfig, StopUnit, SetTask
    <3> QED
      BY <1>1, <2>1, <2>2, <2>3, <3>1, EndSafe DEF MayReschedule
  <2>4. CASE ~MayReschedule(t, f)
    <3>1. taskStatus' = taskStatus
      BY <1>3, <2>4 DEF RetryOrStop
    <3> QED
      BY <1>1, <2>1, <2>2, <3>1, BookSafe
  <2> QED
    BY <2>3, <2>4
<1> QED
  BY <1>2, <1>3 DEF RetryOrStop

LEMMA HandleExceptionSafe ==
  ASSUME IInv, NEW t \in Tasks, NEW f \in Fences, HandleException(t, f)
  PROVE  SafeLeases'
<1>1. /\ phase[t][f] \notin {"none", "done"} /\ Goto(t, f, "done") /\ fence' = fence
  BY DEF HandleException, Raised
<1>2. CASE HandleStale(t, f)
  <2>1. "done" \notin UnpaidPhases \cup PaidPhases \cup SettledPhases
    BY DEF UnpaidPhases, PaidPhases, SettledPhases, Waiting
  <2> QED
    BY <1>1, <1>2, <2>1, MoveSafe DEF HandleStale
<1>3. CASE HandleUncertain(t, f)
  <2>1. /\ SetTask(t, "outcome_unknown") /\ SetPermit(t, f, "unknown")
        /\ f = fence[t] /\ "unknown" # "reserved"
    BY <1>3 DEF HandleUncertain, HandlerMayWrite, Leased
  <2> QED
    BY <1>1, <2>1, EndSafe
<1>4. CASE HandleYield(t, f)
  BY <1>1, <1>4, EndSafe DEF HandleYield, HandlerMayWrite, Leased, Uncertain
<1>5. CASE HandleFailure(t, f)
  BY <1>1, <1>5, EndSafe DEF HandleFailure, HandlerMayWrite, Leased, Uncertain
<1> QED
  BY <1>2, <1>3, <1>4, <1>5 DEF HandleException

LEMMA ThreadSafe ==
  ASSUME IInv, NEW t \in Tasks, NEW f \in Fences, Thread(t, f)
  PROVE  SafeLeases'
<1>1. {"raised_other", "done"} \cap (UnpaidPhases \cup PaidPhases \cup SettledPhases) = {} /\ {"none", "done"} \cap Active = {}
  BY DEF UnpaidPhases, PaidPhases, SettledPhases, Waiting, Active, Raised, Returned, Failed, Unsent
<1>2. CASE Raise(t, f)
  BY <1>1, <1>2, MoveSafe DEF Raise, taskVars, attemptVars
<1>3. CASE Dies(t, f)
  BY <1>1, <1>3, MoveSafe DEF Dies, taskVars, attemptVars
<1> QED
  BY <1>2, <1>3, SnapshotSafe, AuthorizeSafe, WaitSafe, ProviderReturnsSafe, SettleSafe,
     CheckpointSafe, CommitSafe, RetryOrStopSafe, HandleExceptionSafe DEF Thread, ThreadStep

\* A transaction that touches neither threads nor permits nor fences keeps the
\* invariant if it moves units only between states that ask nothing of them.
LEMMA StatusSafe ==
  ASSUME IInv, UNCHANGED <<fence, permit, phase>>,
         \A t \in Tasks :
           \/ taskStatus'[t] = taskStatus[t]
           \/ taskStatus'[t] = "cancelled"
           \/ taskStatus[t] \notin {"leased", "cancelled"} /\ taskStatus'[t] = "pending"
  PROVE  SafeLeases'
<1> SUFFICES ASSUME NEW u \in Tasks, NEW g \in Fences PROVE SafeLease(u, g)'
  BY DEF SafeLeases
<1>1. SafeLease(u, g)
  BY DEF IInv, SafeLeases
<1> QED
  BY <1>1 DEF SafeLease

LEMMA QueueSafe ==
  ASSUME IInv, NEW t \in Tasks, Queue(t)
  PROVE  SafeLeases'
<1>1. CASE LeaseExpires(t)
  BY <1>1, StatusSafe DEF LeaseExpires, attemptVars
<1> QED
  BY <1>1, ClaimSafe, RecoverSafe DEF Queue

LEMMA ApiSafe ==
  ASSUME IInv, Api
  PROVE  SafeLeases'
<1>1. CASE UNCHANGED <<taskVars, attemptVars, phase>>
  BY <1>1, StatusSafe DEF taskVars, attemptVars
<1>2. ASSUME NEW j \in Jobs, Pause(j) \/ Cancel(j) \/ Resume(j) PROVE SafeLeases'
  BY <1>1, <1>2 DEF Pause, Cancel, Resume
<1>3. ASSUME NEW t \in Tasks, NEW f \in Fences, ResolveStop(t, f) PROVE SafeLeases'
  BY <1>1, <1>3 DEF ResolveStop
<1>4. ASSUME NEW t \in Tasks, NEW f \in Fences, ResolveRetry(t, f) PROVE SafeLeases'
  <2>1. \A u \in Tasks : taskStatus'[u] = IF u = t THEN "pending" ELSE taskStatus[u]
    BY <1>4, SetTaskValue DEF ResolveRetry, IInv
  <2>2. taskStatus[t] = "outcome_unknown"
    BY <1>4 DEF ResolveRetry, MayAccept
  <2> QED
    BY <1>4, <2>1, <2>2, StatusSafe DEF ResolveRetry, attemptVars
<1>5. CASE ReplaceSource \/ DeleteDocument
  BY <1>1, <1>5 DEF ReplaceSource, DeleteDocument
<1>6. CASE Cleanup
  BY <1>6, StatusSafe DEF Cleanup
<1> QED
  BY <1>2, <1>3, <1>4, <1>5, <1>6 DEF Api

\* Maintenance turns every request in flight into an uncertain one.
LEMMA MaintenanceSafe ==
  ASSUME IInv, MaintenanceOn \/ MaintenanceOff
  PROVE  SafeLeases'
<1>1. CASE MaintenanceOn
  <2> SUFFICES ASSUME NEW u \in Tasks, NEW g \in Fences PROVE SafeLease(u, g)'
    BY DEF SafeLeases
  <2>1. SafeLease(u, g)
    BY DEF IInv, SafeLeases
  <2>2. permit'[u][g] = IF permit[u][g] = "reserved" THEN "unknown" ELSE permit[u][g]
    BY <1>1 DEF MaintenanceOn
  <2>3. taskStatus'[u] = IF Inflight(u) THEN "outcome_unknown" ELSE taskStatus[u]
    BY <1>1 DEF MaintenanceOn
  <2>4. phase' = phase /\ fence' = fence
    BY <1>1 DEF MaintenanceOn
  <2> QED
    BY <2>1, <2>2, <2>3, <2>4 DEF SafeLease
<1>2. CASE MaintenanceOff
  BY <1>2, StatusSafe DEF MaintenanceOff, taskVars, attemptVars
<1> QED
  BY <1>1, <1>2

LEMMA NextInv == IInv /\ [Next]_vars => IInv'
<1> SUFFICES ASSUME IInv, [Next]_vars PROVE IInv'
  OBVIOUS
<1>1. TypeOK'
  BY NextTypeOK DEF IInv
<1>2. CASE UNCHANGED vars
  <2>1. UNCHANGED <<taskStatus, fence, permit, phase>>
    BY <1>2 DEF vars, taskVars, attemptVars
  <2> QED
    BY <1>1, <2>1, StatusSafe DEF IInv
<1>3. CASE Next
  BY <1>1, <1>3, QueueSafe, ThreadSafe, ApiSafe, MaintenanceSafe DEF Next, IInv
<1> QED
  BY <1>2, <1>3

THEOREM Invariance == Spec => []IInv
<1>1. Init => IInv
  BY InitTypeOK, InitSafe DEF IInv
<1> QED
  BY <1>1, NextInv, PTL DEF Spec

\* However leases expire, threads die or arrive late, users interfere and
\* maintenance begins, a request that may be executing belongs to the last
\* lease of a unit that is still leased (or was cancelled with its document).
THEOREM OneLive == Spec => []OneLiveRequest
<1>1. IInv => OneLiveRequest
  BY DEF IInv, SafeLeases, SafeLease, OneLiveRequest
<1> QED
  BY <1>1, Invariance, PTL

-----------------------------------------------------------------------------
(* What no step undoes                                                      *)

SuccessKept == \A t \in Tasks : taskStatus[t] = "succeeded" => taskStatus'[t] = "succeeded"

\* A transaction that moves one unit, one that had not succeeded.
LEMMA MovesOther ==
  ASSUME IInv, NEW t \in Tasks, NEW s, SetTask(t, s), taskStatus[t] # "succeeded"
  PROVE  SuccessKept
  BY SetTaskValue DEF IInv, SuccessKept

LEMMA ThreadKeepsSuccess ==
  ASSUME IInv, NEW t \in Tasks, NEW f \in Fences, Thread(t, f)
  PROVE  SuccessKept
<1>1. CASE UNCHANGED taskStatus
  BY <1>1 DEF SuccessKept
<1>2. CASE Snapshot(t, f) \/ Authorize(t, f) \/ ProviderReturns(t, f) \/ Settle(t, f)
           \/ Checkpoint(t, f) \/ Raise(t, f) \/ Dies(t, f)
  BY <1>1, <1>2 DEF Snapshot, Authorize, ProviderReturns, Settle, Checkpoint, Raise, Dies, taskVars
<1>3. CASE WaitWithoutDispatch(t, f)
  BY <1>1, <1>3, MovesOther DEF WaitWithoutDispatch, Current, Leased
<1>4. CASE Commit(t, f)
  <2>1. CASE MayCommit(t, f)
    BY <1>4, <2>1, MovesOther DEF Commit, MayCommit, Current, Leased, SetTask
  <2> QED
    BY <1>1, <1>4, <2>1 DEF Commit
<1>5. CASE RetryOrStop(t, f)
  <2>1. CASE MayReschedule(t, f) /\ ~UNCHANGED taskStatus
    <3>1. Reschedule(t, f) \/ StopUnknown(t, f) \/ StopConfig(t, f) \/ StopUnit(t, f)
      BY <1>5, <2>1 DEF RetryOrStop
    <3>2. \E s : SetTask(t, s)
      BY <3>1 DEF Reschedule, StopUnknown, StopConfig, StopUnit, SetTask
    <3>3. f = fence[t] /\ phase[t][f] # "done"
      BY <1>5, <2>1 DEF MayReschedule, RetryOrStop, Failed, Unsent
    <3>4. taskStatus[t] # "succeeded"
      BY <3>3 DEF IInv, SafeLeases, SafeLease
    <3> QED
      BY <3>2, <3>4, MovesOther
  <2> QED
    BY <1>1, <1>5, <2>1 DEF RetryOrStop
<1>6. CASE HandleException(t, f)
  BY <1>1, <1>6, MovesOther
     DEF HandleException, HandleStale, HandleUncertain, HandleYield, HandleFailure, HandlerMayWrite, Leased
<1> QED
  BY <1>2, <1>3, <1>4, <1>5, <1>6 DEF Thread, ThreadStep

LEMMA OthersKeepSuccess ==
  ASSUME IInv, (\E t \in Tasks : Queue(t)) \/ Api \/ MaintenanceOn \/ MaintenanceOff
  PROVE  SuccessKept
<1>1. CASE UNCHANGED taskStatus
  BY <1>1 DEF SuccessKept
<1>2. ASSUME NEW t \in Tasks, Queue(t) PROVE SuccessKept
  <2>1. CASE Claim(t)
    BY <2>1, MovesOther DEF Claim, Claimable
  <2>2. CASE RecoverExpired(t)
    BY <2>2, MovesOther
       DEF RecoverExpired, RecoverUncertain, RecoverCancelled, RecoverCheckpoint, RecoverUnpaid
  <2> QED
    BY <1>1, <1>2, <2>1, <2>2 DEF Queue, LeaseExpires
<1>3. CASE Api
  <2>1. ASSUME NEW t \in Tasks, NEW f \in Fences, ResolveRetry(t, f) PROVE SuccessKept
    BY <2>1, MovesOther DEF ResolveRetry, MayAccept
  <2>2. CASE Cleanup
    BY <2>2 DEF Cleanup, SuccessKept
  <2> QED
    BY <1>1, <1>3, <2>1, <2>2
       DEF Api, Pause, Cancel, Resume, ResolveStop, ReplaceSource, DeleteDocument, taskVars
<1>4. CASE MaintenanceOn
  <2>1. \A t \in Tasks : Inflight(t) => taskStatus[t] # "succeeded"
    BY DEF IInv, SafeLeases, SafeLease, Inflight
  <2> QED
    BY <1>4, <2>1 DEF MaintenanceOn, SuccessKept
<1>5. CASE MaintenanceOff
  BY <1>1, <1>5 DEF MaintenanceOff, taskVars
<1> QED
  BY <1>2, <1>3, <1>4, <1>5

\* A committed unit stays committed: no stale thread, recovery, request of a
\* user or maintenance ever undoes it.
THEOREM SuccessFinal == Spec => SuccessIsFinal
<1>1. IInv /\ [Next]_vars => [SuccessKept]_vars
  BY ThreadKeepsSuccess, OthersKeepSuccess DEF Next
<1>2. [SuccessKept]_vars <=>
        [\A t \in Tasks : taskStatus[t] = "succeeded" => taskStatus'[t] = "succeeded"]_vars
  BY DEF SuccessKept
<1> QED
  BY <1>1, <1>2, Invariance, PTL DEF Spec, SuccessIsFinal

LedgerForward ==
  \A t \in Tasks, f \in Fences :
    permit'[t][f] # permit[t][f] => <<permit[t][f], permit'[t][f]>> \in PermitMoves

\* A transaction that moves one permit, along PermitMoves.
LEMMA MovesPermit ==
  ASSUME IInv, NEW t \in Tasks, NEW f, NEW p, SetPermit(t, f, p),
         p = permit[t][f] \/ <<permit[t][f], p>> \in PermitMoves
  PROVE  LedgerForward
<1> SUFFICES ASSUME NEW u \in Tasks, NEW g \in Fences, permit'[u][g] # permit[u][g]
             PROVE  <<permit[u][g], permit'[u][g]>> \in PermitMoves
  BY DEF LedgerForward
<1>1. permit'[u][g] = IF u = t /\ g = f THEN p ELSE permit[u][g]
  BY SetPermitValue DEF IInv
<1> QED
  BY <1>1

LEMMA SettlesUncertain ==
  ASSUME IInv, NEW t \in Tasks, NEW f, Uncertain(t, f),
         SetPermit(t, f, "unknown") \/ SetPermit(t, f, "settled")
  PROVE  LedgerForward
<1>1. /\ <<permit[t][f], "settled">> \in PermitMoves
      /\ "unknown" = permit[t][f] \/ <<permit[t][f], "unknown">> \in PermitMoves
  BY DEF Uncertain, PermitMoves
<1> QED
  BY <1>1, MovesPermit

LEMMA ThreadMovesLedger ==
  ASSUME IInv, NEW t \in Tasks, NEW f \in Fences, Thread(t, f)
  PROVE  LedgerForward
<1>1. CASE UNCHANGED permit
  BY <1>1 DEF LedgerForward
<1>2. CASE Snapshot(t, f) \/ WaitWithoutDispatch(t, f) \/ ProviderReturns(t, f)
           \/ Checkpoint(t, f) \/ Commit(t, f) \/ Raise(t, f) \/ Dies(t, f)
  BY <1>1, <1>2 DEF Snapshot, WaitWithoutDispatch, ProviderReturns, Checkpoint, Commit, Raise, Dies, attemptVars
<1>3. CASE Authorize(t, f)
  <2>1. CASE Reserve(t, f)
    BY <2>1, MovesPermit DEF Reserve, PermitMoves
  <2> QED
    BY <1>1, <1>3, <2>1 DEF Authorize, DoNotReserve
<1>4. CASE Settle(t, f)
  BY <1>4, SettlesUncertain DEF Settle
<1>5. CASE RetryOrStop(t, f)
  <2>1. CASE ~ReleaseRefused(t, f) /\ ClassifyMoney(t, f) /\ ~UNCHANGED permit
    <3>1. CASE phase[t][f] \in Unsent /\ permit[t][f] = "reserved" /\ SetPermit(t, f, "released")
      BY <3>1, MovesPermit DEF PermitMoves
    <3>2. CASE phase[t][f] = "failed_unknown" /\ SetPermit(t, f, "unknown")
      <4>1. Uncertain(t, f)
        BY <3>2 DEF IInv, SafeLeases, SafeLease, PaidPhases, Uncertain
      <4> QED
        BY <3>2, <4>1, SettlesUncertain
    <3> QED
      BY <2>1, <3>1, <3>2 DEF ClassifyMoney
  <2> QED
    BY <1>1, <1>5, <2>1 DEF RetryOrStop
<1>6. CASE HandleException(t, f)
  <2>1. CASE HandleUncertain(t, f)
    BY <2>1, SettlesUncertain DEF HandleUncertain
  <2> QED
    BY <1>1, <1>6, <2>1 DEF HandleException, HandleStale, HandleYield, HandleFailure
<1> QED
  BY <1>2, <1>3, <1>4, <1>5, <1>6 DEF Thread, ThreadStep

LEMMA OthersMoveLedger ==
  ASSUME IInv, (\E t \in Tasks : Queue(t)) \/ Api \/ MaintenanceOn \/ MaintenanceOff
  PROVE  LedgerForward
<1>1. CASE UNCHANGED permit
  BY <1>1 DEF LedgerForward
<1>2. ASSUME NEW t \in Tasks, Queue(t) PROVE LedgerForward
  <2>1. CASE RecoverExpired(t) /\ RecoverUncertain(t, fence[t])
    BY <2>1, SettlesUncertain DEF RecoverUncertain
  <2> QED
    BY <1>1, <1>2, <2>1
       DEF Queue, Claim, LeaseExpires, RecoverExpired, RecoverCancelled, RecoverCheckpoint, RecoverUnpaid, attemptVars
<1>3. CASE Api
  BY <1>1, <1>3
     DEF Api, Pause, Cancel, Resume, ResolveStop, ResolveRetry, ReplaceSource, DeleteDocument, Cleanup, attemptVars
<1>4. CASE MaintenanceOn
  BY <1>4 DEF MaintenanceOn, LedgerForward, PermitMoves
<1>5. CASE MaintenanceOff
  BY <1>1, <1>5 DEF MaintenanceOff, attemptVars
<1> QED
  BY <1>2, <1>3, <1>4, <1>5

\* The ledger only moves forward: released and settled charges stay so, and
\* an uncertain charge is only ever settled by evidence.
THEOREM LedgerForwardOnly == Spec => LedgerMovesForward
<1>1. IInv /\ [Next]_vars => [LedgerForward]_vars
  BY ThreadMovesLedger, OthersMoveLedger DEF Next
<1>2. [LedgerForward]_vars <=>
        [\A t \in Tasks, f \in Fences :
           permit'[t][f] # permit[t][f] => <<permit[t][f], permit'[t][f]>> \in PermitMoves]_vars
  BY DEF LedgerForward
<1> QED
  BY <1>1, <1>2, Invariance, PTL DEF Spec, LedgerMovesForward

-----------------------------------------------------------------------------
(* What stale threads and deleted documents can still do                    *)

FencedWrites ==
  \A t \in Tasks, f \in Fences :
    /\ phase'[t][f] # phase[t][f]
    /\ f < fence[t] \/ (f = fence[t] /\ ~SameEpoch(t, f))
    => UNCHANGED <<taskStatus, jobStatus>>

\* A thread that writes a task or a job holds the last lease, of this epoch.
LEMMA WritersAreCurrent ==
  ASSUME NEW t \in Tasks, NEW f \in Fences, Thread(t, f)
  PROVE  UNCHANGED <<taskStatus, jobStatus>> \/ (f = fence[t] /\ SameEpoch(t, f))
<1>1. CASE Snapshot(t, f) \/ Authorize(t, f) \/ ProviderReturns(t, f) \/ Settle(t, f)
           \/ Checkpoint(t, f) \/ Raise(t, f) \/ Dies(t, f)
  BY <1>1 DEF Snapshot, Authorize, ProviderReturns, Settle, Checkpoint, Raise, Dies, taskVars, jobVars
<1>2. CASE WaitWithoutDispatch(t, f) \/ Commit(t, f)
  BY <1>2 DEF WaitWithoutDispatch, Commit, MayCommit, Current, Leased
<1>3. CASE RetryOrStop(t, f)
  BY <1>3 DEF RetryOrStop, MayReschedule
<1>4. CASE HandleException(t, f)
  BY <1>4 DEF HandleException, HandleStale, HandleUncertain, HandleYield, HandleFailure, HandlerMayWrite, Leased
<1> QED
  BY <1>1, <1>2, <1>3, <1>4 DEF Thread, ThreadStep

\* A step of a thread moves that thread alone.
LEMMA ThreadMovesItself ==
  ASSUME TypeOK, NEW t \in Tasks, NEW f \in Fences, Thread(t, f),
         NEW u \in Tasks, NEW g \in Fences, phase'[u][g] # phase[u][g]
  PROVE  u = t /\ g = f
<1>1. \E p : Goto(t, f, p)
  BY DEF Thread, ThreadStep, Snapshot, Authorize, Reserve, DoNotReserve, WaitWithoutDispatch,
         ProviderReturns, Settle, Checkpoint, Commit, RetryOrStop, HandleException, Raise, Dies
<1> QED
  BY <1>1, GotoValue

LEMMA OthersMoveNoThread ==
  ASSUME TypeOK, (\E t \in Tasks : Queue(t)) \/ Api \/ MaintenanceOn \/ MaintenanceOff
  PROVE  FencedWrites
<1>1. CASE UNCHANGED phase
  BY <1>1 DEF FencedWrites
<1>2. ASSUME NEW t \in Tasks, Queue(t) PROVE FencedWrites
  <2>1. CASE Claim(t)
    <3> SUFFICES ASSUME NEW u \in Tasks, NEW g \in Fences, phase'[u][g] # phase[u][g]
                 PROVE  ~(g < fence[u]) /\ g # fence[u]
      BY DEF FencedWrites
    <3>1. fence[t] \in Nat /\ fence[t] + 1 \in Fences
      BY <2>1 DEF Claim, TypeOK, Fences
    <3>2. u = t /\ g = fence[t] + 1
      BY <2>1, <3>1, GotoValue DEF Claim
    <3> QED
      BY <3>1, <3>2
  <2> QED
    BY <1>1, <1>2, <2>1 DEF Queue, LeaseExpires, RecoverExpired
<1>3. CASE Api
  BY <1>1, <1>3
     DEF Api, Pause, Cancel, Resume, ResolveStop, ResolveRetry, ReplaceSource, DeleteDocument, Cleanup
<1>4. CASE MaintenanceOn \/ MaintenanceOff
  BY <1>1, <1>4 DEF MaintenanceOn, MaintenanceOff
<1> QED
  BY <1>2, <1>3, <1>4

\* A thread whose lease was given away, or whose job was controlled since its
\* claim, moves money only: it writes no task and no job.
THEOREM FencedOnlyMoney == Spec => FencedThreadsWriteOnlyMoney
<1>1. TypeOK /\ [Next]_vars => [FencedWrites]_vars
  <2>1. ASSUME TypeOK, NEW t \in Tasks, NEW f \in Fences, Thread(t, f) PROVE FencedWrites
    <3> SUFFICES ASSUME NEW u \in Tasks, NEW g \in Fences, phase'[u][g] # phase[u][g],
                        g < fence[u] \/ (g = fence[u] /\ ~SameEpoch(u, g))
                 PROVE  UNCHANGED <<taskStatus, jobStatus>>
      BY DEF FencedWrites
    <3>1. u = t /\ g = f
      BY <2>1, ThreadMovesItself
    <3>2. fence[t] \in Nat
      BY <2>1 DEF TypeOK
    <3> QED
      BY <2>1, <3>1, <3>2, WritersAreCurrent
  <2> QED
    BY <2>1, OthersMoveNoThread DEF Next
<1>2. [FencedWrites]_vars <=>
        [\A t \in Tasks, f \in Fences :
           /\ phase'[t][f] # phase[t][f]
           /\ f < fence[t] \/ (f = fence[t] /\ ~SameEpoch(t, f))
           => UNCHANGED <<taskStatus, jobStatus>>]_vars
  BY DEF FencedWrites
<1> QED
  BY <1>1, <1>2, TypeCorrect, PTL DEF Spec, FencedThreadsWriteOnlyMoney

\* Neither a unit committed nor a response kept as evidence.
NoContentAdded ==
  \A t \in Tasks :
    /\ taskStatus'[t] = "succeeded" => taskStatus[t] = "succeeded"
    /\ \A f \in Fences : validated'[t][f] => validated[t][f]

\* A transaction that gives one unit another status than success.
LEMMA MovesElsewhere ==
  ASSUME TypeOK, NEW t \in Tasks, NEW s, s # "succeeded", SetTask(t, s), UNCHANGED validated
  PROVE  NoContentAdded
  BY SetTaskValue DEF NoContentAdded

LEMMA ThreadAddsNothing ==
  ASSUME TypeOK, deleted, NEW t \in Tasks, NEW f \in Fences, Thread(t, f)
  PROVE  NoContentAdded
<1>1. CASE UNCHANGED <<taskStatus, validated>>
  BY <1>1 DEF NoContentAdded
<1>2. CASE Snapshot(t, f) \/ Authorize(t, f) \/ ProviderReturns(t, f) \/ Settle(t, f)
           \/ Raise(t, f) \/ Dies(t, f)
  BY <1>1, <1>2 DEF Snapshot, Authorize, ProviderReturns, Settle, Raise, Dies, taskVars, attemptVars
<1>3. CASE Checkpoint(t, f)
  BY <1>1, <1>3 DEF Checkpoint, MayCheckpoint, taskVars
<1>4. CASE WaitWithoutDispatch(t, f) \/ Commit(t, f) \/ RetryOrStop(t, f)
  BY <1>1, <1>4 DEF WaitWithoutDispatch, Commit, MayCommit, Current, RetryOrStop, MayReschedule
<1>5. CASE HandleException(t, f)
  BY <1>1, <1>5, MovesElsewhere
     DEF HandleException, HandleStale, HandleUncertain, HandleYield, HandleFailure
<1> QED
  BY <1>2, <1>3, <1>4, <1>5 DEF Thread, ThreadStep

LEMMA OthersAddNothing ==
  ASSUME TypeOK, deleted, (\E t \in Tasks : Queue(t)) \/ Api \/ MaintenanceOn \/ MaintenanceOff
  PROVE  NoContentAdded
<1>1. CASE UNCHANGED <<taskStatus, validated>>
  BY <1>1 DEF NoContentAdded
<1>2. ASSUME NEW t \in Tasks, Queue(t) PROVE NoContentAdded
  <2>1. CASE RecoverExpired(t)
    BY <2>1, MovesElsewhere
       DEF RecoverExpired, RecoverUncertain, RecoverCancelled, RecoverCheckpoint, RecoverUnpaid
  <2> QED
    BY <1>1, <1>2, <2>1 DEF Queue, Claim, LeaseExpires, attemptVars
<1>3. CASE Api
  <2>1. CASE Cleanup
    BY <2>1 DEF Cleanup, NoContentAdded
  <2> QED
    BY <1>1, <1>3, <2>1
       DEF Api, Open, Pause, Cancel, Resume, ResolveStop, ResolveRetry, ReplaceSource, DeleteDocument,
           taskVars, attemptVars
<1>4. CASE MaintenanceOn
  BY <1>4 DEF MaintenanceOn, NoContentAdded
<1>5. CASE MaintenanceOff
  BY <1>1, <1>5 DEF MaintenanceOff, taskVars, attemptVars
<1> QED
  BY <1>2, <1>3, <1>4, <1>5

\* Once the document is deleted no late response adds content to it: none is
\* committed and none is kept as evidence.
THEOREM DeletedErased == Spec => DeletedStaysErased
<1>1. TypeOK /\ [Next]_vars => [deleted => NoContentAdded]_vars
  BY ThreadAddsNothing, OthersAddNothing DEF Next
<1>2. [deleted => NoContentAdded]_vars <=>
        [deleted => \A t \in Tasks :
           /\ taskStatus'[t] = "succeeded" => taskStatus[t] = "succeeded"
           /\ \A f \in Fences : validated'[t][f] => validated[t][f]]_vars
  BY DEF NoContentAdded
<1> QED
  BY <1>1, <1>2, TypeCorrect, PTL DEF Spec, DeletedStaysErased
================================================================================
