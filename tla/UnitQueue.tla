------------------------------- MODULE UnitQueue -------------------------------
(***************************************************************************)
(* The paid translation units of one document: the job/task queue, the     *)
(* worker threads that execute a leased unit, the permit that stands for   *)
(* one paid provider request, and the API and maintenance operations that  *)
(* interfere with them.                                                    *)
(*                                                                         *)
(* Every database transaction of the code is one action; what happens      *)
(* between two transactions of a thread is interleaved with everything     *)
(* else.  The thread that executes the lease with fence f of unit t is     *)
(* named by the pair (t, f); phase[t][f] is where it is between its        *)
(* transactions.  A stale thread (f < fence[t]) keeps running in the code  *)
(* and keeps running here.                                                 *)
(*                                                                         *)
(* Abstracted: the text of units and results, the planner task that        *)
(* created the units (it has succeeded in Init), amounts of money (module  *)
(* Ledger), admission limits (the claim picks any ready unit), delays      *)
(* (available_at, lease lengths): a lease may run out at any moment; and   *)
(* jobs that an older release left in waiting_config (frozen_config_wait). *)
(***************************************************************************)
EXTENDS Naturals, FiniteSets

CONSTANTS
  Jobs,          \* translation jobs of the document
  Tasks,         \* translation units
  JobOf,         \* the job of each unit
  AttemptLimit,  \* task.attempts at which retries stop (3 in the code)
  PermitLimit,   \* min(WORKER_LIMIT, master * subjob concurrency)
  MaxFence,      \* bound: leases per unit
  MaxEpoch,      \* bound: control operations per job
  MaxAccepts,    \* bound: accepted risks per unit
  Events,        \* the disturbances of this instance, out of AllEvents
  Outcomes       \* how provider calls end in this instance, out of AllOutcomes

AllEvents == {"pause", "cancel", "stop", "accept", "replace", "delete",
              "maintenance", "crash", "raise"}
AllOutcomes == {"returned_valid", "returned_invalid", "returned_refused", "returned_unsupported",
                "failed_unsent", "failed_config", "failed_toolarge", "failed_unknown"}

ASSUME ConstantsAssumption ==
  /\ JobOf \in [Tasks -> Jobs]
  /\ AttemptLimit \in Nat \ {0}
  /\ PermitLimit \in Nat \ {0}
  /\ MaxFence \in Nat \ {0}
  /\ MaxEpoch \in Nat
  /\ MaxAccepts \in Nat
  /\ Events \subseteq AllEvents
  /\ Outcomes \subseteq AllOutcomes

Fences == 1 .. MaxFence
Units(j) == {t \in Tasks : JobOf[t] = j}

VARIABLES
  jobStatus, epoch, superseded,                            \* Job rows
  taskStatus, fence, tries, repairs, leaseLive, accepts,   \* Task rows
  leaseEpoch, leaseRepair, attState, permit, validated,    \* Attempt, Permit rows
  phase,                                                   \* worker threads
  deleted, maintenance                                     \* Document, Settings

jobVars     == <<jobStatus, epoch, superseded>>
taskVars    == <<taskStatus, fence, tries, repairs, leaseLive, accepts>>
attemptVars == <<leaseEpoch, leaseRepair, attState, permit, validated>>
envVars     == <<deleted, maintenance>>
vars        == <<jobVars, taskVars, attemptVars, phase, envVars>>

\* "completed" stands for succeeded, completed_with_warnings and
\* partially_completed, which differ only in the content of the result.
JobStates == {"pending", "running", "paused", "waiting_budget", "waiting_config",
              "outcome_unknown", "needs_review", "cancelled", "failed", "completed"}
TerminalStates == {"cancelled", "failed", "completed"}
TaskStates == {"pending", "leased", "succeeded", "failed", "outcome_unknown", "cancelled"}
\* "closed" stands for succeeded, failed, known_failed and not_executed, which
\* no transaction tells apart.
AttemptStates == {"none", "created", "dispatching", "closed", "outcome_unknown", "settled"}
PermitStates == {"none", "reserved", "released", "unknown", "settled"}

\* Where the thread of a lease is between two of its transactions.
Raised   == {"raised_control", "raised_other"}
Waiting  == {"wait_config", "wait_budget", "wait_capacity"}
Returned == {"returned_valid", "returned_invalid", "returned_refused", "returned_unsupported"}
Unsent   == {"failed_unsent", "failed_config", "failed_toolarge"}
Failed   == Unsent \cup {"failed_unknown", "failed_invalid", "failed_refused", "failed_unsupported"}
Active   == {"claimed", "prepared", "replay", "sending", "settled_valid", "checkpointed"}
              \cup Raised \cup Waiting \cup Returned \cup Failed
Phases   == Active \cup {"none", "done"}

Init ==
  /\ jobStatus = [j \in Jobs |-> "running"]
  /\ epoch = [j \in Jobs |-> 0]
  /\ superseded = [j \in Jobs |-> FALSE]
  /\ taskStatus = [t \in Tasks |-> "pending"]
  /\ fence = [t \in Tasks |-> 0]
  /\ tries = [t \in Tasks |-> 0]
  /\ repairs = [t \in Tasks |-> 0]
  /\ leaseLive = [t \in Tasks |-> FALSE]
  /\ accepts = [t \in Tasks |-> 0]
  /\ leaseEpoch = [t \in Tasks |-> [f \in Fences |-> 0]]
  /\ leaseRepair = [t \in Tasks |-> [f \in Fences |-> 0]]
  /\ attState = [t \in Tasks |-> [f \in Fences |-> "none"]]
  /\ permit = [t \in Tasks |-> [f \in Fences |-> "none"]]
  /\ validated = [t \in Tasks |-> [f \in Fences |-> FALSE]]
  /\ phase = [t \in Tasks |-> [f \in Fences |-> "none"]]
  /\ deleted = FALSE
  /\ maintenance = FALSE

-----------------------------------------------------------------------------
(* What the transactions read                                               *)

Leased(t, f) == f = fence[t] /\ taskStatus[t] = "leased"
SameEpoch(t, f) == leaseEpoch[t][f] = epoch[JobOf[t]]

\* assert_current: the fence, the lease, the control epoch, the job's status
\* and the document, under the lifecycle lock.
Current(t, f, allowed) ==
  /\ ~maintenance /\ ~deleted
  /\ Leased(t, f) /\ leaseLive[t]
  /\ SameEpoch(t, f) /\ jobStatus[JobOf[t]] \in allowed

\* The error assert_current raises when Current is false: CONTROL_CHANGED is
\* tested after FENCE_EXPIRED and MAINTENANCE.
Rejection(t, f) ==
  IF ~maintenance /\ Leased(t, f) /\ leaseLive[t] THEN "raised_control" ELSE "raised_other"

SettledUnit(t, f) == attState[t][f] = "settled" /\ validated[t][f]

\* A validated response of an earlier attempt at the unit, for the given text
\* of the unit: a repair changes the text, hence the unit_hash.
HasCheckpoint(t, repair) == \E g \in Fences : SettledUnit(t, g) /\ leaseRepair[t][g] = repair

ReservedPermits == {a \in Tasks \X Fences : permit[a[1]][a[2]] = "reserved"}
UnknownPermit(j) == \E t \in Units(j), f \in Fences : permit[t][f] = "unknown"
OpenPermits(t) == {f \in Fences : permit[t][f] \in {"reserved", "unknown"}}

\* Mutant: units of unknown outcome do not hold the job back.
FinalizedEarly(j, ts, otherwise) ==
  IF \E u \in Units(j) : ts[u] \in {"pending", "leased"} THEN otherwise ELSE "completed"

\* finalize_translation: the status of job j once its units are in states ts.
Finalized(j, ts, otherwise) ==
  IF \E u \in Units(j) : ts[u] \in {"pending", "leased", "outcome_unknown"} THEN otherwise
  ELSE IF UnknownPermit(j) THEN "outcome_unknown" ELSE "completed"

\* finish: a job none of whose units is pending or leased needs review.
Finished(j, ts) ==
  IF \E u \in Units(j) : ts[u] \in {"pending", "leased"} THEN jobStatus[j] ELSE "needs_review"

Goto(t, f, p) == phase' = [phase EXCEPT ![t][f] = p]
SetJob(t, s) == jobStatus' = [jobStatus EXCEPT ![JobOf[t]] = s]
SetTask(t, s) == taskStatus' = [taskStatus EXCEPT ![t] = s]
SetAttempt(t, f, s) == attState' = [attState EXCEPT ![t][f] = s]
SetPermit(t, f, s) == permit' = [permit EXCEPT ![t][f] = s]
CloseCreated(t, f) ==
  attState' = [attState EXCEPT ![t][f] = IF @ = "created" THEN "closed" ELSE @]
Untry(t) == tries' = [tries EXCEPT ![t] = IF @ = 0 THEN 0 ELSE @ - 1]

-----------------------------------------------------------------------------
(* The queue: claim, lease expiry, recovery                                 *)

Claimable(t) == taskStatus[t] = "pending" /\ jobStatus[JobOf[t]] \in {"pending", "running"}

\* claim: a new fence, a new attempt, the job runs.
Claim(t) ==
  LET f == fence[t] + 1 IN
  /\ ~maintenance /\ ~deleted
  /\ Claimable(t)
  /\ fence[t] < MaxFence
  /\ SetTask(t, "leased")
  /\ SetJob(t, "running")
  /\ fence' = [fence EXCEPT ![t] = f]
  /\ tries' = [tries EXCEPT ![t] = @ + 1]
  /\ leaseLive' = [leaseLive EXCEPT ![t] = TRUE]
  /\ leaseEpoch' = [leaseEpoch EXCEPT ![t][f] = epoch[JobOf[t]]]
  /\ leaseRepair' = [leaseRepair EXCEPT ![t][f] = repairs[t]]
  /\ SetAttempt(t, f, "created")
  /\ Goto(t, f, "claimed")
  /\ UNCHANGED <<epoch, superseded, repairs, accepts, permit, validated, envVars>>

\* The lease was not renewed in time: renew refused (the epoch moved, or
\* maintenance), the heartbeat thread failed, or the process stalled or died.
LeaseExpires(t) ==
  /\ taskStatus[t] = "leased" /\ leaseLive[t]
  /\ leaseLive' = [leaseLive EXCEPT ![t] = FALSE]
  /\ UNCHANGED <<jobVars, taskStatus, fence, tries, repairs, accepts, attemptVars, phase, envVars>>

\* Mutants: only a permit already marked unknown is uncertain; every permit is.
UncertainOnlyUnknown(t, f) == permit[t][f] = "unknown"
UncertainWheneverPaid(t, f) == permit[t][f] # "none"

Uncertain(t, f) == permit[t][f] \in {"reserved", "unknown"}

\* recover_expired for one expired unit.  The code visits every expired unit
\* in one transaction; as a lease may expire at any moment, one at a time
\* reaches the same states.
RecoverUncertain(t, f) ==
  /\ Uncertain(t, f)
  /\ SetPermit(t, f, "unknown")
  /\ SetAttempt(t, f, "outcome_unknown")
  /\ SetTask(t, "outcome_unknown")
  /\ SetJob(t, "outcome_unknown")

\* Mutant: the recovery overlooks cancelled jobs.
RecoverCancelledNever(t, f) == FALSE

RecoverCancelled(t, f) ==
  /\ ~Uncertain(t, f)
  /\ jobStatus[JobOf[t]] = "cancelled"
  /\ SetTask(t, "cancelled")
  /\ CloseCreated(t, f)
  /\ UNCHANGED <<jobStatus, permit>>

RecoverCheckpoint(t, f) ==
  /\ ~Uncertain(t, f) /\ jobStatus[JobOf[t]] # "cancelled"
  /\ HasCheckpoint(t, repairs[t])
  /\ SetTask(t, "pending")
  /\ jobStatus' = [jobStatus EXCEPT ![JobOf[t]] = IF @ = "running" THEN "pending" ELSE @]
  /\ CloseCreated(t, f)
  /\ UNCHANGED permit

\* The status a job keeps when one of its units goes back to the queue.
Requeued(s) == IF s = "paused" THEN s ELSE "pending"

RecoverUnpaid(t, f) ==
  /\ ~Uncertain(t, f) /\ jobStatus[JobOf[t]] # "cancelled"
  /\ ~HasCheckpoint(t, repairs[t])
  /\ IF tries[t] >= AttemptLimit
       THEN SetTask(t, "failed") /\ SetJob(t, "failed")
       ELSE /\ SetTask(t, "pending")
            /\ jobStatus' = [jobStatus EXCEPT ![JobOf[t]] = Requeued(@)]
  /\ CloseCreated(t, f)
  /\ UNCHANGED permit

RecoverExpired(t) ==
  /\ ~maintenance
  /\ taskStatus[t] = "leased" /\ ~leaseLive[t]
  /\ \/ RecoverUncertain(t, fence[t])
     \/ RecoverCancelled(t, fence[t])
     \/ RecoverCheckpoint(t, fence[t])
     \/ RecoverUnpaid(t, fence[t])
  /\ UNCHANGED <<epoch, superseded, fence, tries, repairs, leaseLive, accepts,
                 leaseEpoch, leaseRepair, validated, phase, envVars>>

-----------------------------------------------------------------------------
(* The worker thread of lease (t, f)                                        *)

\* execute_translation, first transaction: the cache and the checkpoints are
\* read; then the provider is prepared outside any transaction.
Snapshot(t, f) ==
  /\ phase[t][f] = "claimed"
  /\ IF ~Current(t, f, {"running"})
       THEN Goto(t, f, Rejection(t, f))
       ELSE \/ Goto(t, f, "replay")           \* checkpoint, or a cache hit
            \/ /\ ~HasCheckpoint(t, leaseRepair[t][f])
               /\ \E p \in {"prepared", "wait_config"} : Goto(t, f, p)
  /\ UNCHANGED <<jobVars, taskVars, attemptVars, envVars>>

MayReserve == Cardinality(ReservedPermits) < PermitLimit

\* authorize: the durable decision to pay for one request.
Reserve(t, f) ==
  /\ MayReserve
  /\ attState[t][f] = "created" /\ permit[t][f] = "none"
  /\ SetPermit(t, f, "reserved")
  /\ SetAttempt(t, f, "dispatching")
  /\ Goto(t, f, "sending")

\* authorize refuses: no capacity, no budget, dispatch disabled or a
\* configuration error; or the unit is too large for the local model.
DoNotReserve(t, f) ==
  /\ \/ ~MayReserve /\ Goto(t, f, "wait_capacity")
     \/ \E p \in {"wait_budget", "wait_config", "failed_toolarge"} : Goto(t, f, p)
  /\ UNCHANGED <<permit, attState>>

Authorize(t, f) ==
  /\ phase[t][f] = "prepared"
  /\ \/ Current(t, f, {"running"}) /\ (Reserve(t, f) \/ DoNotReserve(t, f))
     \/ /\ ~Current(t, f, {"running"})
        /\ Goto(t, f, Rejection(t, f))
        /\ UNCHANGED <<permit, attState>>
  /\ UNCHANGED <<jobVars, taskVars, leaseEpoch, leaseRepair, validated, envVars>>

\* Mutant: the status of the other vocabulary of workflow.py.
StatusWhileWaitingLongName(p) ==
  CASE p = "wait_capacity" -> "pending"
    [] p = "wait_budget"   -> "waiting_budget"
    [] p = "wait_config"   -> "waiting_configuration"

StatusWhileWaiting(p) ==
  CASE p = "wait_capacity" -> "pending"
    [] p = "wait_budget"   -> "waiting_budget"
    [] p = "wait_config"   -> "waiting_config"

\* wait_without_dispatch: the unit goes back, the attempt is not counted.
WaitWithoutDispatch(t, f) ==
  /\ phase[t][f] \in Waiting
  /\ IF Current(t, f, {"running"})
       THEN /\ SetTask(t, "pending")
            /\ SetJob(t, StatusWhileWaiting(phase[t][f]))
            /\ Untry(t)
            /\ SetAttempt(t, f, "closed")
            /\ Goto(t, f, "done")
       ELSE /\ Goto(t, f, Rejection(t, f))
            /\ UNCHANGED <<jobStatus, taskStatus, tries, attState>>
  /\ UNCHANGED <<epoch, superseded, fence, repairs, leaseLive, accepts,
                 leaseEpoch, leaseRepair, permit, validated, envVars>>

\* The provider call ends: a response, a request known not to have run, or
\* no way to tell (timeout, wrong model, missing or unpriceable usage).
ProviderReturns(t, f) ==
  /\ phase[t][f] = "sending"
  /\ \E p \in Outcomes : Goto(t, f, p)
  /\ UNCHANGED <<jobVars, taskVars, attemptVars, envVars>>

\* settle: accounting accepts a late response whatever the lease, the epoch,
\* the document and maintenance say.
AfterSettlement(p) ==
  CASE p = "returned_valid"       -> "settled_valid"
    [] p = "returned_invalid"     -> "failed_invalid"
    [] p = "returned_refused"     -> "failed_refused"
    [] p = "returned_unsupported" -> "failed_unsupported"

Settle(t, f) ==
  /\ phase[t][f] \in Returned
  /\ Uncertain(t, f)
  /\ SetPermit(t, f, "settled")
  /\ SetAttempt(t, f, "settled")
  /\ Goto(t, f, AfterSettlement(phase[t][f]))
  /\ UNCHANGED <<jobVars, taskVars, leaseEpoch, leaseRepair, validated, envVars>>

\* The validated response becomes evidence of its attempt unless the document
\* is deleted; neither fence nor epoch is asked.
\* Mutant: the tombstone is not re-read.
MayCheckpointAlways == TRUE

MayCheckpoint == ~deleted

Checkpoint(t, f) ==
  /\ phase[t][f] = "settled_valid"
  /\ IF MayCheckpoint
       THEN /\ validated' = [validated EXCEPT ![t][f] = TRUE]
            /\ Goto(t, f, "checkpointed")
       ELSE /\ Goto(t, f, "done")
            /\ UNCHANGED validated
  /\ UNCHANGED <<jobVars, taskVars, leaseEpoch, leaseRepair, attState, permit, envVars>>

\* Mutant: the fence and the lease are not checked again at commit.
MayCommitUnfenced(t, f) == ~maintenance /\ ~deleted /\ SameEpoch(t, f)

MayCommit(t, f) == Current(t, f, {"running", "pending"})

\* commit_unit: a response may be committed while a sibling's wait has put the
\* job back to pending.  A rejection after a checkpoint is swallowed.
Commit(t, f) ==
  LET j  == JobOf[t]
      ts == [taskStatus EXCEPT ![t] = "succeeded"]
  IN
  /\ phase[t][f] \in {"replay", "checkpointed"}
  /\ IF MayCommit(t, f)
       THEN /\ taskStatus' = ts
            /\ SetJob(t, Finalized(j, ts, Finished(j, ts)))
            /\ CloseCreated(t, f)
            /\ Goto(t, f, "done")
       ELSE /\ Goto(t, f, IF phase[t][f] = "checkpointed" THEN "done" ELSE Rejection(t, f))
            /\ UNCHANGED <<jobStatus, taskStatus, attState>>
  /\ UNCHANGED <<epoch, superseded, fence, tries, repairs, leaseLive, accepts,
                 leaseEpoch, leaseRepair, permit, validated, envVars>>

-----------------------------------------------------------------------------
(* retry_or_stop and the exception handler of execute                       *)

\* The money first, in every state of the job: an unsent request releases its
\* permit, a request of unknown fate keeps it, a settled one stays settled.
ClassifyMoney(t, f) ==
  CASE phase[t][f] \in Unsent /\ permit[t][f] = "reserved" ->
         SetPermit(t, f, "released") /\ SetAttempt(t, f, "closed")
    [] phase[t][f] = "failed_unknown" /\ permit[t][f] # "settled" ->
         SetPermit(t, f, "unknown") /\ SetAttempt(t, f, "outcome_unknown")
    [] OTHER -> UNCHANGED <<permit, attState>>

\* release_unsent refuses a permit that recovery has marked unknown.
ReleaseRefused(t, f) == phase[t][f] \in Unsent /\ permit[t][f] \notin {"none", "reserved"}

\* Mutants: the control epoch, or the fence, is not compared.
MayRescheduleAnyEpoch(t, f) == ~deleted /\ f = fence[t]
MayRescheduleAnyFence(t, f) == ~deleted /\ SameEpoch(t, f)

\* The thread may still write its task and job.  Unlike Current, this asks
\* neither for the lease nor for the status of the task or the job.
MayReschedule(t, f) == ~deleted /\ f = fence[t] /\ SameEpoch(t, f)

\* Mutants: unsent requests are retried for ever; a lost answer counts as unsent.
RetryUnsentForever(t, f) == phase[t][f] = "failed_unsent"
RetryUnsentOrLost(t, f) == phase[t][f] \in {"failed_unsent", "failed_unknown"} /\ tries[t] < AttemptLimit

RetryUnsent(t, f) == phase[t][f] = "failed_unsent" /\ tries[t] < AttemptLimit
RepairInvalid(t, f) ==
  phase[t][f] = "failed_invalid" /\ repairs[t] < 1 /\ tries[t] < AttemptLimit

\* The unit goes back to the queue, the second time with a repair request.
Reschedule(t, f) ==
  /\ RetryUnsent(t, f) \/ RepairInvalid(t, f)
  /\ repairs' = [repairs EXCEPT ![t] = IF RepairInvalid(t, f) THEN @ + 1 ELSE @]
  /\ SetTask(t, "pending")
  /\ SetJob(t, "pending")

StopUnknown(t, f) ==
  /\ phase[t][f] = "failed_unknown"
  /\ SetTask(t, "outcome_unknown")
  /\ SetJob(t, "outcome_unknown")
  /\ UNCHANGED repairs

\* The provider is not configured for the unit, or answers in an unsupported form.
Misconfigured == {"failed_config", "failed_unsupported"}

StopConfig(t, f) ==
  /\ phase[t][f] \in Misconfigured
  /\ SetTask(t, "failed")
  /\ SetJob(t, "waiting_config")
  /\ UNCHANGED repairs

\* The unit fails; the job goes on with its other units, or is finalized.
StopUnit(t, f) ==
  LET ts == [taskStatus EXCEPT ![t] = "failed"] IN
  /\ phase[t][f] \notin {"failed_unknown"} \cup Misconfigured
  /\ ~RetryUnsent(t, f) /\ ~RepairInvalid(t, f)
  /\ taskStatus' = ts
  /\ SetJob(t, Finalized(JobOf[t], ts, "pending"))
  /\ UNCHANGED repairs

RetryOrStop(t, f) ==
  /\ phase[t][f] \in Failed
  /\ \/ /\ ReleaseRefused(t, f)
        /\ Goto(t, f, "raised_other")
        /\ UNCHANGED <<permit, attState, jobStatus, taskStatus, repairs>>
     \/ /\ ~ReleaseRefused(t, f)
        /\ ClassifyMoney(t, f)
        /\ Goto(t, f, "done")
        /\ IF MayReschedule(t, f)
             THEN Reschedule(t, f) \/ StopUnknown(t, f) \/ StopConfig(t, f) \/ StopUnit(t, f)
             ELSE UNCHANGED <<jobStatus, taskStatus, repairs>>
  /\ UNCHANGED <<epoch, superseded, fence, tries, leaseLive, accepts,
                 leaseEpoch, leaseRepair, validated, envVars>>

HandlerMayWrite(t, f) == Leased(t, f) /\ SameEpoch(t, f)

\* An exception of a thread that no longer holds its unit changes nothing.
HandleStale(t, f) ==
  /\ ~HandlerMayWrite(t, f)
  /\ UNCHANGED <<jobStatus, taskStatus, tries, attState, permit>>

HandleUncertain(t, f) ==
  /\ HandlerMayWrite(t, f) /\ Uncertain(t, f)
  /\ SetPermit(t, f, "unknown")
  /\ SetAttempt(t, f, "outcome_unknown")
  /\ SetTask(t, "outcome_unknown")
  /\ SetJob(t, "outcome_unknown")
  /\ UNCHANGED tries

\* The job was paused or made to wait, by the user or by a sibling unit.
SiblingWaits(t, f) ==
  /\ phase[t][f] = "raised_control"
  /\ jobStatus[JobOf[t]] \in {"pending", "paused", "waiting_config", "waiting_budget", "outcome_unknown"}

HandleYield(t, f) ==
  /\ HandlerMayWrite(t, f) /\ ~Uncertain(t, f) /\ SiblingWaits(t, f)
  /\ SetTask(t, "pending")
  /\ IF permit[t][f] = "none"
       THEN Untry(t) /\ SetAttempt(t, f, "closed")
       ELSE UNCHANGED <<tries, attState>>
  /\ UNCHANGED <<jobStatus, permit>>

HandleFailure(t, f) ==
  /\ HandlerMayWrite(t, f) /\ ~Uncertain(t, f) /\ ~SiblingWaits(t, f)
  /\ SetTask(t, "failed")
  /\ SetJob(t, "failed")
  /\ CloseCreated(t, f)
  /\ UNCHANGED <<tries, permit>>

HandleException(t, f) ==
  /\ phase[t][f] \in Raised
  /\ HandleStale(t, f) \/ HandleUncertain(t, f) \/ HandleYield(t, f) \/ HandleFailure(t, f)
  /\ Goto(t, f, "done")
  /\ UNCHANGED <<epoch, superseded, fence, repairs, leaseLive, accepts,
                 leaseEpoch, leaseRepair, validated, envVars>>

\* Any transaction, file read or transport may raise something else.
Raise(t, f) ==
  /\ "raise" \in Events
  /\ phase[t][f] \in Active \ Raised
  /\ Goto(t, f, "raised_other")
  /\ UNCHANGED <<jobVars, taskVars, attemptVars, envVars>>

\* The worker process dies, or its exception handler fails.
Dies(t, f) ==
  /\ "crash" \in Events
  /\ phase[t][f] \in Active
  /\ Goto(t, f, "done")
  /\ UNCHANGED <<jobVars, taskVars, attemptVars, envVars>>

-----------------------------------------------------------------------------
(* The API                                                                  *)

Open == ~maintenance /\ ~deleted

Pause(j) ==
  /\ "pause" \in Events /\ Open
  /\ jobStatus[j] \notin TerminalStates
  /\ epoch[j] < MaxEpoch
  /\ epoch' = [epoch EXCEPT ![j] = @ + 1]
  /\ jobStatus' = [jobStatus EXCEPT ![j] = "paused"]
  /\ UNCHANGED <<superseded, taskVars, attemptVars, phase, envVars>>

Cancel(j) ==
  /\ "cancel" \in Events /\ Open
  /\ jobStatus[j] \notin TerminalStates
  /\ epoch[j] < MaxEpoch
  /\ epoch' = [epoch EXCEPT ![j] = @ + 1]
  /\ jobStatus' = [jobStatus EXCEPT ![j] = "cancelled"]
  /\ UNCHANGED <<superseded, taskVars, attemptVars, phase, envVars>>

\* resume: never over an unknown charge, never for a replaced source.
MayResume(j) ==
  /\ ~superseded[j]
  /\ jobStatus[j] \in {"paused", "waiting_config", "waiting_budget"}
  /\ ~UnknownPermit(j)

Resume(j) ==
  /\ Open /\ MayResume(j)
  /\ jobStatus' = [jobStatus EXCEPT ![j] = "pending"]
  /\ UNCHANGED <<epoch, superseded, taskVars, attemptVars, phase, envVars>>

\* resolve_attempt "stop" of an attempt of unknown outcome.
ResolveStop(t, f) ==
  /\ "stop" \in Events /\ Open
  /\ attState[t][f] = "outcome_unknown"
  /\ epoch[JobOf[t]] < MaxEpoch
  /\ SetJob(t, "cancelled")
  /\ epoch' = [epoch EXCEPT ![JobOf[t]] = @ + 1]
  /\ UNCHANGED <<superseded, taskVars, attemptVars, phase, envVars>>

\* resolve_attempt "retry_accept_risk": the user accepts to pay twice.  The
\* unknown permit stays; accepts counts the evidence entries left behind.
MayAccept(t, f) ==
  /\ attState[t][f] = "outcome_unknown"
  /\ ~superseded[JobOf[t]]
  /\ jobStatus[JobOf[t]] = "outcome_unknown"
  /\ tries[t] < AttemptLimit
  /\ taskStatus[t] = "outcome_unknown"

ResolveRetry(t, f) ==
  /\ "accept" \in Events /\ Open
  /\ MayAccept(t, f)
  /\ accepts[t] < MaxAccepts
  /\ accepts' = [accepts EXCEPT ![t] = @ + 1]
  /\ SetTask(t, "pending")
  /\ SetJob(t, "pending")
  /\ UNCHANGED <<epoch, superseded, fence, tries, repairs, leaseLive, attemptVars, phase, envVars>>

NonTerminal == {j \in Jobs : jobStatus[j] \notin TerminalStates}

\* create_import over an existing document: its unfinished jobs are cancelled,
\* except that an unknown charge stays to be resolved.
ReplaceSource ==
  /\ "replace" \in Events /\ Open
  /\ NonTerminal # {}
  /\ \A j \in NonTerminal : epoch[j] < MaxEpoch
  /\ epoch' = [j \in Jobs |-> IF j \in NonTerminal THEN epoch[j] + 1 ELSE epoch[j]]
  /\ superseded' = [j \in Jobs |-> superseded[j] \/ j \in NonTerminal]
  /\ jobStatus' = [j \in Jobs |-> IF j \in NonTerminal /\ jobStatus[j] # "outcome_unknown"
                                    THEN "cancelled" ELSE jobStatus[j]]
  /\ UNCHANGED <<taskVars, attemptVars, phase, envVars>>

DeleteDocument ==
  /\ "delete" \in Events /\ Open
  /\ \A j \in Jobs : epoch[j] < MaxEpoch
  /\ deleted' = TRUE
  /\ epoch' = [j \in Jobs |-> epoch[j] + 1]
  /\ jobStatus' = [j \in Jobs |-> IF j \in NonTerminal THEN "cancelled" ELSE jobStatus[j]]
  /\ UNCHANGED <<superseded, taskVars, attemptVars, phase, maintenance>>

\* cleanup_document, a task of a job of its own: the content of the evidence
\* goes, the permits stay for accounting.
Cleanup ==
  /\ deleted /\ ~maintenance
  /\ \/ \E t \in Tasks : taskStatus[t] \notin {"succeeded", "failed", "cancelled"}
     \/ \E t \in Tasks, f \in Fences : validated[t][f]
  /\ taskStatus' = [t \in Tasks |-> IF taskStatus[t] \in {"succeeded", "failed"}
                                      THEN taskStatus[t] ELSE "cancelled"]
  /\ validated' = [t \in Tasks |-> [f \in Fences |-> FALSE]]
  /\ UNCHANGED <<jobVars, fence, tries, repairs, leaseLive, accepts,
                 leaseEpoch, leaseRepair, attState, permit, phase, envVars>>

-----------------------------------------------------------------------------
(* Maintenance                                                              *)

\* acquire_maintenance_lock: every thread inside execute holds the shared
\* lock; a thread between its claim and that lock does not.
Drained == \A t \in Tasks, f \in Fences : phase[t][f] \in {"none", "claimed", "done"}

Inflight(t) == \E f \in Fences : permit[t][f] = "reserved"
InflightJob(j) == \E t \in Units(j) : Inflight(t)

\* uncertain_inflight.  The code adds one to the epoch per permit; one is
\* enough here, where only its difference from a lease's epoch matters.
MaintenanceOn ==
  /\ "maintenance" \in Events /\ ~maintenance
  /\ Drained
  /\ \A j \in Jobs : epoch[j] < MaxEpoch
  /\ maintenance' = TRUE
  /\ permit' = [t \in Tasks |-> [f \in Fences |->
       IF permit[t][f] = "reserved" THEN "unknown" ELSE permit[t][f]]]
  /\ attState' = [t \in Tasks |-> [f \in Fences |->
       IF permit[t][f] = "reserved" THEN "outcome_unknown" ELSE attState[t][f]]]
  /\ taskStatus' = [t \in Tasks |-> IF Inflight(t) THEN "outcome_unknown" ELSE taskStatus[t]]
  /\ jobStatus' = [j \in Jobs |-> IF InflightJob(j) THEN "outcome_unknown" ELSE jobStatus[j]]
  /\ epoch' = [j \in Jobs |-> IF InflightJob(j) THEN epoch[j] + 1 ELSE epoch[j]]
  /\ UNCHANGED <<superseded, fence, tries, repairs, leaseLive, accepts,
                 leaseEpoch, leaseRepair, validated, phase, deleted>>

MaintenanceOff ==
  /\ maintenance
  /\ maintenance' = FALSE
  /\ UNCHANGED <<jobVars, taskVars, attemptVars, phase, deleted>>

-----------------------------------------------------------------------------
ThreadStep(t, f) ==
  \/ Snapshot(t, f) \/ Authorize(t, f) \/ WaitWithoutDispatch(t, f)
  \/ ProviderReturns(t, f) \/ Settle(t, f) \/ Checkpoint(t, f) \/ Commit(t, f)
  \/ RetryOrStop(t, f) \/ HandleException(t, f)

Thread(t, f) == ThreadStep(t, f) \/ Raise(t, f) \/ Dies(t, f)
Queue(t) == Claim(t) \/ LeaseExpires(t) \/ RecoverExpired(t)
Api ==
  \/ \E j \in Jobs : Pause(j) \/ Cancel(j) \/ Resume(j)
  \/ \E t \in Tasks, f \in Fences : ResolveStop(t, f) \/ ResolveRetry(t, f)
  \/ ReplaceSource \/ DeleteDocument \/ Cleanup

Next ==
  \/ \E t \in Tasks : Queue(t)
  \/ \E t \in Tasks, f \in Fences : Thread(t, f)
  \/ Api \/ MaintenanceOn \/ MaintenanceOff

Spec == Init /\ [][Next]_vars

\* The worker processes keep running: a thread that lives takes its next step,
\* a free worker claims a unit that can be claimed, recover_expired runs
\* before every claim, and the lease of a dead thread runs out.  Users,
\* crashes and maintenance owe nothing.
LeaseOfDoneExpires(t) ==
  fence[t] > 0 /\ phase[t][fence[t]] = "done" /\ LeaseExpires(t)

Fairness ==
  /\ \A t \in Tasks : /\ WF_vars(Claim(t))
                      /\ WF_vars(LeaseOfDoneExpires(t))
                      /\ WF_vars(RecoverExpired(t))
  /\ \A t \in Tasks, f \in Fences : WF_vars(ThreadStep(t, f))

FairSpec == Spec /\ Fairness

-----------------------------------------------------------------------------
(* Properties                                                               *)

\* Every variable keeps the values its column can hold.
TypeOK ==
  /\ jobStatus \in [Jobs -> JobStates]
  /\ epoch \in [Jobs -> Nat]
  /\ superseded \in [Jobs -> BOOLEAN]
  /\ taskStatus \in [Tasks -> TaskStates]
  /\ fence \in [Tasks -> 0 .. MaxFence]
  /\ tries \in [Tasks -> Nat]
  /\ repairs \in [Tasks -> 0 .. 1]
  /\ leaseLive \in [Tasks -> BOOLEAN]
  /\ accepts \in [Tasks -> Nat]
  /\ leaseEpoch \in [Tasks -> [Fences -> Nat]]
  /\ leaseRepair \in [Tasks -> [Fences -> 0 .. 1]]
  /\ attState \in [Tasks -> [Fences -> AttemptStates]]
  /\ permit \in [Tasks -> [Fences -> PermitStates]]
  /\ validated \in [Tasks -> [Fences -> BOOLEAN]]
  /\ phase \in [Tasks -> [Fences -> Phases]]
  /\ deleted \in BOOLEAN
  /\ maintenance \in BOOLEAN

\* A request that may be executing belongs to the last lease of its unit, and
\* its unit is still leased (or was cancelled with its document): a unit that
\* went back to the queue, finished or failed has no request in flight.
OneLiveRequest ==
  \A t \in Tasks, f \in Fences :
    permit[t][f] = "reserved" => f = fence[t] /\ taskStatus[t] \in {"leased", "cancelled"}

\* Of the requests paid for a unit, at most one more than the user accepted to
\* pay twice may be unaccounted for: no expiry, crash, late answer or
\* maintenance makes the program send a unit again over an open charge.
UncertainNeedsAcceptance ==
  \A t \in Tasks : Cardinality(OpenPermits(t)) <= 1 + accepts[t]

\* The worker sends a unit at most AttemptLimit times, however often it is
\* recovered, retried, repaired or yields to a sibling: attempts that sent
\* nothing are given back, and none that did.
AttemptsBounded ==
  \A t \in Tasks : Cardinality({f \in Fences : permit[t][f] # "none"}) <= AttemptLimit

\* A job reported completed owes nothing: no unit of it is waiting or running,
\* and no charge of it is uncertain.
CompletedJobsAreSettled ==
  \A j \in Jobs : jobStatus[j] = "completed" =>
    /\ ~UnknownPermit(j) /\ ~InflightJob(j)
    /\ \A t \in Units(j) : taskStatus[t] \in {"succeeded", "failed", "cancelled"}

\* A committed unit is never undone, whatever stale threads still do.
SuccessIsFinal ==
  [][\A t \in Tasks : taskStatus[t] = "succeeded" => taskStatus'[t] = "succeeded"]_vars

\* A thread whose lease was given away, or whose job the user has meanwhile
\* controlled, still does its bookkeeping but writes no task and no job.
FencedThreadsWriteOnlyMoney ==
  [][\A t \in Tasks, f \in Fences :
       /\ phase'[t][f] # phase[t][f]
       /\ f < fence[t] \/ (f = fence[t] /\ ~SameEpoch(t, f))
       => UNCHANGED <<taskStatus, jobStatus>>]_vars

\* The ledger only moves forward: a charge that was settled or released stays
\* so, and an uncertain one is only ever settled by evidence.
PermitMoves == {<<"none", "reserved">>, <<"reserved", "released">>, <<"reserved", "unknown">>,
                <<"reserved", "settled">>, <<"unknown", "settled">>}
LedgerMovesForward ==
  [][\A t \in Tasks, f \in Fences :
       permit'[t][f] # permit[t][f] => <<permit[t][f], permit'[t][f]>> \in PermitMoves]_vars

\* After the document is deleted no late response adds content to it.
DeletedStaysErased ==
  [][deleted => \A t \in Tasks :
       /\ taskStatus'[t] = "succeeded" => taskStatus[t] = "succeeded"
       /\ \A f \in Fences : validated'[t][f] => validated[t][f]]_vars

\* Seen from the money, the queue implements PaidUnit: open counts the permits
\* that are reserved or unknown.
Money == INSTANCE PaidUnit WITH
  open      <- [t \in Tasks |-> Cardinality(OpenPermits(t))],
  accepted  <- accepts,
  delivered <- [t \in Tasks |-> taskStatus[t] = "succeeded"]

\* Every behaviour of the queue, seen so, is one PaidUnit allows.
ImplementsPaidUnit == Money!Spec

\* Every request that may be executing is accounted for in the end, however
\* its thread dies: settled, released, or declared unknown for the user.  And
\* no unit stays leased for ever: it is committed, requeued, failed, cancelled
\* or waits for the user to resolve its charge.
RequestsAreAccountedFor ==
  \A t \in Tasks :
    /\ \A f \in Fences : permit[t][f] = "reserved" ~> permit[t][f] # "reserved"
    /\ taskStatus[t] = "leased" ~> taskStatus[t] # "leased"
================================================================================
