------------------------------ MODULE TaskHistory ------------------------------
(***************************************************************************)
(* The list of tasks: operations, the steps they contain, what an          *)
(* operation is shown as, and the history a reader clears from the list    *)
(* while workers, late answers and deletions still change the jobs.        *)
(*                                                                         *)
(* A job has one task here (sibling units are in UnitQueue), all jobs are  *)
(* jobs of one document, and money is what the list asks of a permit: not  *)
(* settled yet, or settled (amounts are in Ledger).  Every change that     *)
(* calls emit raises the generation of its job, and generations only grow: *)
(* a clearing mark equals the generation until the next emit, so the mark  *)
(* is a Boolean that emit resets.                                          *)
(***************************************************************************)
EXTENDS Integers, Sequences, FiniteSets

CONSTANTS
  Startable,  \* the stages a user starts in the instance
  MaxJobs,    \* bound: jobs ever created
  MaxPaid,    \* bound: jobs among them that call a provider, before one is continued
  MaxFence,   \* bound: attempts of a job
  MaxClaims   \* bound: attempts of all jobs together

MainStages == {"parse", "translate", "candidate", "semantic_review", "publish",
               "rebuild", "export", "cleanup", "provider_test"}
Calling == {"translate", "candidate", "semantic_review"}   \* stages that ask a provider
Reporting == {"parse"}                                     \* ... that report a model of their own
Steps == {"quality_check", "metadata_lookup", "index"}

HistoryAssumption ==
  /\ Startable \subseteq MainStages \cup Steps
  /\ MaxJobs \in Nat /\ MaxPaid \in Nat /\ MaxFence \in Nat /\ MaxClaims \in Nat

VARIABLES
  jobs,       \* rows of jobs, in order of creation, with the task and the attempts of each
  deleted     \* the document is a tombstone

historyVars == <<jobs, deleted>>

\* "waiting_config" stands for waiting_budget too; only claim tells them apart.
Completed == {"succeeded", "completed_with_warnings", "partially_completed"}
Terminal == Completed \cup {"failed", "cancelled"}
Statuses == <<"outcome_unknown", "failed", "waiting_config", "needs_review", "paused", "running",
              "pending", "partially_completed", "completed_with_warnings", "cancelled", "succeeded">>
Fences == 1 .. MaxFence
Ids == DOMAIN jobs

NoCall == [at |-> "none", permit |-> "none"]

(* A job that waits for a worker, and the receipt of a stage that ran      *)
(* within a transaction of its parent.                                     *)
Fresh(s, p) ==
  [stage |-> s, parent |-> p, status |-> "pending", task |-> "pending", fence |-> 0,
   current |-> FALSE, superseded |-> FALSE, cleared |-> FALSE, model |-> 0,
   calls |-> [f \in Fences |-> NoCall]]
Receipt(s, p, outcome) ==
  [Fresh(s, p) EXCEPT !.status = outcome, !.task = outcome, !.fence = 1, !.model = 1]

Emitted(r) == [r EXCEPT !.cleared = FALSE]
Put(j, r) == jobs' = [jobs EXCEPT ![j] = r]
Room(n) == Len(jobs) + n <= MaxJobs
Paid == {j \in Ids : jobs[j].stage \in Calling}
Affordable(s) == s \in Calling => Cardinality(Paid) < MaxPaid

--------------------------------------------------------------------------------
(* visibility.py: which jobs are over, which can be cleared, which are     *)
(* listed.                                                                 *)
Unsettled(r) == \E f \in Fences : r.calls[f].permit \in {"reserved", "unknown"}
Unknown(r) == \E f \in Fences : r.calls[f].permit = "unknown"
Reserved(r) == \E f \in Fences : r.calls[f].permit = "reserved"
FinishedButLeased(r) == r.status \in Terminal /\ ~Unsettled(r)   \* mutant: a lease is not looked for
Finished(r) == r.status \in Terminal /\ ~Unsettled(r) /\ r.task # "leased"
Clearable(r) == Finished(r) /\ ~r.cleared
Visible(r) == ~r.cleared \/ ~Finished(r)

(* hierarchy.py: the main tasks, and with each of them the steps below it, *)
(* down to the next main task.                                             *)
Main(r) == r.parent = 0 \/ r.stage \in MainStages
Roots == {j \in Ids : Main(jobs[j])}
ChildOf(j, S) == jobs[j].parent \in S   \* mutant: a follow-up operation is taken for a step
StepOf(j, S) == ~Main(jobs[j]) /\ jobs[j].parent \in S
RootOnly(r) == {r}   \* mutant: the steps are not joined to their operation
Family(r) ==
  {j \in Ids : \A S \in SUBSET Ids : (r \in S /\ \A k \in Ids : StepOf(k, S) => k \in S) => j \in S}

FamilyOver(r) == \A j \in Family(r) : Finished(jobs[j])
Listed(r) == \E j \in Ids : Visible(jobs[j]) /\ j \in Family(r)

(* What an operation is shown as: the first of the statuses of its jobs,   *)
(* where a request or a lease counts before the status of its job.         *)
\* Mutant: the status of the job hides its lease and its request in flight.
ByStatus(j, r) ==
  CHOOSE n \in DOMAIN Statuses : Statuses[n] = IF Unknown(jobs[j]) THEN "outcome_unknown" ELSE jobs[j].status
Priority(j, r) ==
  LET job == jobs[j]
      shown == IF Unknown(job) THEN "outcome_unknown"
               ELSE IF Reserved(job) \/ job.task = "leased" THEN "running"
               ELSE IF j # r /\ job.stage \in {"quality_check", "metadata_lookup"} /\ job.status = "failed"
                    THEN "completed_with_warnings"
               ELSE job.status
  IN  CHOOSE n \in DOMAIN Statuses : Statuses[n] = shown
Shown(r) ==
  LET ranks == {Priority(j, r) : j \in Family(r)}
  IN  Statuses[CHOOSE n \in ranks : \A m \in ranks : n <= m]

Group(status) ==
  CASE status \in {"pending", "running"} -> "active"
    [] status \in {"failed", "outcome_unknown", "paused", "waiting_config", "needs_review"} -> "attention"
    [] status \in Completed -> "completed"
    [] status = "cancelled" -> "cancelled"

--------------------------------------------------------------------------------
(* The worker.  Live is what assert_current asks of a lease; the attempt   *)
(* of fence f is at "idle" until it is authorized, then "sent", "calling"  *)
(* once its dispatch is recorded, "answered" and "settled", and "done".    *)
Readable(r) == ~deleted \/ r.stage = "cleanup"
Live(r) == r.task = "leased" /\ r.current /\ r.status = "running" /\ Readable(r)
At(r, f) == r.calls[f].at
Call(r, f, at, permit) == [r EXCEPT !.calls[f] = [at |-> at, permit |-> permit]]
Move(r, f, at) == [r EXCEPT !.calls[f].at = at]

(* A frozen profile that went stale once left jobs waiting; they are taken *)
(* up without a resume.                                                    *)
Ready(r) == r.status \in {"pending", "running"} \/ (r.status = "waiting_config" /\ r.stage \in Calling)
Claimed == {c \in Ids \X Fences : At(jobs[c[1]], c[2]) # "none"}
Claim(j) ==
  LET r == jobs[j]
      f == r.fence + 1
      leased == [r EXCEPT !.task = "leased", !.status = "running", !.fence = f, !.current = TRUE,
                          !.calls[f] = [at |-> "idle", permit |-> "none"]]
  IN  /\ r.task = "pending" /\ Ready(r) /\ Readable(r)
      /\ r.fence < MaxFence /\ Cardinality(Claimed) < MaxClaims
      /\ Put(j, Emitted(IF r.stage \in Calling \cup Reporting THEN leased ELSE [leased EXCEPT !.model = f]))
      /\ UNCHANGED deleted

(* set_actual_model: a live parser names its model; no emit.               *)
ReportModel(j) ==
  /\ jobs[j].stage \in Reporting /\ Live(jobs[j])
  /\ Put(j, [jobs[j] EXCEPT !.model = jobs[j].fence])
  /\ UNCHANGED deleted

Dispatch(j) ==
  LET r == jobs[j] IN
  /\ r.stage \in Calling /\ Live(r) /\ At(r, r.fence) = "idle"
  /\ Put(j, Emitted(Call(r, r.fence, "sent", "reserved")))
  /\ UNCHANGED deleted

(* record_api_model: before the call and with its response, in whatever    *)
(* state the job is by then.                                               *)
AlwaysWritten(r, f) == [r EXCEPT !.model = f]   \* mutant: a late receipt is not compared with the fence
Written(r, f) == IF f = r.fence THEN [r EXCEPT !.model = f] ELSE r
RecordModel(j, f) ==
  LET r == jobs[j] IN
  /\ \/ At(r, f) = "sent" /\ Put(j, Move(Written(r, f), f, "calling"))
     \/ At(r, f) = "calling" /\ Put(j, Move(Written(r, f), f, "answered"))
  /\ UNCHANGED deleted

(* settle takes late evidence whatever became of the lease; no emit.       *)
Settle(j, f) ==
  /\ At(jobs[j], f) = "answered"
  /\ Put(j, Call(jobs[j], f, "settled", "settled"))
  /\ UNCHANGED deleted

(* The jobs a finished stage leaves behind in the same transaction.  A     *)
(* translation that cannot start yet is pending here, and postponed.       *)
Follow ==
  [parse |-> {<<>>, <<"quality_check">>, <<"metadata_lookup">>, <<"translate">>,
             <<"quality_check", "translate">>, <<"quality_check", "publish">>},
   translate |-> {<<"quality_check">>, <<"quality_check", "publish">>},
   publish |-> {<<>>, <<"index">>}]
Following(s) == IF s \in DOMAIN Follow THEN Follow[s] ELSE {<<>>}
Born(s, p, outcome) == IF s = "quality_check" THEN Receipt(s, p, outcome) ELSE Fresh(s, p)
EndWith(j, r) ==
  \E stages \in Following(r.stage), checked \in {"succeeded", "failed"} :
    /\ Room(Len(stages))
    /\ \A i \in DOMAIN stages : Affordable(stages[i])
    /\ jobs' = [jobs EXCEPT ![j] = Emitted(r)] \o [i \in DOMAIN stages |-> Born(stages[i], j, checked)]

(* finish, and what finalize_translation or the stage makes of the job: a  *)
(* translation with an uncertain request of an earlier attempt is not over.*)
Outcomes(s) ==
  CASE s \in {"translate", "candidate"} -> Completed
    [] s = "metadata_lookup" -> {"succeeded", "completed_with_warnings", "cancelled"}
    [] OTHER -> {"succeeded", "completed_with_warnings"}
End(j, r, outcomes) ==
  IF r.stage \in {"translate", "candidate"} /\ Unknown(r)
  THEN Put(j, Emitted([r EXCEPT !.status = "outcome_unknown"]))
  ELSE \E outcome \in outcomes : EndWith(j, [r EXCEPT !.status = outcome])
Finish(j) ==
  LET r == jobs[j] IN
  /\ Live(r) /\ At(r, r.fence) \in {"idle", "settled"}
  /\ End(j, Move([r EXCEPT !.task = "succeeded"], r.fence, "done"), Outcomes(r.stage))
  /\ UNCHANGED deleted

(* wait_without_dispatch, and a lookup that is asked to come back later.   *)
Postpone(j) ==
  LET r == jobs[j] IN
  /\ Live(r) /\ At(r, r.fence) = "idle" /\ r.stage \in Calling \cup {"metadata_lookup"}
  /\ \E status \in {"pending"} \cup (IF r.stage \in Calling THEN {"waiting_config"} ELSE {}) :
       Put(j, Emitted(Move([r EXCEPT !.task = "pending", !.status = status], r.fence, "done")))
  /\ UNCHANGED deleted

(* retry_or_stop: the money is classified in any case, the task only while *)
(* fence, control epoch and document are still those of the attempt.       *)
Classified(r, f, outcome) ==
  CASE outcome = "not_sent" -> Call(r, f, "done", "released")
    [] outcome = "unknown" -> Call(r, f, "done", "unknown")
    [] OTHER -> Move(r, f, "done")
Possible(r, f) ==
  CASE At(r, f) = "calling" /\ r.calls[f].permit = "reserved" -> {"not_sent", "unknown"}
    [] At(r, f) \in {"calling", "answered"} -> {"unknown"}
    [] At(r, f) = "settled" -> {"executed_invalid"}
    [] OTHER -> {}
RetryOrStop(j, f) ==
  \E outcome \in Possible(jobs[j], f) :
    LET r == Classified(jobs[j], f, outcome)
        matches == f = r.fence /\ r.current /\ ~deleted
    IN  /\ IF ~matches THEN Put(j, r)
           ELSE IF outcome = "unknown"
           THEN Put(j, Emitted([r EXCEPT !.task = "outcome_unknown", !.status = "outcome_unknown"]))
           ELSE \/ Put(j, Emitted([r EXCEPT !.task = "failed", !.status = "waiting_config"]))
                \/ /\ r.status # "failed"   \* a job at its attempt limit is not tried again
                   /\ Put(j, Emitted([r EXCEPT !.task = "pending", !.status = "pending"]))
                \/ End(j, [r EXCEPT !.task = "failed"],
                       IF r.stage = "semantic_review" THEN {"failed"} ELSE Completed)
        /\ UNCHANGED deleted

(* The exception handler of the worker loop.                               *)
Uncertain(r) == [r EXCEPT !.task = "outcome_unknown", !.status = "outcome_unknown",
                          !.calls[r.fence] = [at |-> "done", permit |-> "unknown"]]
Raise(j) ==
  LET r == jobs[j] IN
  /\ r.task = "leased" /\ r.current
  /\ Put(j, Emitted(IF r.calls[r.fence].permit \in {"reserved", "unknown"} THEN Uncertain(r)
                    ELSE Move([r EXCEPT !.task = "failed", !.status = "failed"], r.fence, "done")))
  /\ UNCHANGED deleted

(* recover_expired: the worker of the lease may still be alive.            *)
Expire(j) ==
  LET r == jobs[j]
      permit == r.calls[r.fence].permit
  IN  /\ r.task = "leased"
      /\ IF permit \in {"reserved", "unknown"}
         THEN Put(j, Emitted([r EXCEPT !.task = "outcome_unknown", !.status = "outcome_unknown",
                                       !.calls[r.fence].permit = "unknown"]))
         ELSE IF r.status = "cancelled" THEN Put(j, Emitted([r EXCEPT !.task = "cancelled"]))
         ELSE \/ Put(j, Emitted([r EXCEPT !.task = "pending",
                                          !.status = IF r.status = "paused" THEN "paused" ELSE "pending"]))
              \/ Put(j, Emitted([r EXCEPT !.task = "failed", !.status = "failed"]))
      /\ UNCHANGED deleted

--------------------------------------------------------------------------------
(* The user.                                                               *)
Enqueue(s) ==
  /\ ~deleted /\ Room(1) /\ Affordable(s)
  /\ \/ s # "quality_check" /\ jobs' = Append(jobs, Fresh(s, 0))
     \/ /\ s = "quality_check"
        /\ \E checked \in {"succeeded", "failed"} : jobs' = Append(jobs, Receipt(s, 0, checked))
  /\ UNCHANGED deleted

Control(j) ==
  LET r == jobs[j] IN
  /\ ~deleted /\ r.status \notin Terminal
  /\ \/ /\ r.status \in {"paused", "waiting_config"} /\ ~r.superseded /\ ~Unknown(r)
        /\ Put(j, Emitted([r EXCEPT !.status = "pending"]))
     \/ \E status \in {"paused", "cancelled"} :
          Put(j, Emitted([r EXCEPT !.status = status, !.current = FALSE]))
  /\ UNCHANGED deleted

(* resolve_attempt: an attempt is uncertain exactly while its permit is.   *)
Resolve(j, f) ==
  LET r == jobs[j] IN
  /\ ~deleted /\ r.calls[f].permit = "unknown"
  /\ \/ Put(j, Emitted([r EXCEPT !.status = "cancelled", !.current = FALSE]))
     \/ /\ ~r.superseded /\ r.status = "outcome_unknown" /\ r.task = "outcome_unknown"
        /\ Put(j, Emitted([r EXCEPT !.task = "pending", !.status = "pending"]))
     \/ Put(j, Emitted(r))
  /\ UNCHANGED deleted

(* continue_translation: waiting jobs of the draft make room for a new     *)
(* operation, which names the latest of them as its parent.                *)
Latest == IF Paid = {} THEN 0 ELSE CHOOSE k \in Paid : \A j \in Paid : j <= k
Continue ==
  /\ ~deleted /\ Room(1)
  /\ \A j \in Paid : /\ ~Unsettled(jobs[j]) /\ jobs[j].task # "leased"
                     /\ jobs[j].status \notin {"pending", "running", "paused", "outcome_unknown"}
  /\ jobs' = Append([j \in Ids |->
       IF j \in Paid /\ jobs[j].status = "waiting_config"
       THEN Emitted([jobs[j] EXCEPT !.status = "cancelled", !.current = FALSE]) ELSE jobs[j]],
       Fresh("translate", Latest))
  /\ UNCHANGED deleted

(* An upload replaces the source: what still works on the old one stops,   *)
(* and with a workflow the new one is parsed.                              *)
Superseded(r) ==
  IF r.stage \in {"export", "index", "cleanup"} \/ r.status \in Terminal THEN r
  ELSE Emitted([r EXCEPT !.current = FALSE, !.superseded = TRUE,
                         !.status = IF @ = "outcome_unknown" THEN @ ELSE "cancelled"])
ReplaceSource ==
  /\ ~deleted
  /\ \E parses \in {<<>>, <<Fresh("parse", 0)>>} :
       /\ Room(Len(parses))
       /\ jobs' = [j \in Ids |-> Superseded(jobs[j])] \o parses
  /\ UNCHANGED deleted

(* Deletion fences every job of the document; the new generation keeps the *)
(* mark of a job that is not listed.                                       *)
\* Mutants: the mark is not carried to the new generation; the job takes the lifecycle of the document.
TombstonedListed(r) ==
  [r EXCEPT !.current = FALSE, !.status = IF @ \in Terminal THEN @ ELSE "cancelled", !.cleared = FALSE]
TombstonedDeleted(r) ==
  [r EXCEPT !.current = FALSE, !.status = IF @ \in Terminal THEN @ ELSE "deleted", !.cleared = ~Visible(r)]
Tombstoned(r) ==
  [r EXCEPT !.current = FALSE, !.status = IF @ \in Terminal THEN @ ELSE "cancelled",
            !.cleared = ~Visible(r)]
Delete ==
  /\ ~deleted /\ Room(1)
  /\ jobs' = Append([j \in Ids |-> Tombstoned(jobs[j])], Fresh("cleanup", 0))
  /\ deleted' = TRUE

(* Entering maintenance declares every request in flight uncertain.        *)
Maintained(r) ==
  IF ~Reserved(r) THEN r
  ELSE Emitted([r EXCEPT !.task = "outcome_unknown", !.status = "outcome_unknown", !.current = FALSE,
         !.calls = [f \in Fences |-> IF @[f].permit = "reserved" THEN [@[f] EXCEPT !.permit = "unknown"] ELSE @[f]]])
Maintain ==
  /\ \E j \in Ids : Reserved(jobs[j])
  /\ jobs' = [j \in Ids |-> Maintained(jobs[j])]
  /\ UNCHANGED deleted

(* clear_task_history: one transaction under the settings row and the      *)
(* lifecycle lock.                                                         *)
Clearing == {r \in Roots : Listed(r) /\ FamilyOver(r)}
Clear ==
  /\ Clearing # {}
  /\ jobs' = [j \in Ids |-> IF Clearable(jobs[j]) /\ \E r \in Clearing : j \in Family(r)
                            THEN [jobs[j] EXCEPT !.cleared = TRUE] ELSE jobs[j]]
  /\ UNCHANGED deleted

--------------------------------------------------------------------------------
Init == jobs = <<>> /\ deleted = FALSE

Next ==
  \/ \E s \in Startable : Enqueue(s)
  \/ \E j \in Ids : \/ Claim(j) \/ ReportModel(j) \/ Dispatch(j) \/ Finish(j) \/ Postpone(j)
                    \/ Raise(j) \/ Expire(j) \/ Control(j)
  \/ \E j \in Ids, f \in Fences : RecordModel(j, f) \/ Settle(j, f) \/ RetryOrStop(j, f) \/ Resolve(j, f)
  \/ Continue \/ ReplaceSource \/ Delete \/ Maintain \/ Clear

Spec == Init /\ [][Next]_historyVars

--------------------------------------------------------------------------------
Calls == [at : {"none", "idle", "sent", "calling", "answered", "settled", "done"},
          permit : {"none", "reserved", "unknown", "settled", "released"}]
JobRows ==
  [stage : MainStages \cup Steps, parent : Nat,
   status : Terminal \cup {"outcome_unknown", "waiting_config", "needs_review", "paused", "running", "pending"},
   task : {"pending", "leased", "outcome_unknown", "succeeded", "failed", "cancelled"},
   fence : 0 .. MaxFence \cup {1}, current : BOOLEAN, superseded : BOOLEAN, cleared : BOOLEAN,
   model : 0 .. MaxFence \cup {1}, calls : [Fences -> Calls]]
TypeOK == /\ jobs \in Seq(JobRows) /\ Len(jobs) <= MaxJobs
          /\ \A j \in Ids : jobs[j].parent < j
          /\ deleted \in BOOLEAN

(* Nothing of the job is under way: no worker holds it and nothing is owed *)
(* for it, whatever the list makes of it.                                  *)
Over(r) == /\ r.status \in Terminal /\ r.task # "leased"
           /\ \A f \in Fences : r.calls[f].permit \in {"none", "settled", "released"}
Operation(r) == {j \in Ids : j = r \/ (jobs[j].parent = r /\ jobs[j].stage \in Steps)}

(* A job marked as cleared is over.  Clearing is decided from three tables *)
(* that late answers go on changing, and the mark must not outlive what it *)
(* was decided on (visibility.py 8-25).                                    *)
HiddenIsOver == \A j \in Ids : jobs[j].cleared => Over(jobs[j])

(* A job belongs to exactly one operation: it is never a row of the list   *)
(* and also a step of another row (task-model.md 113).                     *)
OneOperationEach ==
  \A j \in Ids : \E r \in Roots : j \in Family(r) /\ \A q \in Roots : j \in Family(q) => q = r

(* An operation shows its steps: an uncertain request anywhere in it is    *)
(* what it shows, it is listed as active or in need of attention until all *)
(* of it is over, and never as active afterwards.                          *)
OperationShowsItsSteps ==
  \A r \in Roots :
    LET shown == Shown(r)
        open == \E j \in Operation(r) : ~Over(jobs[j])
    IN  /\ (\E j \in Operation(r) : Unknown(jobs[j])) => shown = "outcome_unknown"
        /\ Group(shown) = "active" => open
        /\ open => Group(shown) \in {"active", "attention"}

(* An operation leaves the list only when all of it is over, its steps     *)
(* included: no step of anyone takes away what is still under way (api.md  *)
(* 121).                                                                   *)
OnlyFinishedOperationsLeave ==
  [][\A r \in Roots : (\E j \in Operation(r) : ~Over(jobs[j])) => Listed(r)']_historyVars

(* Deleting the document neither brings cleared history back nor hides     *)
(* what was still listed (task-model.md 132, library.py 386-395).          *)
DeletionKeepsTheList ==
  [][deleted' # deleted => \A j \in Ids : Visible(jobs[j])' = Visible(jobs[j])]_historyVars

(* The model a job shows is never replaced by that of an earlier attempt,  *)
(* however late its receipt arrives (history.py 136).                      *)
ModelMovesForward ==
  [][\A j \in Ids : jobs'[j].model >= jobs[j].model]_historyVars
================================================================================
