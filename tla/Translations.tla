------------------------------ MODULE Translations ------------------------------
(***************************************************************************)
(* The translation jobs of one document in one language: how they are      *)
(* started, confirmed for a new source, continued in a new draft, paused   *)
(* and resolved, how each plans its work, and how the paper is analysed    *)
(* once before its units are planned.                                      *)
(*                                                                         *)
(* A job has one live task at a time: plan, prepare, fan out, translate.   *)
(* The units of a job are one task here and a worker ends with its lease;  *)
(* UnitQueue has siblings and late workers, and counts attempts: here any  *)
(* attempt may have been the last one allowed.  waiting_budget is treated  *)
(* like waiting_config by everything modelled here.                        *)
(***************************************************************************)
EXTENDS Naturals, Sequences, FiniteSets

CONSTANTS
  MaxJobs,      \* bound: jobs ever created
  MaxSources,   \* bound: source revisions ever sealed
  MaxDrafts,    \* bound: drafts ever created
  Workers,      \* bound: leases at a time
  Modes         \* preparation of a job: "off", "extractive" or "analysed" (provider, local)

TranslationsAssumption ==
  /\ MaxJobs \in Nat /\ MaxSources \in Nat \ {0} /\ MaxDrafts \in Nat /\ Workers \in Nat \ {0}
  /\ Modes \subseteq {"off", "extractive", "analysed"}

VARIABLES
  current,   \* current_source_id of the document
  draft,     \* current_draft_id of the edition, 0 for none
  drafts,    \* source, pack of its profile (a job), all blocks translated
  jobs

transVars == <<current, draft, drafts, jobs>>

Terminal == {"cancelled", "failed", "done"}
Ids == 1 .. Len(jobs)
NoPack == 0

(* fresh: the lease was taken under the job's present control epoch.  The  *)
(* permit is the last attempt's, "none" again when released or settled;    *)
(* accepted: an earlier one is unknown and its risk was accepted.          *)
NewJob(kind, d, mode, how) ==
  [kind |-> kind, draft |-> d, src |-> drafts'[d].src, mode |-> mode, how |-> how,
   status |-> "pending", phase |-> "plan", task |-> "pending", fresh |-> FALSE,
   at |-> "idle", permit |-> "none", checkpoint |-> FALSE,
   pack |-> NoPack, candidate |-> NoPack, planned |-> NoPack, accepted |-> FALSE]

--------------------------------------------------------------------------------
(* The API. *)
Create(kind, mode, how) ==
  /\ Len(jobs) < MaxJobs
  /\ jobs' = Append(jobs, NewJob(kind, draft', mode, how))

CreateDraft(src, done) ==
  /\ Len(drafts) < MaxDrafts
  /\ drafts' = Append(drafts, [src |-> src, pack |-> NoPack, done |-> done])
  /\ draft' = Len(drafts) + 1

TranslateEdition(mode) ==
  /\ draft = 0
  /\ CreateDraft(current, FALSE)
  /\ Create("translate", mode, "edition")
  /\ UNCHANGED current

(* confirm and advance_parse: a new source revision with a new draft.      *)
Confirm(mode) ==
  /\ current < MaxSources
  /\ current' = current + 1
  /\ CreateDraft(current + 1, FALSE)
  /\ Create("translate", mode, "confirm")

(* A new draft of a sealed revision, without a job. *)
FromRevision(d) ==
  /\ CreateDraft(drafts[d].src, drafts[d].done)
  /\ UNCHANGED <<current, jobs>>

CreateCandidate(mode) ==
  /\ draft # 0 /\ drafts[draft].src = current
  /\ UNCHANGED <<current, draft, drafts>>
  /\ Create("candidate", mode, "candidate")

OfTheDraft(j) == jobs[j].draft = draft   \* mutant: work for an earlier draft is not asked for
Previous(j) == jobs[j].src = drafts[draft].src

Quiet(j) ==
  /\ jobs[j].permit \notin {"unknown", "reserved"} /\ ~jobs[j].accepted
  /\ jobs[j].status \notin {"pending", "running", "paused", "outcome_unknown"}
  /\ jobs[j].task # "leased"

Closed(j) == [jobs[j] EXCEPT !.status = IF Previous(j) /\ @ = "waiting_config" THEN "cancelled" ELSE @]

(* Segments of the old draft are copied, so what is done stays done.       *)
ContinueTranslation(mode) ==
  /\ draft # 0 /\ drafts[draft].src = current
  /\ \A j \in Ids : Previous(j) => Quiet(j)
  /\ CreateDraft(current, drafts[draft].done)
  /\ Len(jobs) < MaxJobs
  /\ jobs' = Append([j \in Ids |-> Closed(j)], NewJob("translate", draft', mode, "continue"))
  /\ UNCHANGED current

Lease(job) == [job EXCEPT !.fresh = @ /\ job.task = "leased"]

Change(j, job) ==
  /\ jobs' = [jobs EXCEPT ![j] = Lease(job)]
  /\ UNCHANGED <<current, draft, drafts>>

Pause(j) ==
  /\ jobs[j].status \notin Terminal
  /\ Change(j, [jobs[j] EXCEPT !.status = "paused", !.fresh = FALSE])

Cancel(j) ==
  /\ jobs[j].status \notin Terminal
  /\ Change(j, [jobs[j] EXCEPT !.status = "cancelled", !.fresh = FALSE])

Resume(j) ==
  /\ jobs[j].status \in {"paused", "waiting_config"}
  /\ jobs[j].permit # "unknown" /\ ~jobs[j].accepted
  /\ Change(j, [jobs[j] EXCEPT !.status = "pending"])

Stop(j) ==
  /\ jobs[j].permit = "unknown"
  /\ Change(j, [jobs[j] EXCEPT !.status = "cancelled", !.fresh = FALSE])

(* The old permit stays unknown, the task gets a new one. *)
RetryAcceptRisk(j) ==
  /\ jobs[j].permit = "unknown"
  /\ jobs[j].status = "outcome_unknown" /\ jobs[j].task = "outcome_unknown"
  /\ Change(j, [jobs[j] EXCEPT !.status = "pending", !.task = "pending", !.permit = "none", !.accepted = TRUE])

--------------------------------------------------------------------------------
(* Workers. *)
Claim(j) ==
  /\ jobs[j].status \in {"pending", "running"} /\ jobs[j].task = "pending"
  /\ Cardinality({i \in Ids : jobs[i].task = "leased"}) < Workers
  /\ Change(j, [jobs[j] EXCEPT !.status = "running", !.task = "leased", !.fresh = TRUE,
                               !.at = "claimed",
                               !.permit = IF @ = "unknown" THEN @ ELSE "none"])

Holds(j) == jobs[j].task = "leased" /\ jobs[j].fresh
Begins(j) == Holds(j) /\ jobs[j].at = "claimed"

(* SOURCE_STALE ends the task and the job in the worker's handler. *)
SourceStale(j) ==
  /\ Begins(j) /\ jobs[j].src # current
  /\ Change(j, [jobs[j] EXCEPT !.status = "failed", !.task = "failed", !.at = "idle"])

Planned(job, pack) ==
  [job EXCEPT !.phase = "translate", !.task = "pending", !.at = "idle", !.permit = "none",
              !.pack = pack, !.planned = pack]

(* save_preparation, beside the job's payload: the draft or the candidate. *)
DraftOnly(j) ==   \* mutant: also a candidate's pack goes to the draft
  drafts' = [drafts EXCEPT ![jobs[j].draft].pack = j]
SavePack(j) ==
  drafts' = IF jobs[j].kind = "translate" THEN [drafts EXCEPT ![jobs[j].draft].pack = j] ELSE drafts
Saved(j, job) == IF job.kind = "candidate" THEN [job EXCEPT !.candidate = j] ELSE job

Finished(job) == [job EXCEPT !.status = "done", !.task = "succeeded", !.at = "idle"]
NothingToDo(j) == jobs[j].kind = "translate" /\ drafts[jobs[j].draft].done

(* plan_tasks with a pack or without preparation. *)
Plan(j) ==
  /\ Begins(j) /\ jobs[j].phase \in {"plan", "fanout"} /\ jobs[j].src = current
  /\ jobs[j].mode = "off" \/ jobs[j].pack # NoPack \/ NothingToDo(j)
  /\ Change(j, IF NothingToDo(j) THEN Finished(jobs[j]) ELSE Planned(jobs[j], jobs[j].pack))

(* Extracted without a model: the mode, or an analysis that cannot be      *)
(* asked for because the request is too large or there is no evidence.     *)
PlanExtracted(j) ==
  /\ Begins(j) /\ jobs[j].phase \in {"plan", "fanout"} /\ jobs[j].src = current
  /\ jobs[j].mode # "off" /\ jobs[j].pack = NoPack /\ ~NothingToDo(j)
  /\ SavePack(j)
  /\ jobs' = [jobs EXCEPT ![j] = Lease(Saved(j, Planned(@, j)))]
  /\ UNCHANGED <<current, draft>>

NotDeferred(job) == Planned(job, NoPack)   \* mutant: planning goes on beside the analysis
Deferred(job) == [job EXCEPT !.phase = "prepare", !.task = "pending", !.at = "idle"]

SchedulePreparation(j) ==
  /\ Begins(j) /\ jobs[j].phase \in {"plan", "fanout"} /\ jobs[j].src = current
  /\ jobs[j].mode = "analysed" /\ jobs[j].pack = NoPack /\ ~NothingToDo(j)
  /\ Change(j, Deferred(jobs[j]))

(* wait_without_dispatch: nothing was sent.                                *)
WaitWithoutDispatch(j) ==
  /\ Begins(j) /\ jobs[j].phase \in {"prepare", "translate"} /\ jobs[j].src = current
  /\ \E status \in {"pending", "waiting_config"} :
       Change(j, [jobs[j] EXCEPT !.task = "pending", !.at = "idle", !.status = status])

Authorize(j) ==
  /\ Begins(j) /\ jobs[j].phase \in {"prepare", "translate"} /\ jobs[j].src = current
  /\ ~jobs[j].checkpoint
  /\ Change(j, [jobs[j] EXCEPT !.permit = "reserved", !.at = "sent"])

(* Money first; the task follows while the control epoch is the same.      *)
Outcome(j, permit, changed) ==
  /\ jobs[j].at \in {"sent", "settled"}
  /\ Change(j, IF Holds(j) THEN [changed EXCEPT !.permit = permit, !.at = "idle"]
               ELSE [jobs[j] EXCEPT !.permit = permit, !.at = "idle"])

OutcomeUnknown(j) ==
  /\ jobs[j].at = "sent"
  /\ Outcome(j, "unknown", [jobs[j] EXCEPT !.status = "outcome_unknown", !.task = "outcome_unknown"])

(* A preparation that fails fails its job; translation units are finalized *)
(* with what there is.                                                     *)
GivenUp(job) ==
  [job EXCEPT !.task = "failed",
              !.status = IF job.phase = "prepare" THEN "failed" ELSE IF job.accepted THEN "outcome_unknown" ELSE "done"]

NotSent(j) ==
  /\ jobs[j].at = "sent"
  /\ \/ Outcome(j, "none", [jobs[j] EXCEPT !.status = "pending", !.task = "pending"])
     \/ Outcome(j, "none", GivenUp(jobs[j]))

ConfigRefused(j) ==
  /\ jobs[j].at \in {"sent", "settled"}
  /\ Outcome(j, "none", [jobs[j] EXCEPT !.status = "waiting_config", !.task = "failed"])

Settle(j) ==
  /\ jobs[j].at = "sent"
  /\ Change(j, [jobs[j] EXCEPT !.permit = "none", !.at = "settled"])

(* An unusable text of a unit; an unusable analysis is a warning.          *)
Unusable(j) ==
  /\ jobs[j].at = "settled" /\ jobs[j].phase = "translate"
  /\ Outcome(j, "none", GivenUp(jobs[j]))

Store(j) ==
  /\ jobs[j].at = "settled"
  /\ Change(j, [jobs[j] EXCEPT !.checkpoint = TRUE, !.at = "stored"])

Replay(j) == Begins(j) /\ jobs[j].checkpoint /\ jobs[j].phase \in {"prepare", "translate"}
Delivers(j) == Holds(j) /\ jobs[j].src = current /\ (jobs[j].at = "stored" \/ Replay(j))

CommitPreparation(j) ==
  /\ Delivers(j) /\ jobs[j].phase = "prepare"
  /\ SavePack(j)
  /\ jobs' = [jobs EXCEPT ![j] = Lease(Saved(j, [@ EXCEPT !.pack = j, !.phase = "fanout",
                     !.task = "pending", !.at = "idle", !.checkpoint = FALSE, !.permit = "none"]))]
  /\ UNCHANGED <<current, draft>>

(* finalize_translation finds a permit whose risk was accepted unknown.    *)
CommitUnits(j) ==
  /\ Delivers(j) /\ jobs[j].phase = "translate"
  /\ drafts' = IF jobs[j].kind = "translate" THEN [drafts EXCEPT ![jobs[j].draft].done = TRUE] ELSE drafts
  /\ jobs' = [jobs EXCEPT ![j] = [Lease(Finished(@)) EXCEPT !.status = IF jobs[j].accepted THEN "outcome_unknown" ELSE "done"]]
  /\ UNCHANGED <<current, draft>>

(* The worker is gone, or stopped by a changed epoch; recover_expired.     *)
Recovered(j) ==
  LET job == jobs[j] IN
  CASE job.permit \in {"reserved", "unknown"} -> {<<"outcome_unknown", "outcome_unknown">>}
    [] job.permit \notin {"reserved", "unknown"} /\ job.status = "cancelled" -> {<<"cancelled", "cancelled">>}
    [] OTHER -> {<<"pending", IF job.status = "paused" THEN "paused" ELSE "pending">>}
                  \cup IF job.checkpoint THEN {} ELSE {<<"failed", "failed">>}

LeaseLost(j) ==
  /\ jobs[j].task = "leased"
  /\ \E r \in Recovered(j) :
       Change(j, [jobs[j] EXCEPT !.fresh = FALSE, !.at = "idle", !.task = r[1], !.status = r[2],
                                 !.permit = IF @ \in {"reserved", "unknown"} THEN "unknown" ELSE @])

Init == current = 1 /\ draft = 0 /\ drafts = <<>> /\ jobs = <<>>

Next ==
  \/ \E mode \in Modes :
       TranslateEdition(mode) \/ Confirm(mode) \/ CreateCandidate(mode) \/ ContinueTranslation(mode)
  \/ \E d \in DOMAIN drafts : FromRevision(d)
  \/ \E j \in Ids :
       \/ Pause(j) \/ Cancel(j) \/ Resume(j) \/ Stop(j) \/ RetryAcceptRisk(j)
       \/ Claim(j) \/ SourceStale(j) \/ Plan(j) \/ PlanExtracted(j) \/ SchedulePreparation(j)
       \/ WaitWithoutDispatch(j) \/ Authorize(j) \/ OutcomeUnknown(j) \/ NotSent(j) \/ ConfigRefused(j)
       \/ Settle(j) \/ Unusable(j) \/ Store(j) \/ CommitPreparation(j) \/ CommitUnits(j) \/ LeaseLost(j)

Spec == Init /\ [][Next]_transVars

--------------------------------------------------------------------------------
(* Every variable has a value it can hold. *)
TypeOK ==
  /\ current \in 1..MaxSources /\ draft \in 0..Len(drafts) /\ Len(jobs) <= MaxJobs
  /\ \A d \in DOMAIN drafts : drafts[d] \in [src : 1..MaxSources, pack : 0..MaxJobs, done : BOOLEAN]
  /\ \A j \in Ids : jobs[j] \in
       [kind : {"translate", "candidate"}, draft : DOMAIN drafts, src : 1..MaxSources, mode : Modes,
        how : {"edition", "confirm", "candidate", "continue"},
        status : Terminal \cup {"pending", "running", "paused", "waiting_config", "outcome_unknown"},
        phase : {"plan", "prepare", "fanout", "translate"},
        task : {"pending", "leased", "succeeded", "failed", "cancelled", "outcome_unknown"},
        fresh : BOOLEAN,
        at : {"idle", "claimed", "sent", "settled", "stored"},
        permit : {"none", "reserved", "unknown"}, checkpoint : BOOLEAN,
        pack : 0..MaxJobs, candidate : 0..MaxJobs, planned : 0..MaxJobs, accepted : BOOLEAN]

(* api/continuation.py: "New history must never evade unknown permits."    *)
(* Once a translation was continued, no earlier job for that source has a  *)
(* request in flight or of unknown outcome, and none gets one any more,    *)
(* whatever users and workers still do to it.                              *)
ContinuedHistoryIsClosed ==
  \A j \in Ids : jobs[j].how = "continue" =>
    \A i \in 1 .. j - 1 : jobs[i].src = jobs[j].src =>
      /\ jobs[i].permit \notin {"unknown", "reserved"} /\ ~jobs[i].accepted
      /\ jobs[i].status \in Terminal /\ jobs[i].task # "leased"

(* preparation/execution.py: units are planned with the pack of their own  *)
(* job, which the draft they are for, or their candidate, keeps unchanged; *)
(* a pack of a candidate never becomes the draft's.                        *)
UnitsUseTheirPack ==
  \A j \in Ids : jobs[j].phase = "translate" /\ jobs[j].mode # "off" =>
    /\ jobs[j].planned = j /\ jobs[j].pack = j
    /\ IF jobs[j].kind = "translate" THEN drafts[jobs[j].draft].pack = j
       ELSE jobs[j].candidate = j
================================================================================
