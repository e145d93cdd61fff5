------------------------------ MODULE Publication ------------------------------
(***************************************************************************)
(* Publishing one language edition of a document: artifacts are built on   *)
(* disk by one transaction of a worker and made current by another, API    *)
(* calls move the current pointer meanwhile, an index task per publication *)
(* rewrites the search entries, and deletion and retention remove files.   *)
(*                                                                         *)
(* A publish or rebuild task is named by the artifact it is to build, an   *)
(* index task by the generation it is to index; each has a job of its own. *)
(* A transaction holds the lifecycle lock, so it is one action; what lies  *)
(* between two transactions of a worker thread is interleaved.             *)
(*                                                                         *)
(* Abstracted: file contents (a build is complete or absent, as build      *)
(* renames a staging directory), sealed revisions (one may be published    *)
(* any number of times), legacy artifacts, resuming after maintenance.     *)
(***************************************************************************)
EXTENDS Naturals, Sequences

CONSTANTS
  Artifacts,     \* ids of the artifacts that publish requests ask for
  NoArtifact,    \* edition.current_artifact_id is None
  MaxGeneration, \* bound: edition.generation
  MaxAttempts,   \* at most this many attempts of a task
  AttemptLimit,  \* of each task: attempts at which recovery gives up (3 in the code)
  Events         \* the disturbances of this instance, out of AllEvents

AllEvents == {"draft", "pause", "cancel", "crash", "delete", "retention", "raise"}

Generations == 1 .. MaxGeneration
Work == Artifacts \cup Generations
\* Every claim is an attempt that counts, so a task has that many leases.
Fences == 1 .. MaxAttempts

ASSUME ConstantsAssumption ==
  /\ NoArtifact \notin Artifacts
  /\ Artifacts \cap Nat = {}
  /\ MaxGeneration \in Nat \ {0}
  /\ MaxAttempts \in Nat \ {0}
  /\ AttemptLimit \in [Work -> 1 .. MaxAttempts]
  /\ Events \subseteq AllEvents

VARIABLES
  generation, current, log,          \* Edition and Publication rows
  expected, preview,                 \* payloads of publish and rebuild tasks
  jobStatus, taskStatus, fence, leaseLive, fresh, phase,  \* jobs, tasks, threads
  registered, built,                 \* Artifact rows, artifact directories
  entry,                             \* what the SearchEntry rows were made from
  deleted, cleaned                   \* Document

edition == <<generation, current, log>>
payload == <<expected, preview>>
tasks   == <<jobStatus, taskStatus, fence, leaseLive, fresh>>
files   == <<registered, built>>
doc     == <<deleted, cleaned>>
vars    == <<edition, payload, tasks, phase, files, entry, doc>>

NoEntry == [artifact |-> NoArtifact, generation |-> 0]
NoTask == "none"
JobStates == {NoTask, "pending", "running", "paused", "cancelled", "failed", "succeeded"}
TaskStates == {NoTask, "pending", "leased", "cancelled", "failed", "succeeded"}
Terminal == {"cancelled", "failed", "succeeded"}
\* Where the thread of a lease is between its transactions.
Phases == {"none", "claimed", "built", "raised", "done"}
Operations == {"publish", "rollback", "unpublish"}

Init ==
  /\ generation = 1 /\ current = NoArtifact /\ log = <<>>
  /\ expected = [a \in Artifacts |-> 0]
  /\ preview = [a \in Artifacts |-> FALSE]
  /\ jobStatus = [w \in Work |-> NoTask]
  /\ taskStatus = [w \in Work |-> NoTask]
  /\ fence = [w \in Work |-> 0]
  /\ leaseLive = [w \in Work |-> FALSE]
  /\ fresh = [w \in Work |-> FALSE]
  /\ phase = [w \in Work |-> [f \in Fences |-> "none"]]
  /\ registered = {} /\ built = {}
  /\ entry = NoEntry
  /\ deleted = FALSE /\ cleaned = FALSE

-----------------------------------------------------------------------------
(* What the transactions share                                              *)

\* assert_current.  fresh[w]: the control epoch has not moved since the last
\* lease of w was claimed.
Current(w, f) ==
  /\ ~deleted
  /\ f = fence[w] /\ taskStatus[w] = "leased" /\ leaseLive[w]
  /\ fresh[w] /\ jobStatus[w] = "running"

Goto(w, f, p) == phase' = [phase EXCEPT ![w][f] = p]
SetJob(w, s) == jobStatus' = [jobStatus EXCEPT ![w] = s]
SetTask(w, s) == taskStatus' = [taskStatus EXCEPT ![w] = s]
Finish(w, s) == SetJob(w, s) /\ SetTask(w, s)

\* Mutant: only a publication queues an index task, a rollback does not.
IndexQueuedOnPublish(a, op) == op = "publish"

IndexQueued(a, op) == a # NoArtifact

\* Mutant: withdrawing the edition keeps its generation.
NextGenerationIfPublished(a) == IF a = NoArtifact THEN generation ELSE generation + 1

NextGeneration(a) == generation + 1

\* commit_publication: the pointer moves, the generation grows, the event is
\* logged and the index task of the new generation is queued.  status is the
\* state of the tasks as the same transaction leaves them otherwise.
CommitPublication(a, op, job, task) ==
  LET g == NextGeneration(a)
      queued(status) == IF IndexQueued(a, op) THEN [status EXCEPT ![g] = "pending"] ELSE status
  IN
  /\ generation < MaxGeneration
  /\ generation' = g
  /\ current' = a
  /\ log' = Append(log, [artifact |-> a, generation |-> g, operation |-> op])
  /\ jobStatus' = queued(job)
  /\ taskStatus' = queued(task)

-----------------------------------------------------------------------------
(* The queue, as UnitQueue has it, for tasks without paid requests          *)

Claim(w) ==
  /\ ~deleted
  /\ taskStatus[w] = "pending" /\ jobStatus[w] \in {"pending", "running"}
  /\ fence[w] < AttemptLimit[w]
  /\ fence' = [fence EXCEPT ![w] = @ + 1]
  /\ SetTask(w, "leased") /\ SetJob(w, "running")
  /\ leaseLive' = [leaseLive EXCEPT ![w] = TRUE]
  /\ fresh' = [fresh EXCEPT ![w] = TRUE]
  /\ Goto(w, fence[w] + 1, "claimed")
  /\ UNCHANGED <<edition, payload, files, entry, doc>>

LeaseExpires(w) ==
  /\ taskStatus[w] = "leased" /\ leaseLive[w]
  /\ leaseLive' = [leaseLive EXCEPT ![w] = FALSE]
  /\ UNCHANGED <<edition, payload, jobStatus, taskStatus, fence, fresh, phase, files, entry, doc>>

\* Mutant: the recovery writes the attempt's word for the task.
RecoveredLongName(w) ==
  IF jobStatus[w] = "cancelled" THEN SetTask(w, "cancelled") /\ UNCHANGED jobStatus
  ELSE IF fence[w] >= AttemptLimit[w] THEN Finish(w, "known_failed")
  ELSE /\ SetTask(w, "pending")
       /\ SetJob(w, IF jobStatus[w] = "paused" THEN "paused" ELSE "pending")

\* recover_expired: what becomes of an expired task and its job.
Recovered(w) ==
  IF jobStatus[w] = "cancelled" THEN SetTask(w, "cancelled") /\ UNCHANGED jobStatus
  ELSE IF fence[w] >= AttemptLimit[w] THEN Finish(w, "failed")
  ELSE /\ SetTask(w, "pending")
       /\ SetJob(w, IF jobStatus[w] = "paused" THEN "paused" ELSE "pending")

RecoverExpired(w) ==
  /\ taskStatus[w] = "leased" /\ ~leaseLive[w]
  /\ Recovered(w)
  /\ UNCHANGED <<edition, payload, fence, leaseLive, fresh, phase, files, entry, doc>>

-----------------------------------------------------------------------------
(* The worker thread of lease (w, f)                                        *)

\* Mutant: the build runs before the lease is checked.
MayBuildAlways(a, f) == TRUE

MayBuild(a, f) == Current(a, f)

\* publish, first transaction: build the directory, or verify the one an
\* earlier lease of the task left.
Build(a, f) ==
  /\ phase[a][f] = "claimed"
  /\ IF MayBuild(a, f)
       THEN built' = built \cup {a} /\ Goto(a, f, "built")
       ELSE UNCHANGED built /\ Goto(a, f, "raised")
  /\ UNCHANGED <<edition, payload, tasks, registered, entry, doc>>

\* Mutant: the generation was compared when the request was made, not again.
ExpectedAtRequest(a) == TRUE

\* The compare-and-set of commit_publication.
ExpectedHolds(a) == generation = expected[a]

\* publish, second transaction: register the artifact and, unless it is a
\* preview, make it current; all or nothing.
PublishBuilt(a, f) ==
  /\ phase[a][f] = "built"
  /\ IF Current(a, f) /\ (preview[a] \/ ExpectedHolds(a))
       THEN LET job  == [jobStatus EXCEPT ![a] = "succeeded"]
                task == [taskStatus EXCEPT ![a] = "succeeded"]
            IN /\ registered' = registered \cup {a}
               /\ Goto(a, f, "done")
               /\ IF preview[a]
                    THEN /\ jobStatus' = job /\ taskStatus' = task
                         /\ UNCHANGED <<generation, current, log>>
                    ELSE CommitPublication(a, "publish", job, task)
       ELSE /\ Goto(a, f, "raised")
            /\ UNCHANGED <<generation, current, log, jobStatus, taskStatus, registered>>
  /\ UNCHANGED <<payload, fence, leaseLive, fresh, built, entry, doc>>

StillWanted(g) == generation = g /\ current # NoArtifact

\* update_index: one transaction; a task of an older generation does nothing.
UpdateIndex(g, f) ==
  /\ phase[g][f] = "claimed"
  /\ IF Current(g, f)
       THEN /\ Finish(g, "succeeded")
            /\ Goto(g, f, "done")
            /\ entry' = IF StillWanted(g)
                          THEN [artifact |-> current, generation |-> generation]
                          ELSE entry
       ELSE /\ Goto(g, f, "raised")
            /\ UNCHANGED <<jobStatus, taskStatus, entry>>
  /\ UNCHANGED <<edition, payload, fence, leaseLive, fresh, files, doc>>

\* The exception handler of execute: only the last lease may fail its task.
HandleException(w, f) ==
  /\ phase[w][f] = "raised"
  /\ IF f = fence[w] /\ taskStatus[w] = "leased" /\ fresh[w]
       THEN Finish(w, "failed")
       ELSE UNCHANGED <<jobStatus, taskStatus>>
  /\ Goto(w, f, "done")
  /\ UNCHANGED <<edition, payload, fence, leaseLive, fresh, files, entry, doc>>

\* A build, a file read or a transaction may fail.
Raise(w, f) ==
  /\ "raise" \in Events
  /\ phase[w][f] \in {"claimed", "built"}
  /\ Goto(w, f, "raised")
  /\ UNCHANGED <<edition, payload, tasks, files, entry, doc>>

Dies(w, f) ==
  /\ "crash" \in Events
  /\ phase[w][f] \in {"claimed", "built", "raised"}
  /\ Goto(w, f, "done")
  /\ UNCHANGED <<edition, payload, tasks, files, entry, doc>>

-----------------------------------------------------------------------------
(* The API and the other transactions that move the edition                 *)

\* publish and rebuild: accepted only for the generation the caller has seen.
\* The automatic publication of a finished translation asks in the same way.
RequestPublish(a, p) ==
  /\ ~deleted
  /\ taskStatus[a] = NoTask
  /\ expected' = [expected EXCEPT ![a] = generation]
  /\ preview' = [preview EXCEPT ![a] = p]
  /\ Finish(a, "pending")
  /\ UNCHANGED <<edition, fence, leaseLive, fresh, phase, files, entry, doc>>

\* Mutant: any artifact whose files verify may be returned to.
VerifiedFiles(a) == a \in built

\* verify_artifact, of a row of the edition.
Verified(a) == a \in registered /\ a \in built

\* rollback to any registered artifact whose files verify.
Rollback(a) ==
  /\ ~deleted
  /\ Verified(a)
  /\ CommitPublication(a, "rollback", jobStatus, taskStatus)
  /\ UNCHANGED <<payload, fence, leaseLive, fresh, phase, files, entry, doc>>

Unpublish ==
  /\ ~deleted
  /\ CommitPublication(NoArtifact, "unpublish", jobStatus, taskStatus)
  /\ UNCHANGED <<payload, fence, leaseLive, fresh, phase, files, entry, doc>>

\* create_draft, of every new translation, continuation or manual draft: the
\* generation of the edition grows with it.
NewDraft ==
  /\ "draft" \in Events /\ ~deleted
  /\ generation < MaxGeneration
  /\ generation' = generation + 1
  /\ UNCHANGED <<current, log, payload, tasks, phase, files, entry, doc>>

Control(w, s) ==
  /\ ~deleted
  /\ jobStatus[w] \notin Terminal \cup {NoTask}
  /\ SetJob(w, s)
  /\ fresh' = [fresh EXCEPT ![w] = FALSE]
  /\ UNCHANGED <<edition, payload, taskStatus, fence, leaseLive, phase, files, entry, doc>>

Pause(w) == "pause" \in Events /\ Control(w, "paused")
Cancel(w) == "cancel" \in Events /\ Control(w, "cancelled")

Resume(w) ==
  /\ ~deleted
  /\ jobStatus[w] = "paused"
  /\ SetJob(w, "pending")
  /\ UNCHANGED <<edition, payload, taskStatus, fence, leaseLive, fresh, phase, files, entry, doc>>

DeleteDocument ==
  /\ "delete" \in Events /\ ~deleted
  /\ deleted' = TRUE
  /\ fresh' = [w \in Work |-> FALSE]
  /\ jobStatus' = [w \in Work |->
       IF jobStatus[w] \in Terminal \cup {NoTask} THEN jobStatus[w] ELSE "cancelled"]
  /\ UNCHANGED <<edition, payload, taskStatus, fence, leaseLive, phase, files, entry, cleaned>>

\* cleanup_document: rows, search entries and the directory of the document go.
Cleanup ==
  /\ deleted /\ ~cleaned
  /\ cleaned' = TRUE
  /\ registered' = {} /\ built' = {}
  /\ entry' = NoEntry
  /\ current' = NoArtifact /\ log' = <<>>
  /\ taskStatus' = [w \in Work |->
       IF taskStatus[w] \in {NoTask, "succeeded", "failed"} THEN taskStatus[w] ELSE "cancelled"]
  /\ UNCHANGED <<generation, payload, jobStatus, fence, leaseLive, fresh, phase, deleted>>

\* Mutant: only the artifacts that are current are kept.
KeptIfCurrent == {current}

\* Retention keeps every registered artifact, current or not.
Kept == registered

Resumable == \E a \in Artifacts : taskStatus[a] \in {"pending", "leased"}

\* retention_locked, under the exclusive maintenance lock that waits for every
\* thread inside execute: directories no row names and no task may still use.
Retention(a) ==
  /\ "retention" \in Events
  /\ \A w \in Work, f \in Fences : phase[w][f] \in {"none", "claimed", "done"}
  /\ ~Resumable
  /\ a \in built \ Kept
  /\ built' = built \ {a}
  /\ UNCHANGED <<edition, payload, tasks, phase, registered, entry, doc>>

-----------------------------------------------------------------------------
ThreadStep(w, f) ==
  \/ w \in Artifacts /\ (Build(w, f) \/ PublishBuilt(w, f))
  \/ w \in Generations /\ UpdateIndex(w, f)
  \/ HandleException(w, f)

Api ==
  \/ \E a \in Artifacts, p \in BOOLEAN : RequestPublish(a, p)
  \/ \E a \in Artifacts : Rollback(a)
  \/ Unpublish \/ NewDraft \/ DeleteDocument
  \/ \E w \in Work : Pause(w) \/ Cancel(w) \/ Resume(w)

Next ==
  \/ \E w \in Work : Claim(w) \/ LeaseExpires(w) \/ RecoverExpired(w)
  \/ \E w \in Work, f \in Fences : ThreadStep(w, f) \/ Raise(w, f) \/ Dies(w, f)
  \/ Api
  \/ Cleanup \/ \E a \in Artifacts : Retention(a)

Spec == Init /\ [][Next]_vars

\* The worker loop: threads that live go on, free workers claim, expired
\* leases are recovered before every claim, leases of dead threads run out.
LeaseOfDoneExpires(w) ==
  fence[w] > 0 /\ phase[w][fence[w]] = "done" /\ LeaseExpires(w)

Fairness ==
  /\ \A w \in Work : WF_vars(Claim(w)) /\ WF_vars(LeaseOfDoneExpires(w)) /\ WF_vars(RecoverExpired(w))
  /\ \A w \in Work, f \in Fences : WF_vars(ThreadStep(w, f))

FairSpec == Spec /\ Fairness

-----------------------------------------------------------------------------
(* Properties                                                               *)

\* Every variable keeps the values its column can hold.
TypeOK ==
  /\ generation \in Generations
  /\ current \in Artifacts \cup {NoArtifact}
  /\ log \in Seq([artifact : Artifacts \cup {NoArtifact}, generation : Generations, operation : Operations])
  /\ expected \in [Artifacts -> 0 .. MaxGeneration]
  /\ preview \in [Artifacts -> BOOLEAN]
  /\ jobStatus \in [Work -> JobStates]
  /\ taskStatus \in [Work -> TaskStates]
  /\ fence \in [Work -> 0 .. MaxAttempts]
  /\ leaseLive \in [Work -> BOOLEAN]
  /\ fresh \in [Work -> BOOLEAN]
  /\ phase \in [Work -> [Fences -> Phases]]
  /\ registered \subseteq Artifacts
  /\ built \subseteq Artifacts
  /\ entry \in [artifact : Artifacts \cup {NoArtifact}, generation : 0 .. MaxGeneration]
  /\ deleted \in BOOLEAN /\ cleaned \in BOOLEAN

\* Every registered artifact, the one readers are sent to among them, is
\* complete on disk: a build that crashed, lost its lease or lost the
\* compare-and-set registers nothing, and retention never takes what a user
\* may still roll back to.
RegisteredIsOnDisk ==
  /\ registered \subseteq built
  /\ current # NoArtifact => current \in registered

\* A publication that was requested before a user rolled the edition back or
\* withdrew it never undoes that decision, however late its worker commits.
UserDecisionsStand ==
  \A i, k \in DOMAIN log :
    /\ i < k
    /\ log[i].operation \in {"rollback", "unpublish"}
    /\ log[k].operation = "publish"
    => expected[log[k].artifact] >= log[i].generation

\* A search row of the edition's generation shows the artifact readers are
\* sent to: after a rollback, a withdrawal or a late index task, no row of a
\* text that was replaced passes the filter of the search.
RowsOfGenerationAreCurrent ==
  ~deleted /\ entry.generation = generation => entry.artifact = current

\* Once the document is cleaned up nothing of it comes back: a worker that was
\* between its two transactions, or lost its lease before them, writes neither
\* files nor rows nor search entries.
NothingOutlivesCleanup ==
  cleaned => built = {} /\ registered = {} /\ log = <<>> /\ entry = NoEntry

\* The edition as its readers and publishers see it: the artifacts they can be
\* sent to, and what the filter of the search lets through.
Readers == INSTANCE Edition WITH
  offered <- registered \cap built,
  seen    <- expected,
  found   <- IF entry.generation = generation THEN entry.artifact ELSE NoArtifact,
  closed  <- deleted

\* Every behaviour of the publication, seen so, is one Edition allows: its two
\* transactions, with a directory between them, change the edition in one step.
ImplementsEdition == Readers!Spec

\* The filter of GET /search over the entries.
Searchable == entry.artifact = current /\ entry.generation = generation

\* The generation of the last publication.
PublishedGeneration == log[Len(log)].generation

\* Every publication reaches the search: unless the edition moves on, the
\* document is deleted or the index job is stopped or fails for good, what
\* readers are sent to is found by the search in the end.
SearchCatchesUp ==
  \A g \in Generations :
    (generation = g /\ current # NoArtifact /\ PublishedGeneration = g)
      ~> \/ generation = g /\ Searchable
         \/ generation # g \/ deleted
         \/ jobStatus[g] \in {"paused", "cancelled", "failed"}

\* docs/task-model.md:36 "switching the current publication and updating
\* search": once the index job of the current publication has succeeded, what
\* readers are sent to is found by the search.
PublishedIsSearchable ==
  (current # NoArtifact /\ ~deleted /\ jobStatus[PublishedGeneration] = "succeeded") => Searchable
================================================================================
