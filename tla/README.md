# Verification of the paper translation system

TLA+ models, model-checking runs and proofs for the program in this repository: a
self-hosted library that parses scientific PDFs, translates them with paid or local
models and publishes bilingual readers. The models are translated from the Python
source (`src/src`), read with its tests (`src/tests`) and documentation (`src/docs`).
Paths below are relative to `src/src` unless they start with `docs/` or `tests/`.

## 1. The system

### Parts, state and operations

| Part | Code | State | Operations |
| --- | --- | --- | --- |
| HTTP application | `apps/api/*.py` | rows in PostgreSQL; no state of its own | uploads, imports, confirmations, job control (`pause`, `resume`, `cancel`, `resolve_attempt`), drafts, publication, search, deletion |
| Task list | `packages/jobs/hierarchy.py`, `visibility.py`, `history.py`, `apps/api/workflow.py` | `history_cleared_generation` and `actual_model` of a job; the rest is computed from jobs, tasks and permits | list, clear the history |
| Job queue | `packages/jobs/queue.py` | `Job` (status, control epoch), `Task` (status, fence, attempts, lease), `Attempt` | `claim`, `renew`, `assert_current`, `finish`, `recover_expired` |
| Worker | `workers/main.py` | threads, each with a lease | claim loop, heartbeat, `execute` and its exception handler, `publish`, `export`, `parse_spool` |
| Translation execution | `packages/translation/execution.py` | evidence of attempts, segments of the draft | plan, snapshot, authorize, send, settle, checkpoint, commit, `retry_or_stop`, `wait_without_dispatch` |
| Billing ledger | `packages/billing/ledger.py`, `dispatch.py`, `price.py` | `Permit` (state, reserved and actual cost), `dispatch_disabled` | `authorize`, `mark_unknown`, `release_unsent`, `settle`, enabling dispatch |
| Parser | `workers/parser/*`, `packages/parsers/*` | spool directories shared by files only | request, progress, result, cancel marker; regions become the blocks of a source |
| Reader | `packages/ir/*`, `packages/publisher/reader_v10.py` to `reader_v16.py`, `templates/reader-v16.js` | the page; its open panels | validation of a source, detection of original text, rendering, panels of references |
| Source revisions | `packages/source_revisions/*`, `editorial/source_sealing.py`, `apps/api/sources.py` | `SourceDraft`, `SourceRevision` | corrections, replacement, sealing |
| Drafts and review | `packages/editorial/drafts.py`, `apps/api/editorial.py`, `candidates.py` | `Draft`, `SegmentVersion`, `QA`, `ReviewRecord`, `Candidate` | edit, validate, review, seal, accept a candidate |
| Publication | `packages/publisher/history.py`, `apps/api/artifacts.py`, `workers/main.py` | `Edition` (generation, current artifact), `Artifact`, `Publication`, directories | publish, rebuild, rollback, unpublish |
| Search index | `packages/search/__init__.py`, `apps/api/catalog.py` | `SearchEntry` | `update_index`, `search` |
| Metadata lookup | `packages/metadata/*` | `SourceAsset` metadata generation | enqueue, lookup, commit |
| Translation planning | `packages/translation/planner.py`, `contract.py`, `cache.py` | units of a draft; `TranslationCache` | blocks to units, units to the wire, answers to blocks, repair of a unit |
| Preparation | `packages/preparation/*` | preparation packs in job JSON | collection, analysis, terms |
| Admission | `packages/resources/*` | none; computed from leased tasks | `admission` at claim |
| Local models | `packages/local_models/*` | `InferenceGate`, prepared models | inference, preparation, unload |
| Providers | `packages/providers/*` | versioned settings files | adapters, connection test |
| Privacy and deletion | `packages/privacy/__init__.py`, `apps/api/library.py` | tombstone `Document.deleted_at` | `delete_doc`, `cleanup_document` |
| Maintenance | `packages/maintenance/*` | maintenance flag, backups | drain, `uncertain_inflight`, backup, restore, retention |
| Commands | `apps/api/common.py` | `Idempotency` receipts | every write of the API |

### How they interact

Parts communicate only through PostgreSQL rows, files of named volumes and, for the
parser, a spool directory. Three locks order the transactions: a session or transaction
advisory lock 798205424 (shared by every worker operation, exclusive for maintenance),
the transaction lock 798205425 (`lock_lifecycle`: one writer of jobs and documents at
a time) and row locks. A worker thread holds a lease named by a fence; between its
transactions (provider calls, builds, parsing) nothing stops the user, another worker,
recovery or maintenance. That gap is where the models look.

### What is hard here

* A request to a paid provider can be sent once at most without the user's consent,
  although threads die, leases run out while they wait, answers come late, the user
  pauses, cancels, deletes, and maintenance starts at any moment.
* Job status, task status, attempt state and permit state are four vocabularies written
  by different transactions (recovery, thread, exception handler, API); siblings of a
  job overwrite each other's job status.
* A publication is decided by a compare-and-set long after it was requested.
* Deletion makes content unavailable at once and erases it later, while workers are on
  their way to write more.

`PROJECT.json` lists the hazards line by line, with the property that covers each.

### What makes each part correct

| Part | Properties |
| --- | --- |
| Queue, execution, ledger | no second request over an open charge; fenced threads write no task; settled money stays settled; the attempt limit bounds requests; committed units stay committed; every request is accounted for and every lease ends |
| Budgets | reserved plus spent money stays within the budget; a charge above its reservation stops dispatch |
| Provider settings | a key is sent only where it was entered for; a save sent again is executed once |
| Providers | whatever happens on the wire and whichever model answers, a permit is released only if nobody ran the request, and settled only on an answer whose usage the price covers (cost control) and whose model the adapter let pass |
| Local models | preparation excludes inference and evicts nobody's model; every unit leaves the service |
| Admission | running models fit the memory the operator allowed; nobody monopolises the workers |
| Publication, search | registered artifacts are complete; late publications do not undo the user's decisions; search rows of the current generation show the current artifact; every publication reaches the search |
| Drafts, candidates | a sealed revision lists the issues its texts have; no machine overwrites a person; a block arrives with the last of its units |
| Uploads | accepted bytes are neither mixed up nor removed under a document |
| Source revisions | no draft of an older import becomes the source; a corrected source stays a valid source with a sound mapping, and its letters are the page's |
| Parser spool | an attempt starts one child at most; what was erased stays erased |
| Translation planning | no text is lost between blocks and units; an answer restores the citations, links and marks of the source; the cache answers only what was asked |
| Assembly, reader | every text of a paper is on its page once in each language; links, notes and panels lead to one |
| Metadata | bibliography and title are of the selected paper and of the present source |
| Task list | what is cleared is over; an operation shows its steps and leaves the list only when they are over; a job is part of one operation; a deletion leaves the list as it is; no earlier attempt's model is shown |
| Continuation, preparation | a continued history has no open request; units use the pack of their own job |
| Maintenance | a row never names a file that is gone, whatever is killed |
| Web client | unsaved inputs are dropped only when their user says so; they replace only what their user has seen; keys go where they were typed for |

## 2. Modules

| Module | Models |
| --- | --- |
| `UnitQueue` | queue, worker threads, permits, API and maintenance operations over the paid translation units of a document |
| `PaidUnit` | abstract specification: what the queue promises about money for one unit |
| `MCUserPromises` | `UnitQueue` with a ghost variable for what users were told about pausing, resuming and resolving, for TLC |
| `UnitQueue_proofs` | inductive invariant and theorems about `UnitQueue`: leases, permits, fencing |
| `PaidUnits_proofs` | what the queue promises in numbers, and that it implements `PaidUnit` |
| `MCUnitQueue` | instances for TLC |
| `Publication` | artifacts, the edition's pointer, index tasks, retention and cleanup |
| `Edition` | abstract specification: what an edition promises to its readers and publishers |
| `Publication_proofs` | inductive invariant and theorems about `Publication`, and that it implements `Edition` |
| `MCPublication` | instances for TLC |
| `MCProgress` | `UnitQueue` and `Publication` with fairness |
| `Ledger`, `ProviderConfig`, `LocalModels`, `Scheduler` | budgets and the dispatch switch; versioned provider settings and connection tests; the local model service; admission |
| `Navigation`, `DraftForm`, `SettingsForms` | the web client's unsaved inputs: address bar and history, draft editor, settings page |
| `Services` | these seven beside each other, for any constants |
| `Services_proofs`, `WebClient_proofs` | theorems about ledger, admission, provider settings and local models; about the browser's history, the draft editor and the settings page |
| `MCServices` | `Services` with constants for TLC |
| `Uploads`, `ParserSpool`, `SourceDrafts`, `Metadata`, `Editorial` | a document's content from its chunks to a sealed translation |
| `Content` | these five beside each other, for any constants |
| `Content_proofs` | theorems about uploads, parser spool and source drafts, metadata and the editing of a translation |
| `SourceCorrections` | corrections of a source |
| `MCContent` | `Content` with constants for TLC, beside `SourceCorrections` |
| `Backups`, `ProviderCall`, `Translations` | backup, restore and retention; one request on the wire; jobs of a document and language |
| `TaskHistory` | the list of tasks: operations and their steps, what they are shown as, clearing the history |
| `Lifecycle` | these four beside each other, for any constants |
| `Lifecycle_proofs`, `TaskHistory_proofs` | theorems about backups, provider calls and translations; about the list of tasks |
| `SourceAssembly` | from parsed regions to the blocks of a source, its validation, and the blocks that keep their original |
| `PageContent` | what the page of the current reader holds: rows, notes, citations, margin, contents |
| `EarlierReaders` | the same for the earlier templates that can still be chosen |
| `ReaderPage` | from the source to the page of a template, and its panels of references |
| `UnitPlan` | from the blocks of a source to units, over the wire and back; the cache of answers |
| `SamplePapers`, `MCReader` | the papers the reader is checked on, and an instance of it alone |
| `MCLifecycle` | `Lifecycle` with constants for TLC, beside `ReaderPage` and `UnitPlan` |

### UnitQueue

One action is one database transaction; `lock_lifecycle` makes the transactions that
matter atomic. The thread executing the lease with fence `f` of unit `t` is `(t, f)`
and `phase[t][f]` says where it is between two transactions. A thread that lost its
lease keeps running, as in the code.

| Variables | Code |
| --- | --- |
| `jobStatus`, `epoch`, `superseded` | `Job.status`, `Job.control_epoch`, `progress['source_superseded']` |
| `taskStatus`, `fence`, `tries`, `repairs`, `leaseLive` | `Task.status`, `.fence`, `.attempts`, `payload['repair_count']`, `lease_expires > now()` |
| `accepts` | evidence entries `retry_accept_risk` |
| `leaseEpoch`, `leaseRepair`, `attState`, `validated` | `Attempt.control_epoch`, the unit's hash, `.state`, a validated response in `.evidence` |
| `permit` | `Permit.state` |
| `deleted`, `maintenance` | `Document.deleted_at`, `Settings.maintenance` |

The path of a thread is `Snapshot` (first transaction of `execute_translation`),
`Authorize` (`Reserve` is the durable decision to pay), `ProviderReturns`, `Settle`,
`Checkpoint`, `Commit`; or `WaitWithoutDispatch`; or `RetryOrStop`, whose first step
`ClassifyMoney` happens whatever state the job is in; an exception leads to
`HandleException`. `Raise` and `Dies` may strike between any two transactions.
`RecoverExpired` has one disjunct per branch of `recover_expired`.

Abstractions: amounts of money, admission, `available_at` delays (a lease may run out
and a pending unit be claimed at any moment), the text of units and their cache (a
cache hit is a choice of `Snapshot`), the planner (its units exist in `Init`; `UnitPlan` has both), the
`local_semantic_review` branch, jobs an older release left in `waiting_config`, and
maintenance counting the epoch once per job rather than once per permit.

### Publication

A publish or rebuild task is named by the artifact it is to build, an index task by the
generation it indexes. `Build` and `PublishBuilt` are the two transactions of
`publish`; `CommitPublication` is `commit_publication`, used by the worker, `Rollback`
and `Unpublish`. `fresh[w]` stands for "the control epoch has not moved since the last
claim". A build is complete or absent because `Publisher.build` renames a staging
directory. Legacy artifacts, exports and manifest contents are left out.

`Edition` is the publication as seen from outside: no tasks, leases, threads,
directories or log. A reader is sent to one complete artifact or to none, every decision
raises the generation in the same step, a publication is a decision only of those who have
seen the edition as it is, a return is to an artifact that was offered, and the search
shows the current artifact or nothing. `Readers` in `Publication` is the mapping: offered
are the registered artifacts with a directory, seen is the generation in a task's
payload, found is what passes the filter of the search.

### Services

* `Ledger` keeps the amounts `UnitQueue` leaves out. Each operation of
  `billing/ledger.py` holds the settings row, so it is one action; an attempt stands
  for a leased unit. Late settlements, charges above the reservation, budgets that an
  operator lowers and the dispatch switch are included.
* `ProviderConfig`: a save is one action that a crash may cut before the pointer file
  is replaced; a client may send it again at any time. A binding stands for endpoint,
  protocol and authentication.
* `LocalModels`: every named place of a preparation thread or unit is a point where
  others run; the runner evicts idle models by itself and the service may restart.
* `Scheduler`: `Claim` is `claim` of the queue with `admission`; memory only (VRAM is
  treated by the code in the same way), units of a job are alike.

### Content

* `Uploads`: a chunk file may be written by a transaction that does not commit; answers
  may be lost; the cleanup of one document looks at all others.
* `ParserSpool`: worker and parser processes share files only; both restart anywhere.
* `SourceDrafts`: import, parse, correction, sealing and automatic sealing, with several
  parses and drafts on their way. Of `Document.generation` only whether it is the one
  stamped on the draft is kept.
* `Metadata`: lookups that were queued, are running, or wait for a retry while the user
  selects, edits, replaces the source or deletes.
* `Editorial`: edits, committing units, candidates, validation, semantic review and
  sealing of one draft. The rules of the quality check are one rule; a plan without a
  missing block, which finalizes at once, is left out.

### Lifecycle

* `Backups`: a row stands for its file; keys are written once, so a file is present or
  absent. Killing a command and its failure end the same way. Ageing is
  over-approximated (anything may be old enough), the dispatch flag is in `Ledger`.
* `ProviderCall`: what happened on the wire and at the provider, what the adapter of
  the protocol makes of it, and what the permit says in the end. Any provider may answer
  with another model or name none. The native and local adapters compare the model, and
  such an answer is of unknown outcome (`Compares`); the OpenAI adapters report it only,
  and it is settled, checkpointed and committed like any other. `PermitTellsTheTruth`
  therefore speaks of the asked model for the native and local protocols alone, as
  `docs/product-baseline.md:95` and `test_native_provider_integration.py` do. Requests
  carry no tools.
* `Translations`: the units of a job are one task and a lease ends with its worker
  (`UnitQueue` has siblings and late workers).
* `TaskHistory`: the rows of `jobs`, each with its task and the requests of its attempts,
  of one document. A job has one task (siblings are in `UnitQueue`) and a permit only the
  states the list asks for. The clearing mark of a job is its generation at that time;
  generations only grow and every `emit` raises them, so the mark is a Boolean that
  `Emitted` resets. A family is the least set that holds a main task and the steps below
  its members, which is what the recursive query of `family_tree` collects. `uncertain_inflight`,
  `delete_doc` and a new source change all rows at once (`Maintained`, `Tombstoned`,
  `Superseded`). `waiting_config` stands
  for `waiting_budget` too: they differ in `claim` only. Left out: filters, search and
  pages of the list, logs, times, and the statuses of old versions (`queued`,
  `translating`, ...), which the list maps to the present ones.
* `SourceCorrections`: texts are sequences of glyphs (letters, digits, blank, hyphen,
  wrapped hyphen); hashes, page images, crop sizes and marks are left out; owners nest
  one level; the binding of an occurrence is reduced to its uniqueness; inline nodes of
  schema 4 are unchanged or rebuilt.

* `UnitPlan`: a text is a sequence of glyphs, a citation or a name is one of them. The
  plan is a function of the source and the profile. An answer is one of seven ways in
  which a model may treat the atoms of a unit; its letters stand for whatever words it
  chose. Numbers keep their units; the context of a unit and glossaries are left out.

### Reader

`SourceAssembly` is a function of the paper, written as folds over its regions in the
order of `SourceAdapter.adapt`: blocks, the trees read from the page, cross references,
captions and notes with their owners, reading order, bibliography, linked footnotes.
`Retained` is the scan of `original_only_blocks`. `ReaderPage` parses a paper, publishes
the source if `Valid` with any of the templates for schema 4.0, and then lets the user
open and close panels. An element of the
page is a block, the row it stands in and the languages it shows; rendering keeps the
source's case distinction by kind and owner. Versions 10 to 15 of the reader are copies
of one another with changes (`EarlierReaders` says which); versions 1 to 9 refuse schema
4.0. Only version 16 has panels. Texts are short sequences of runs (text,
number, mark, link, citation), just rich enough for every rule that looks at them.

Left out: page images, crops and their sizes, marks other than superscript, heading
levels, the warnings of the adapter, the repair of texts against the PDF, captions
linked by a reference of layout inference and images inserted from inside the file
(`source_adapter.py:450-480`), wording and looks, storage of reading positions, and
exports.

### Web client

* `Navigation`: `watchGuardedHash` between the browser's queue of hash changes and
  traversals that take effect later. The user navigates when the browser has settled
  (`Settled`); a save or an answer may come at any time.
* `DraftForm`: one editor against a server on which others write; a request whose
  connection breaks may be executed, later or never.
* `SettingsForms`: forms of one preferences row and the provider form, which keeps the
  inputs of every protocol visited. A service is an endpoint and a key; an input equal
  to the shown value is no input; the forms are saved in order of registration and other
  things happen between the awaits.

## 3. Runs

| Run | Question | Bounds |
| --- | --- | --- |
| `units` | money and fencing of one unit under every disturbance; refinement of `PaidUnit` | 1 unit, 3 leases, 2 control operations, 1 accepted risk, attempt limit 2 |
| `siblings` | shared permit slot, completion of a job, finality of success | 2 units, 2 leases each, limit of 1 permit |
| `pause_holds`, `unknown_resolvable`, `resume_has_work` | statements of the documentation the code violates (section 5) | 2 units, 2 leases |
| `publication` | racing publishers, rollback, withdrawal, retention, crashes; refinement of `Edition` | 2 publish tasks and the index tasks with 1 lease each, generation up to 3, every disturbance (draft, pause, cancel, crash, delete, raise, retention) |
| `progress` | every request is accounted for and every lease ends; publications reach the search; nothing outlives cleanup | 1 unit, 2 leases, threads may die anywhere; 1 publish task, index tasks with 2 leases, generation up to 3 |
| `published_searchable` | a statement of the documentation the code violates | 1 publish task, generation up to 3 |
| `services` | budgets, keys, local models, admission and unsaved inputs | see below |
| `content` | uploads, parser, sources, metadata, editing, corrections | see below |
| `lifecycle` | backups, provider calls, continuation, the task list, assembly and reader, units and the cache | see below |
| `reader_keeps_references` | a statement of the documentation the code violates | one paper |

`progress`, `services`, `content` and `lifecycle` check several components in one run.
The components share no state (what joins them is in `UnitQueue` and `Publication`), so
the initial state chooses which one takes steps (`active`), and every property speaks of
its own component; the states of
the run are the sum of the components' states, not their product. The invariants of a
component include its type invariant. Their bounds:

| Component | Instance | Why it is enough |
| --- | --- | --- |
| `Ledger` | 3 jobs, one without cost control, 4 attempts, charges below and above the reservation, budget 3 | the budget must be reachable by two permits of different jobs |
| `ProviderConfig` | 4 bindings of 3 protocols, 7 save requests, 3 revisions, 2 tests | a key can be carried past an endpoint, a protocol and the local one |
| `LocalModels` | 2 models of different backends, 3 units, 2 preparation threads, 1 restart | two units share a model, two threads compete to evict |
| `Scheduler` | 2 documents, 3 jobs, 2 models, 2 tasks each, budgets of 50 and 100 % | a child job; a model that fits alone but not with the other |
| `Navigation` | 3 pages, 3 navigations | a change back, one forward and one elsewhere |
| `DraftForm` | 2 segments, generations up to 2, 1 late request | a save of two segments between which others write |
| `SettingsForms` | 2 forms of a field, 2 protocols with 2 endpoints, 1 save, 3 acts | a switch of protocol and back with inputs in both |
| `Uploads` | uploads of 2 and 1 chunks, 2 pieces, 2 documents | equal contents of different uploads |
| `ParserSpool` | 2 fences, 2 restarts | an old attempt next to a new one |
| `SourceDrafts` | 3 imports, 2 parses, 3 drafts | a draft two imports old |
| `Metadata` | 2 files, 2 DOIs, 2 lookups, 2 attempts | a late answer for another selection |
| `Editorial` | 2 blocks, 3 units, 2 texts, 2 versions | a block of two units of which one is stale |
| `SourceCorrections` | a page of 10 regions, 2 calls, 2 operations | an operation on what an earlier one made |
| `Backups` | 2 documents, 1 backup, 2 processes, 2 files per pass | a deletion between dump and copy; an interrupted restore |
| `ProviderCall` | all 5 protocols, 3 attempts | a repair and a retry of an unknown outcome |
| `Translations` | 2 jobs, 2 sources, 3 drafts, 1 lease | a continuation of a continued job's draft for a new source |
| `TaskHistory` | 2 jobs started as parse, publication or check, of which 1 pays before it is continued, and 2 attempts together | an operation with a step or beside another operation; an attempt that is late beside the next |
| `ReaderPage` | a title, any 2 of 22 shapes of region and one of 3 ends, on one or two pages (2,904 papers), with each of 7 templates; all blocks translated or none | a rule of assembly or rendering looks at a block, its owner, its neighbour and the section it is in |
| `UnitPlan` | 2 blocks of 1 or 2 nodes of 12 plain or 14 rich shapes, the second like the first or a citation; a remote model and two local ones; 7 ways of answering | a text is cut into two units, fits one, or is retried as a whole block; an atom is lost, doubled, moved or invented |

Why the bounds are enough to see what matters: a second request over an open charge
needs two leases of one unit and a third shows that it also holds after a repair or an
accepted risk; `units` allows all nine kinds of disturbance, twice where they are
counted by the epoch. Effects between units go through the job's status and the number
of permits, for which two units and one slot suffice. A late publication needs a
request, a decision of the user and a commit: three generations. That a second lease of
a publication comes after the first was given away is in `progress`, and the proofs
hold for any number. Symmetry is used
only in runs without liveness properties. Deadlock is not checked: with the bounds
reached or everything done, the system rightly stops.

Every property has a mutant: a changed definition (kept next to the original and
marked "mutant") under which the property must fail.

### Fairness

`FairSpec` of `UnitQueue` and of `Publication`, joined in `ProgressSpec`, assumes weak fairness of claiming, of recovery, of the steps of living
threads and of the expiry of a dead thread's lease. `workers/main.py:391-426` runs
`recover_expired` and `claim` on every tick of every worker process, a lease is a
time, and the heartbeat (`workers/main.py:285-292`) is the only thing that renews it
and dies with its thread. Nothing is assumed of users, crashes, provider outcomes or
maintenance: threads may die at every step. A provider call ends because the adapters
set timeouts. `services` assumes weak fairness of each preparation thread and each unit
of `LocalModels`: they run in threads of their own, the gate and the cache lock are held
for bounded calls, and a waiting unit polls. `content` assumes weak fairness of the
parser's loop, which polls the spool for ever. The other components are checked for
safety only.

## 4. Proofs

TLC shows a property on the instances of section 3; the theorems here say it for every
value of the constants. Each is proved in the same way: an inductive invariant, a lemma
per action (or per group of actions that touch the same rows) that the action preserves
it, and the property as a consequence. `Services`, `Content` and `Lifecycle` are proved
as they stand; a component's steps are those of its own module, and the others leave its
variables alone.

### UnitQueue

`UnitQueue_proofs` proves, for any number of jobs, units, leases and limits:

* `TypeCorrect`: `TypeOK` holds.
* `Invariance`: `IInv == TypeOK /\ SafeLeases` holds.
* `OneLive`: a request that may be executing belongs to the last lease of its unit.
* `SuccessFinal`: a committed unit is never undone.
* `LedgerForwardOnly`: permits only move forward.
* `FencedOnlyMoney`: a thread whose lease or epoch is over writes no task and no job.
* `DeletedErased`: no late response adds content to a deleted document.

`OneLiveRequest` is not inductive: it says nothing of the thread that will reserve or
settle. `SafeLease` strengthens it by tying, for every lease, the thread's place to its
permit: before `Reserve` there is no permit; while the request is out it is reserved,
or unknown if recovery came first; after `Settle` it is settled; a thread of an old
lease has no reserved permit, because the recovery that gave the unit away marked it
unknown; the last thread of a committed unit is done.

`PaidUnits_proofs` adds what counts:

* `UncertainAccepted`: at most one more charge of a unit is open than the user accepted.
* `QueueImplementsPaidUnit`: the queue implements `PaidUnit`.
* `CompletedOwesNothing`: a completed job has no unit unresolved and no open charge.
* `AttemptsStayBounded`: a unit is sent at most `AttemptLimit` times.

They rest on `Books`: `IInv`, `Rows` (the state of an attempt fits its permit, a thread
told of a control has asked for no permit, a reserved permit of a cancelled unit means
that the document was deleted) and `Numbered` (a leased unit has a lease). Every step is
summarised once per question by what it does to one unit, whatever else it does:
`MoneyStep` (a dispatch, an accounted charge, an accepted risk, a delivery) or quiet for
the open charges; `SendStep` for the tries. The summaries hold the case analysis over the
actions; on top of each the count takes a page. Of the open charges the bound itself is
not inductive: `ClearedUnits` bounds those besides the last lease, and all of them while
the unit waits in the queue, from where it is sent again. Of the tries,
`SendsBounded` says that each request is backed by a try that is not given back, and
that a unit is tried beyond the limit only to replay a checkpoint, which sends nothing.
For completion, `CompletedSettled` says per unit what the property says per job; it is
kept because a final unit is left only in a step that also moves its job.

The refinement mapping (`Money` in `UnitQueue`) reads the abstract state off the rows:
`open` is the number of a unit's reserved and unknown permits, `accepted` is `accepts`,
and a unit is delivered when its task has succeeded. Each `MoneyStep` is the abstract step of its name
and everything else a stutter; that a dispatch or a delivery is allowed in the abstract
is where `ClearedUnits` is needed.

### Publication

`Publication_proofs` proves, for any number of artifacts, generations and leases and
any choice of disturbances:

* `PublicationInvariance`: `PublicationInv` holds; `PublicationTypeCorrect`: `TypeOK`.
* `RegisteredArtifactsComplete`: what a row names is on disk.
* `DecisionsStand`: no publication undoes a later decision of the user.
* `SearchShowsCurrent`: no row of a replaced text passes the filter of the search.
* `CleanupIsFinal`: nothing of a deleted document comes back.

`PublicationInv` adds what the properties leave unsaid. `ThreadsHaveTheirFiles`: a
thread between its two transactions has its directory unless the document was cleaned
up, and cleanup follows deletion; so the second transaction, which requires the
document, registers only what exists, and retention, which waits until no thread is
between transactions, takes nothing a thread counts on. `LogIsOrdered`: the rows of the
log grow in generation, and each publish row is one above the generation its task
expected; hence a decision older than the row is no younger than that expectation.
`EntryIsNotAhead`: whatever raises the generation leaves all search rows behind. Each
part is preserved on its own, given `TypeOK`; `CleanStep` also needs
`ThreadsHaveTheirFiles`.

* `PublicationImplementsEdition`: every step of the publication is a step of `Edition` or
  nothing its readers and publishers see.

One lemma per group of actions says which. `PublishBuilt` is the decision, or a preview;
`Build` and `Retention` are stutters because a directory without a row is not offered, and
that a registered one keeps its directory is `RegisteredIsOnDisk`. That a request notes a
generation once, and that whoever previews has asked, needs `Requested` (a task of an
artifact exists exactly when a generation was noted for it), an invariant of its own;
that a decision empties the search for the moment needs `EntryIsNotAhead`. An index task
of an older generation that runs late is a stutter, not an abstract step.

### Content

* `BytesKept` (`Content_proofs`): acknowledged chunks and files of documents stay what
  the user sent. `UploadsInv`: what a client was told is in the rows, an assembled file is
  what the rows say, and whatever can be imported or is referred to exists.
* `ParserChildRunsOnce`: the safety half of `AttemptsAreFinal`. `SpoolInv`: leases ask in
  order, the parser works only for one that asked; an attempt that has run has its
  "started" marker on disk, or the task is marked and its original erased.
* `SourceOfLastImport`: `SourceInv` says that whatever may still become the source, a parse
  that is not over or an open draft, is of the last import and file.
* `MetadataOfTheSource`: `MetaInv` says that no two living lookups of a
  file have its generation, that one of the present generation asks for the DOI that is
  selected, and that an answer is to the question asked.
* `RevisionsTellTheTruth`, `PeoplesWorkStands`, `BlocksArrive`: `EditInv` says that a
  report holds the issues of the texts and the evidence in its fingerprint (so that
  sealing, which compares fingerprints, compares issues), that what a candidate's user
  saw is what its base versions are, and that planned blocks were empty.

### Services and web client

* `SpendingWithinBudgets` (`Services_proofs`): `LedgerInv` says that an open request counts
  with what was reserved for it, that budgets in force were allowed by someone, and that
  a charge above its reservation keeps dispatch off. The sums over attempts are folds;
  a function with the defining equations of a sum exists and is unique, and only
  that is used of them.
* `FairAdmission`: `SchedInv` bounds what is running by the memory last admitted. That a
  job is claimed at most once before another which could be claimed needs the order of
  claims: a job that was claimed since stands behind it.
* `KeysAreSafe`: `ConfigInv` says what a connection test froze and holds. The key shown for
  a protocol is the last word said on it in the history of revisions; a new revision
  leaves the histories of the others alone, and has the words of its predecessor's and
  perhaps one of its own.
* `InferenceIsUndisturbed`: the safety half of `InferenceCompletes`. `ModelInv` says that a
  preparation at work shows in the status of its model (which keeps a second one away)
  and that the gate holds one writer or readers, never both.
* `InputsAreGuarded` (`WebClient_proofs`): `NavInv` describes the browser's whole history
  with what is on its way. The stops of the history carry the places the watcher gave
  them, numbered one by one, and what the watcher knows is among them (`Numbers`,
  `Known`). The rest is in one of four shapes: at rest, asked to travel, travelled and
  about to say so, or at an address the user has entered, the only stop without a place.
  `Purpose` says what the watcher remembers between its awaits: that it goes on to a
  target only with consent or without inputs, and that otherwise it is on its way to the
  page it shows. A handler is a function on the record of all fields, so its lemmas say
  from which records it leaves a good one; an action is one or two of them in a row.
* `EditsOutliveFailures`: `PageInv` says that a version somebody read
  stands for one text, for every draft, base and late request there is; that typed
  text is an edit that differs from its base; and that a save before leaving still
  has all of these before it.
* `InputsOutliveThePage`: `SettingsInv` says the same of settings rows (a row read is older
  or the stored one, an accepted save changed only its own protocol), that a key sits
  beside the protocol and endpoint it was typed for, in the form, in the drafts of other
  protocols and in the call, that an input differs from what is shown, and that
  every form with inputs has its turn while the page is being left.

### Lifecycle

* `BackupsLoseNothing` (`Lifecycle_proofs`): `BackupInv` has `LockExcludes` (one holder of
  the exclusive lock, no worker and no reserved request under it), `WorkerInOrder` (files
  before rows, tombstones before erasure), `DirectoriesInOrder`, `ManifestsComplete` and,
  per command, what it has done so far.
* `PermitsTellTheTruth`: `CallInv` ties the last bill to the place of the call and says that
  a unit which may be asked for again has its last request booked, that a pending one has
  attempts or a checkpoint left, and that every bill is true. Nothing is assumed of the
  model that answers; that a settled answer is of the asked model is claimed, and proved,
  where the adapter compares.
* `HistoryStaysClosed`: `TransInv` says that a continued history is closed for good (its
  earlier jobs are final, no permit of theirs is open), that no two translating jobs
  share a draft, which is why neither replaces the other's pack, and that
  the pack is where the units look for it.
* `TaskListSound`, `TaskListForward` (`TaskHistory_proofs`): `HistoryInv` says of each row
  that a mark stands only on a job that is over, that a request no worker has finished
  with is reserved or unknown, and that the model shown is of an attempt that began; and
  of the table that a parent is an older row, and that of a step an operation. The second
  of these is why a mark survives late evidence: settling or naming a model does not
  take the mark away, so it must find an open permit, and a job with one has no mark.
  The last is why the operations, which the model defines as `family_tree` does by
  following parents until nothing is added, are one step deep (`FamilyIs`): no chain of
  steps exists. `Stepped` is what any step makes of a table: every row kept or changed by
  `RowStep`, new rows behind. The action properties are read off it.

### Assumptions and technique

The only assumptions are those on the constants: `ConstantsAssumption` of `UnitQueue` and
of `Publication`, `ServicesAssumption`, `ContentAssumption` and `LifecycleAssumption`,
the conjunctions of what each component declares next to its constants. They say that
bounds are numbers, that the functions given have their types, that attempts, jobs and
blocks are finitely many, and that values the code cannot confuse differ: a marker for
"nothing" (no artifact, no fragment) and the values it stands beside, the names of forms and of places, the key of
the dump in a backup and the keys of files. TLC evaluates all of them.

Facts about all numbers or all finite sets are proved without induction theorems over an
operator, which the provers cannot instantiate: a smallest counterexample
(`LeastNatural`, `SmallestSubset`, from the well-foundedness of the naturals) is
contradicted by one step.

### Only model-checked

* Liveness under fairness, which is beyond the prover: `RequestsAreAccountedFor`,
  `SearchCatchesUp`, the second halves of `InferenceCompletes` and `AttemptsAreFinal`
  (every unit leaves the service; what was erased ends up erased). Their safety halves
  are proved.
* `CorrectedSourceIsSound`, `PaperIsReadable` and `UnitsRestoreTheSource` are about what
  folds and recursive definitions compute for data; induction over data is out of reach
  and recursive operators take the SMT prover away.

## 5. Where the code and its documentation disagree

* `pause_holds`: `docs/architecture.md:53` promises that pausing prevents new permits.
  The recovery of an uncertain unit overwrites `paused` with `outcome_unknown`; the
  recovery of a sibling then requeues the job, and a new permit is reserved.
* `unknown_resolvable`: a sibling's retry or recovery overwrites the job's
  `outcome_unknown`; when the sibling commits, the job ends in `needs_review`, where
  `resolve_attempt` refuses the unit that is still `outcome_unknown`.
* `resume_has_work`: a configuration error fails its unit and sets `waiting_config`;
  resuming sets `pending` although no unit can run.
* `published_searchable`: creating a draft raises the generation of the edition, and
  the search filters by it: published text is no longer found.
* `reader_keeps_references`: `docs/workflows.md:171-174` promises that detected blocks
  are retained once in every reader. A bibliography entry read as a list item with
  child paragraphs has no text of its own (`rich_ir.py:321-322`); the reader shows it as
  one reference with its own text (`reader_v16.py:386`, `239`): the entry is empty and
  its paragraphs are nowhere.

### Read while modelling

The following was met while the models were written. None of it breaks a property
checked here, often because the model states what it assumes; it is for the people who
work on the code.

* Jobs. A worker of a task that reached the attempt limit can set its failed job to
  `waiting_config` or `pending` again through `retry_or_stop`. `RetryTest` can make two
  connection tests active at once. A metadata job that ends by a stale source or a
  cancellation leaves `metadata_status` at `pending`. An operator may switch dispatch
  on from a page that is out of date.
* Providers. An answer of another model, or one that names none, is settled at the price
  of the asked model, checkpointed and committed when it comes over the protocols
  `responses` and `chat_completions` (`openai_responses.py:64-66`, `execution.py:336-378`);
  the native and local adapters stop it as `PROVIDER_MODEL_MISMATCH`.
* Continuation. Once a permit is unknown the continuation of its source and language is
  refused until a late settlement; recording evidence and stopping do not change it. A
  crash between settling and the checkpoint makes the work be paid again; each
  continuation may pay the analysis again. `create_candidate` does not look at unknown
  permits. Semantic review jobs carry no language, so `previous_jobs` misses them.
* Sources. The two routes of confirmation differ: `seal_source` skips its comparison
  with the current revision when the draft has no base, so correcting an old first
  parse and confirming by `/imports/{id}/confirm` replaces a newer revision, which
  `/sources/drafts/{id}/confirm` refuses. Any rise of the document's generation makes an
  open draft unconfirmable until it is corrected or parsed again. Sealing a translation
  does not ask whether its source is still current.
* Units. With schema 4 the planner starts a unit at every change of marks or links, so a
  blank between two marked runs (`rich_ir.py:60`) is a unit of its own. `validate_output`
  refuses a blank answer (`translation/contract.py:54`), and so the repair of such a
  block fails and the whole block keeps its original. The check that skips a block whose
  atoms are too large compares them with `limit` where `block_limit` may be larger.
* Corrections. Splitting a block, trimming a half with `replace_text` and merging again
  can glue two words. Several structural operations of one call leave entries of the
  mapping that name blocks of neither revision. The id of a split half contains the
  number of the operation, so the same split in a later call is refused. After a split
  both halves keep the locator of the region, so a native `replace_text` of one half
  needs the text of the whole region. `coverage_report` tests each region alone: one of
  two regions of equal text may go unseen.
* Reader. Version 10 drops the notes of a formula printed as an image and shows the card of
  a caption's note twice. A list item with child blocks at the root of the page, or in a group that is
  not a list, shows its own text only (`reader_v16.py:332-335`, `361-368`). Captions of
  a formula or listing printed as an image are not rendered (`307-327`). The table of
  contents lists headings that were dropped this way. An empty list item, or a footnote
  inside a listing, makes the whole source invalid instead of being skipped.
* Files. `put_chunk` after a write whose transaction did not commit refuses other bytes
  for ever. A worker that writes its request after `erase_parser_task` leaves a copy in
  the parser's inputs until retention. An interrupted `restore --replace` leaves files of
  documents deleted since the backup on disk without a row; a cleanup that died between
  its files and its commit makes the next backup refuse until it is repeated. Restoring
  reuses the fences of the history that was abandoned.
* Web client. Without `Settled`: two changes of the fragment before the first event is
  handled leave an entry without its stamp, and a later Back to it makes the watcher wait
  for ever; a navigation by hand during the way back makes `reach` accept the wrong
  address. The form that leaves a source asks twice after "discard". In the settings a
  reload answered before a save and delivered after it shows the old row, and the next
  save of that section reverts its other field; the draft of another protocol keeps the
  page "unsaved" after its inputs were put back; a form that becomes unsaved by a reload
  during `saveAll` is not saved.

## 6. Plan

Modelled and checked: every part of section 1 but the receipts of commands. Proved: the
safety of every component but the three that section 4 names.

Left, in order of value:

1. Siblings in `Translations`: the units of a job as tasks, so that the continuation is
   checked against late workers.
2. An abstract specification of a versioned text that `Editorial` and `DraftForm`
   implement together.
3. Idempotency receipts as a component of their own; they are part of the operations of
   `ProviderConfig` only.

## 7. Not modelled

Recovery of layout, tables and code from PDF content, OCR, provider formats, glossaries
and the checks of wording transform data without state between calls; a model checker
adds little to their tests. Of the parser's algorithms the assembly of the source is
modelled, of translation planning what happens to text and atoms, of the publisher the
readers of schema 4.0. Telemetry, model downloads, seeding and migrations are input and output.
Each is listed with its reason in `PROJECT.json`.
