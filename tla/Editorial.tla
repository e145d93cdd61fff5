------------------------------- MODULE Editorial -------------------------------
(***************************************************************************)
(* One draft of a translation, between its creation and its sealed         *)
(* revisions: a user edits and confirms segments, a translation job fills  *)
(* the missing ones, a candidate job proposes others, a semantic review    *)
(* reads them, quality reports are made and revisions sealed.              *)
(*                                                                         *)
(* Every transaction holds the lifecycle lock, so each is one action; the  *)
(* work of the jobs happens between their transactions.  Money, leases and *)
(* retries of the units are in UnitQueue.  A text is one of a few values   *)
(* (equal texts have equal digests); where several units form a block, the *)
(* joined text is chosen when the last of them is committed.               *)
(***************************************************************************)
EXTENDS Naturals, FiniteSets

CONSTANTS
  Blocks,           \* translatable blocks of the source
  Units, UnitBlock, \* translation units and the block each belongs to
  Texts, NoText,
  Faulty,           \* texts in which the rules find an issue
  Glossary,         \* Draft.glossary_revision
  Requested,        \* glossary revisions in force when a candidate is asked for
  MaxSeq, MaxWork   \* bounds: versions of a segment; generations of the draft plus jobs

EditorialAssumption ==
  /\ UnitBlock \in [Units -> Blocks] /\ \A b \in Blocks : \E u \in Units : UnitBlock[u] = b
  /\ IsFiniteSet(Blocks) /\ NoText \notin Texts /\ Faulty \subseteq Texts
  /\ MaxSeq \in Nat \ {0} /\ MaxWork \in Nat

VARIABLES
  segment,      \* the current SegmentVersion of each block
  gen, report,  \* Draft.generation, the QA row of Draft.qa_id
  reviewed,     \* the version of each block that a user last confirmed
  resolved,     \* IssueResolution rows
  sourceMoved,  \* the document has another source than the draft
  planned, unit,   \* the translation job: base versions, state of its units
  cand, sem,       \* the candidate with its job, the semantic review job
  sealed           \* the revision that the last step sealed, if it did

editVars == <<segment, gen, report, reviewed, resolved, sourceMoved, planned, unit, cand, sem, sealed>>
jobVars == <<sourceMoved, planned, unit, cand, sem>>

NoSegment == [seq |-> 0, text |-> NoText, by |-> "none", glossary |-> Glossary]
None == [at |-> "none"]
Present(b) == segment[b].seq > 0
Planned == {u \in Units : unit[u] # "none"}
Started == Cardinality({k \in 1 .. 3 : <<Planned # {}, cand # None, sem # None>>[k]})
MayWork == gen + Started < MaxWork

--------------------------------------------------------------------------------
(* A human review belongs to the version, text and glossary confirmed.     *)
ReviewedOnce(b) == reviewed[b].seq > 0   \* mutant: any review of the block
Reviewed(b) == Present(b) /\ reviewed[b] = segment[b]

(* A verdict of the semantic review counts while the text it read stands.  *)
SameText(b, t) == Present(b) /\ segment[b].text = t.text /\ segment[b].glossary = t.glossary
ReviewStale == \E b \in DOMAIN sem.target : ~SameText(b, sem.target[b]) \/ sem.answer[b] = "stale"
Findings == {b \in DOMAIN sem.target : sem.answer[b] = "finding" /\ SameText(b, sem.target[b])}
Completed == sem.at = "done" /\ ~ReviewStale /\ \A b \in DOMAIN sem.target : sem.answer[b] # "failed"
Evidence ==
  IF sem = None THEN None
  ELSE [at |-> IF ReviewStale THEN "stale" ELSE sem.at, completed |-> Completed, findings |-> Findings]

(* The issues of a check, each with the text it is about; a resolution     *)
(* holds while the text stays.                                             *)
IssueKinds(b) ==
  IF ~Present(b) THEN {"MISSING_TRANSLATION"}
  ELSE {k \in {"SEMANTIC_RISK", "NUMBER_MISMATCH", "SEMANTIC"} :
          CASE k = "SEMANTIC_RISK" -> ~Reviewed(b)
            [] k = "NUMBER_MISMATCH" -> segment[b].text \in Faulty
            [] k = "SEMANTIC" -> sem # None /\ b \in Findings}
Found == UNION {{<<k, b, segment[b].text>> : k \in IssueKinds(b)} : b \in Blocks}
Issues == [found |-> Found, resolved |-> Found \cap resolved, incomplete |-> sem # None /\ ~Completed]

FingerprintOfTexts == [gen |-> gen, targets |-> segment, semantic |-> None]   \* mutant
Fingerprint == [gen |-> gen, targets |-> segment, semantic |-> Evidence]
Check == [at |-> "made", gen |-> gen, fingerprint |-> Fingerprint, issues |-> Issues]

(* translation_snapshot: what a sealed revision says of each block, with   *)
(* the issues of the report it is sealed with.                             *)
Revision(issues) ==
  [at |-> "sealed", target |-> [b \in Blocks |-> segment[b].text],
   human |-> {b \in Blocks : Reviewed(b)}, issues |-> issues]

--------------------------------------------------------------------------------
(* Commands of a user.  A request that names another version or generation *)
(* than the current one is refused.                                        *)
Changed == MayWork /\ gen' = gen + 1 /\ report' = None

Write(b, text, by, glossary) ==
  /\ segment[b].seq < MaxSeq
  /\ segment' = [segment EXCEPT ![b] = [seq |-> @.seq + 1, text |-> text, by |-> by, glossary |-> glossary]]

EditSegment(b, text) ==
  /\ Write(b, text, "human", segment[b].glossary)
  /\ Changed
  /\ UNCHANGED <<reviewed, resolved, jobVars>>

ConfirmReview(b) ==
  /\ Present(b)
  /\ reviewed' = [reviewed EXCEPT ![b] = segment[b]]
  /\ Changed
  /\ UNCHANGED <<segment, resolved, jobVars>>

ResolveIssue(i) ==
  /\ report # None /\ report.gen = gen /\ i \in report.issues.found
  /\ resolved' = resolved \cup {i}
  /\ Changed
  /\ UNCHANGED <<segment, reviewed, jobVars>>

Validate ==
  /\ report' = Check
  /\ UNCHANGED <<segment, gen, reviewed, resolved, jobVars>>

(* seal with the report the user has seen, if it is still the draft's and  *)
(* describes its present texts and evidence; with a new one otherwise.     *)
UseReport(seen) == seen /\ report # None /\ report.gen = gen /\ report.fingerprint = Fingerprint

SealDraft(seen) ==
  /\ report' = IF UseReport(seen) THEN report ELSE Check
  /\ sealed' = Revision(report'.issues)
  /\ UNCHANGED <<segment, gen, reviewed, resolved, jobVars>>

--------------------------------------------------------------------------------
(* The translation job: blocks without a segment are planned; a block is   *)
(* written by the transaction that commits the last of its units.          *)
UnitsOf(b) == {u \in Units : UnitBlock[u] = b}
Settled(u) == unit[u] \in {"done", "failed"}

PlanTasks ==
  /\ Planned = {} /\ ~sourceMoved /\ MayWork
  /\ \E b \in Blocks : ~Present(b)
  /\ unit' = [u \in Units |-> IF Present(UnitBlock[u]) THEN "none" ELSE "todo"]
  /\ planned' = [b \in Blocks |-> segment[b].seq]
  /\ UNCHANGED <<segment, gen, report, reviewed, resolved, sourceMoved, cand, sem>>

(* finalize_translation: with its last unit the job checks the draft, and  *)
(* auto_publish seals it.                                                  *)
Finalize(u, autoPublish) ==
  IF \A v \in Planned \ {u} : Settled(v)
    THEN report' = Check' /\ sealed' = IF autoPublish THEN Revision(Issues)' ELSE None
    ELSE report' = (IF gen' = gen THEN report ELSE None) /\ sealed' = None

CompleteBefore(u) == \A v \in UnitsOf(UnitBlock[u]) : unit[v] = "done"   \* mutant: u is not finished yet
Complete(u) == \A v \in UnitsOf(UnitBlock[u]) \ {u} : unit[v] = "done"
Overwrite(b) == TRUE   \* mutant: the base version is not compared
Unedited(b) == segment[b].seq = planned[b]

CommitUnit(u, text, autoPublish) ==
  LET b == UnitBlock[u] IN
  /\ unit[u] = "todo" /\ ~sourceMoved
  /\ unit' = [unit EXCEPT ![u] = "done"]
  /\ IF Complete(u) /\ Unedited(b)
       THEN Write(b, text, "model", Glossary) /\ MayWork /\ gen' = gen + 1
       ELSE UNCHANGED <<segment, gen>>
  /\ UNCHANGED <<reviewed, resolved, sourceMoved, planned, cand, sem>>
  /\ Finalize(u, autoPublish)

UnitFails(u, autoPublish) ==
  /\ unit[u] = "todo"
  /\ unit' = [unit EXCEPT ![u] = "failed"]
  /\ UNCHANGED <<segment, gen, reviewed, resolved, sourceMoved, planned, cand, sem>>
  /\ Finalize(u, autoPublish)

(* SOURCE_STALE ends the job; nothing is finalized. *)
UnitStale(u) ==
  /\ unit[u] = "todo" /\ sourceMoved
  /\ unit' = [unit EXCEPT ![u] = "failed"]
  /\ UNCHANGED <<segment, gen, report, reviewed, resolved, sourceMoved, planned, cand, sem>>

--------------------------------------------------------------------------------
(* A candidate: results for the versions of a few blocks (saw is history). *)
candVars == <<segment, gen, report, reviewed, resolved, sourceMoved, planned, unit, sem>>

CreateCandidate(selected, glossary) ==
  /\ cand = None /\ ~sourceMoved /\ MayWork /\ selected # {}
  /\ cand' = [at |-> "running", base |-> [b \in selected |-> segment[b].seq], glossary |-> glossary,
              ended |-> {}, results |-> [b \in {} |-> NoText], allowed |-> FALSE,
              saw |-> [b \in selected |-> segment[b]]]
  /\ UNCHANGED candVars

CandidateUnit(b, text) ==
  /\ cand.at = "running" /\ b \in DOMAIN cand.base \ cand.ended
  /\ text # NoText => ~sourceMoved
  /\ cand' = [cand EXCEPT !.ended = @ \cup {b},
                          !.results = IF text = NoText THEN @ ELSE [c \in DOMAIN @ \cup {b} |-> IF c = b THEN text ELSE @[c]],
                          !.at = IF cand.ended \cup {b} = DOMAIN cand.base THEN "ready" ELSE @]
  /\ UNCHANGED candVars

AnyVersion(b) == TRUE   \* mutant: a candidate is accepted over another version
BaseVersion(b) == segment[b].seq = cand.base[b]

AcceptCandidate(selected, allowReviewed) ==
  /\ cand # None /\ cand.at = "ready" /\ ~sourceMoved
  /\ selected # {} /\ selected \subseteq DOMAIN cand.base \cap DOMAIN cand.results
  /\ \A b \in selected : BaseVersion(b) /\ (Reviewed(b) => allowReviewed) /\ segment[b].seq < MaxSeq
  /\ segment' = [b \in Blocks |-> IF b \notin selected THEN segment[b]
                   ELSE [seq |-> segment[b].seq + 1, text |-> cand.results[b], by |-> "candidate", glossary |-> cand.glossary]]
  /\ gen' = gen + Cardinality(selected) /\ gen' + Started <= MaxWork
  /\ report' = None
  /\ cand' = [cand EXCEPT !.base = [b \in DOMAIN @ \ selected |-> @[b]], !.allowed = allowReviewed,
                          !.at = IF DOMAIN cand.base = selected THEN "accepted" ELSE "ready"]
  /\ UNCHANGED <<reviewed, resolved, sourceMoved, planned, unit, sem>>

--------------------------------------------------------------------------------
(* The semantic review: its units freeze the texts they are to read.       *)
semVars == <<segment, gen, reviewed, resolved, sourceMoved, planned, unit, cand>>
NoAnswers == [b \in {} |-> "none"]

RequestReview ==
  /\ sem = None /\ ~sourceMoved /\ MayWork
  /\ sem' = [at |-> "pending", target |-> NoAnswers, answer |-> NoAnswers]
  /\ UNCHANGED <<semVars, report>>

PlanReview(selected) ==
  /\ sem.at = "pending" /\ ~sourceMoved /\ selected # {}
  /\ sem' = IF \E b \in selected : ~Present(b) THEN [sem EXCEPT !.at = "failed"]
            ELSE [at |-> "running", target |-> [b \in selected |-> segment[b]],
                  answer |-> [b \in selected |-> "none"]]
  /\ UNCHANGED <<semVars, report>>

(* An answer that is stale already is kept as such; a current one withdraws *)
(* the report.                                                             *)
ReviewAnswered(b, verdict) ==
  LET answer == IF verdict # "failed" /\ ~SameText(b, sem.target[b]) THEN "stale" ELSE verdict IN
  /\ sem.at = "running" /\ b \in DOMAIN sem.target /\ sem.answer[b] = "none"
  /\ verdict # "failed" => ~sourceMoved
  /\ sem' = [sem EXCEPT !.answer[b] = answer,
                        !.at = IF \A c \in DOMAIN sem.target \ {b} : sem.answer[c] # "none" THEN "done" ELSE "running"]
  /\ report' = IF answer \in {"clean", "finding"} THEN None ELSE report
  /\ UNCHANGED semVars

(* Another source is sealed or uploaded for the document. *)
SourceMoves ==
  /\ ~sourceMoved /\ sourceMoved' = TRUE
  /\ UNCHANGED <<segment, gen, report, reviewed, resolved, planned, unit, cand, sem>>

Init ==
  /\ segment = [b \in Blocks |-> NoSegment] /\ gen = 0 /\ report = None
  /\ reviewed = [b \in Blocks |-> NoSegment] /\ resolved = {} /\ sourceMoved = FALSE
  /\ planned = [b \in Blocks |-> 0] /\ unit = [u \in Units |-> "none"]
  /\ cand = None /\ sem = None /\ sealed = None

Next ==
  \/ /\ sealed' = None
     /\ \/ \E b \in Blocks : ConfirmReview(b) \/ \E t \in Texts : EditSegment(b, t)
        \/ report # None /\ \E i \in report.issues.found : ResolveIssue(i)
        \/ Validate
        \/ PlanTasks
        \/ \E u \in Units : UnitStale(u)
        \/ \E selected \in SUBSET Blocks :
             \/ \E g \in Requested : CreateCandidate(selected, g)
             \/ \E allow \in BOOLEAN : AcceptCandidate(selected, allow)
             \/ PlanReview(selected)
        \/ cand # None /\ \E b \in Blocks, t \in Texts \cup {NoText} : CandidateUnit(b, t)
        \/ RequestReview
        \/ \E b \in Blocks, v \in {"clean", "finding", "failed"} : ReviewAnswered(b, v)
        \/ SourceMoves
  \/ \E seen \in BOOLEAN : SealDraft(seen)
  \/ \E u \in Units, publish \in BOOLEAN : UnitFails(u, publish) \/ \E t \in Texts : CommitUnit(u, t, publish)

Spec == Init /\ [][Next]_editVars

--------------------------------------------------------------------------------
(* Every variable has a value its column can hold. *)
TypeOK ==
  /\ \A b \in Blocks : /\ segment[b].seq \in 0 .. MaxSeq /\ segment[b].text \in Texts \cup {NoText}
                       /\ reviewed[b].seq <= segment[b].seq
  /\ gen \in 0 .. MaxWork
  /\ resolved \subseteq ({"MISSING_TRANSLATION", "SEMANTIC_RISK", "NUMBER_MISMATCH", "SEMANTIC"}
                           \X Blocks \X (Texts \cup {NoText}))
  /\ unit \in [Units -> {"none", "todo", "done", "failed"}]
  /\ planned \in [Blocks -> 0 .. MaxSeq] /\ sourceMoved \in BOOLEAN

(* What a revision says is true of its texts, however edits, late reviews, *)
(* commits and checks were interleaved before it was sealed: its report    *)
(* lists exactly the issues a check would find now, and only texts that a  *)
(* user confirmed in this form are called human reviewed                   *)
(* (editorial/drafts.py:404).                                              *)
SealedTellsTheTruth ==
  sealed # None => /\ sealed.issues = Issues
                   /\ \A b \in sealed.human : sealed.target[b] = reviewed[b].text

(* No machine writes over a person's work: a model only fills a block that *)
(* has no text, and a candidate only replaces what its user saw when it    *)
(* was asked for, a confirmed text only if the user says so                *)
(* (translation/execution.py:236, api/candidates.py:113).                  *)
HumanWorkStands ==
  [][\A b \in Blocks : segment'[b] # segment[b] =>
       \/ segment'[b].by = "human"
       \/ segment'[b].by = "model" /\ ~Present(b)
       \/ /\ segment'[b].by = "candidate" /\ cand.saw[b] = segment[b]
          /\ Reviewed(b) => cand'.allowed]_editVars

(* A translated block is never lost between its units: when all of them    *)
(* are committed it has a text, in whatever order they came back           *)
(* (translation/execution.py:218).                                         *)
TranslatedBlocksArrive ==
  \A b \in Blocks : (\A u \in UnitsOf(b) : unit[u] = "done") => Present(b)
================================================================================
