------------------------------ MODULE SourceDrafts ------------------------------
(***************************************************************************)
(* How a document gets its source: a PDF is imported (again), parsed, the  *)
(* parser's result waits as a source draft, may be corrected by hand, and  *)
(* is sealed as the current source revision by a user or, with a workflow, *)
(* by the worker itself.  Several parses and drafts may be on their way    *)
(* when another PDF replaces the one they came from.                       *)
(*                                                                         *)
(* Every transaction holds the lifecycle lock and is one action.  Of       *)
(* Document.generation only one thing is read here: whether it is still    *)
(* the one stamped on a draft; at most the last stamped draft is fresh.    *)
(***************************************************************************)
EXTENDS Naturals, Sequences

CONSTANTS
  Files,                    \* source assets
  MaxImports, MaxParses, MaxDrafts   \* bounds

SourceDraftsAssumption == MaxImports \in Nat \ {0} /\ MaxParses \in Nat /\ MaxDrafts \in Nat

VARIABLES
  source,      \* Document.source_asset_id
  imports,     \* PDFs imported over the document (history)
  fresh,       \* the draft that carries the document's generation, or 0
  parses,      \* parse jobs
  drafts,      \* SourceDraft rows
  revisions,   \* the draft of each SourceRevision; the last one is current
  exists       \* the document is not deleted

sourceVars == <<source, imports, fresh, parses, drafts, revisions, exists>>

Parses == DOMAIN parses
Drafts == DOMAIN drafts
Live(j) == parses[j].at \in {"pending", "running"}
Open(d) == drafts[d].state = "open"
Current == Len(revisions)    \* 0: no source revision yet

Parse(auto) ==
  [at |-> "pending", file |-> source', import |-> imports', base |-> Current, auto |-> auto]

--------------------------------------------------------------------------------
(* POST /imports over the document: unfinished parses are cancelled, open  *)
(* drafts superseded; a workflow asks for the next parse at once.          *)
Kept(d) == drafts[d]   \* mutant: drafts of the old file stay open
Superseded(d) == IF Open(d) THEN [drafts[d] EXCEPT !.state = "superseded"] ELSE drafts[d]

ReplaceSource(file, workflow) ==
  LET stopped == [j \in Parses |-> IF Live(j) THEN [parses[j] EXCEPT !.at = "cancelled"] ELSE parses[j]] IN
  /\ exists /\ imports < MaxImports
  /\ source' = file /\ imports' = imports + 1 /\ fresh' = 0
  /\ drafts' = [d \in Drafts |-> Superseded(d)]
  /\ IF workflow THEN Len(parses) < MaxParses /\ parses' = Append(stopped, Parse(TRUE))
                 ELSE parses' = stopped
  /\ UNCHANGED <<revisions, exists>>

RequestParse(auto) ==
  /\ exists /\ Len(parses) < MaxParses
  /\ \A j \in Parses : ~Live(j)
  /\ UNCHANGED <<source, imports, drafts, revisions, exists>>
  /\ parses' = Append(parses, Parse(auto)) /\ fresh' = 0

(* A parse fails, or is cancelled by its user. *)
ParseEnds(j) ==
  /\ exists /\ Live(j)
  /\ parses' = [parses EXCEPT ![j].at = "ended"]
  /\ UNCHANGED <<source, imports, fresh, drafts, revisions, exists>>

Draft(import, file, base, manual, blocks) ==
  [state |-> "open", import |-> import, file |-> file, base |-> base, manual |-> manual, blocks |-> blocks]

Stale(j) == source # parses[j].file \/ Current # parses[j].base

(* parse_spool's last transaction.  With a workflow the draft is sealed in *)
(* it; a draft without blocks cannot be, and the parse fails as a whole.   *)
ParserDelivers(j, blocks) ==
  LET p == parses[j]
      draft == Draft(p.import, p.file, Current, FALSE, blocks)
  IN
  /\ exists /\ Live(j)
  /\ IF Stale(j) \/ (p.auto /\ ~blocks)
       THEN /\ parses' = [parses EXCEPT ![j].at = "ended"]
            /\ UNCHANGED <<fresh, drafts, revisions>>
       ELSE /\ Len(drafts) < MaxDrafts
            /\ parses' = [parses EXCEPT ![j].at = "done"]
            /\ drafts' = Append(drafts, IF p.auto THEN [draft EXCEPT !.state = "sealed"] ELSE draft)
            /\ revisions' = IF p.auto THEN Append(revisions, Len(drafts) + 1) ELSE revisions
            /\ fresh' = IF p.auto THEN 0 ELSE Len(drafts) + 1
  /\ UNCHANGED <<source, imports, exists>>

--------------------------------------------------------------------------------
(* Corrections of a draft and of the current revision: a new draft, which  *)
(* supersedes the draft it was made from.                                  *)
Stamp(rows, draft) ==
  /\ Len(drafts) < MaxDrafts
  /\ drafts' = Append(rows, draft) /\ fresh' = Len(rows) + 1
  /\ UNCHANGED <<source, imports, parses, revisions, exists>>

CorrectPreflight(d) ==
  /\ exists /\ Open(d) /\ drafts[d].file = source
  /\ Stamp([drafts EXCEPT ![d].state = "superseded"], [drafts[d] EXCEPT !.manual = TRUE])

CorrectRevision ==
  /\ exists /\ Current > 0
  /\ LET made == drafts[revisions[Current]] IN
       /\ made.file = source
       /\ Stamp(drafts, Draft(imports, source, Current, TRUE, TRUE))

Seal(d) ==
  /\ revisions' = Append(revisions, d)
  /\ drafts' = [drafts EXCEPT ![d].state = "sealed"]
  /\ fresh' = 0
  /\ UNCHANGED <<source, imports, parses, exists>>

(* POST /imports/{id}/confirm: seal_source, with a translation of it. *)
Fresh(d) == fresh = d

SealSource(d) ==
  /\ exists /\ Open(d) /\ drafts[d].blocks
  /\ drafts[d].file = source /\ Fresh(d)
  /\ drafts[d].base = 0 \/ drafts[d].base = Current
  /\ Seal(d)

(* POST /sources/drafts/{id}/confirm: only what a user has corrected. *)
ConfirmSource(d) ==
  /\ exists /\ Open(d) /\ drafts[d].blocks /\ drafts[d].manual
  /\ drafts[d].base = Current /\ drafts[d].file = source /\ Fresh(d)
  /\ Seal(d)

(* A changed title, tag or other attribute of the document. *)
DocumentChanges ==
  /\ exists /\ fresh # 0 /\ fresh' = 0
  /\ UNCHANGED <<source, imports, parses, drafts, revisions, exists>>

DeleteDocument ==
  /\ exists /\ exists' = FALSE /\ fresh' = 0
  /\ parses' = [j \in Parses |-> IF Live(j) THEN [parses[j] EXCEPT !.at = "cancelled"] ELSE parses[j]]
  /\ UNCHANGED <<source, imports, drafts, revisions>>

Init ==
  /\ source \in Files /\ imports = 1 /\ fresh = 0 /\ exists = TRUE
  /\ parses = <<>> /\ drafts = <<>> /\ revisions = <<>>

Next ==
  \/ \E workflow \in BOOLEAN : RequestParse(workflow) \/ \E f \in Files : ReplaceSource(f, workflow)
  \/ \E j \in Parses : ParseEnds(j) \/ \E blocks \in BOOLEAN : ParserDelivers(j, blocks)
  \/ \E d \in Drafts : CorrectPreflight(d) \/ SealSource(d) \/ ConfirmSource(d)
  \/ CorrectRevision \/ DocumentChanges \/ DeleteDocument

Spec == Init /\ [][Next]_sourceVars

--------------------------------------------------------------------------------
(* Every row refers to rows that exist. *)
TypeOK ==
  /\ source \in Files /\ imports \in 1 .. MaxImports /\ fresh \in 0 .. Len(drafts)
  /\ \A j \in Parses : parses[j].base <= Current /\ parses[j].import <= imports
  /\ \A d \in Drafts : drafts[d].state \in {"open", "superseded", "sealed"} /\ drafts[d].file \in Files
  /\ \A r \in DOMAIN revisions : revisions[r] \in Drafts

(* Whatever becomes the current source comes from the PDF imported last,   *)
(* also when the same file was imported before, and a draft of an older    *)
(* import is never sealed, however it was corrected, confirmed or parsed   *)
(* meanwhile (api/library.py:235).                                         *)
SourceComesFromLastImport ==
  [][revisions' # revisions =>
       LET draft == drafts'[revisions'[Len(revisions')]]
       IN  draft.import = imports /\ draft.file = source]_sourceVars
================================================================================
