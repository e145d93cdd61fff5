--------------------------------- MODULE Content ---------------------------------
(***************************************************************************)
(* One instance each of the components through which a document's content  *)
(* passes: uploads, the parser's file protocol, source drafts, metadata    *)
(* lookups and the editing of a translation.  They share no state, so an   *)
(* initial choice decides which of them runs, and one run of TLC checks    *)
(* all five.                                                               *)
(***************************************************************************)
EXTENDS Naturals, FiniteSets, Sequences

CONSTANTS
  Uploading, Size, Documents, Pieces, NoPiece,                  \* of Uploads
  MaxFence, MaxRestarts,                                        \* of ParserSpool
  Files, MaxImports, MaxParses, MaxDrafts,                      \* of SourceDrafts
  Assets, Docs, DOIs, NoDoi, Searchable, SameDoc, RetryLimit, MaxLookups,   \* of Metadata
  Blocks, Units, UnitBlock, Texts, NoText, Faulty, Glossary, Requested, MaxSeq, MaxWork   \* of Editorial

VARIABLES
  active,   \* the component that runs
  upStatus, chunks, stored, acked, lapsed, upFile, verified, assets, doc, docSource, docOlder,
  job, fence, worker, original, request, marker, cleanup, outputs, outcome, parser, at, child,
  runs, restarts,
  source, imports, fresh, parses, drafts, revisions, exists,
  selected, manual, metaGen, metaStatus, biblio, lookups, cached, metaSource, title, edited,
  segment, gen, report, reviewed, resolved, sourceMoved, planned, unit, cand, sem, sealed

--------------------------------------------------------------------------------
Upl == INSTANCE Uploads WITH Ups <- Uploading, Docs <- Documents
Spl == INSTANCE ParserSpool
Src == INSTANCE SourceDrafts
Met == INSTANCE Metadata WITH source <- metaSource
Edt == INSTANCE Editorial

ASSUME ContentAssumption ==
  /\ Upl!UploadsAssumption /\ Spl!ParserSpoolAssumption /\ Src!SourceDraftsAssumption
  /\ Met!MetadataAssumption /\ Edt!EditorialAssumption

--------------------------------------------------------------------------------
uploadVars == <<upStatus, chunks, stored, acked, lapsed, upFile, verified, assets, doc, docSource,
                docOlder>>
spoolVars == <<job, fence, worker, original, request, marker, cleanup, outputs, outcome, parser,
               at, child, runs, restarts>>
sourceVars == <<source, imports, fresh, parses, drafts, revisions, exists>>
metaVars == <<selected, manual, metaGen, metaStatus, biblio, lookups, cached, metaSource, title, edited>>
editVars == <<segment, gen, report, reviewed, resolved, sourceMoved, planned, unit, cand, sem, sealed>>
vars == <<active, uploadVars, spoolVars, sourceVars, metaVars, editVars>>

Init ==
  /\ active \in {"uploads", "spool", "sources", "metadata", "editorial"}
  /\ Upl!Init /\ Spl!Init /\ Src!Init /\ Met!Init /\ Edt!Init

Next ==
  /\ UNCHANGED active
  /\ \/ active = "uploads" /\ Upl!Next /\ UNCHANGED <<spoolVars, sourceVars, metaVars, editVars>>
     \/ active = "spool" /\ Spl!Next /\ UNCHANGED <<uploadVars, sourceVars, metaVars, editVars>>
     \/ active = "sources" /\ Src!Next /\ UNCHANGED <<uploadVars, spoolVars, metaVars, editVars>>
     \/ active = "metadata" /\ Met!Next /\ UNCHANGED <<uploadVars, spoolVars, sourceVars, editVars>>
     \/ active = "editorial" /\ Edt!Next /\ UNCHANGED <<uploadVars, spoolVars, sourceVars, metaVars>>

\* ParserSpool!Fairness, for the runs in which the parser takes steps.
Fairness == WF_spoolVars(active = "spool" /\ Spl!Parser)

Spec == Init /\ [][Next]_vars /\ Fairness

--------------------------------------------------------------------------------
(* With the first property of a component its type invariant is checked.   *)

(* api/library.py, privacy/__init__.py: uploaded bytes that were accepted  *)
(* are neither mixed up nor removed under a document; see Uploads.         *)
AcceptedBytesAreKept == Upl!TypeOK /\ Upl!AcceptedBytesAreKept

(* workers/parser/main.py: an attempt starts one child at most, and what   *)
(* was erased stays erased; see ParserSpool.                               *)
AttemptsAreFinal == [](Spl!TypeOK /\ Spl!ChildRunsOnce) /\ Spl!ErasedOutputStaysErased

(* editorial/source_sealing.py: no draft of an older import becomes the    *)
(* source; see SourceDrafts.                                               *)
SourceComesFromLastImport == []Src!TypeOK /\ Src!SourceComesFromLastImport

(* metadata/execution.py: bibliography and title are of the selected paper *)
(* and the present source; see Metadata.                                   *)
MetadataIsOfTheSource == Met!TypeOK /\ Met!MetadataIsOfTheSource

(* editorial/drafts.py: a revision lists the issues its texts have; see    *)
(* Editorial.                                                              *)
SealedTellsTheTruth == Edt!TypeOK /\ Edt!SealedTellsTheTruth

(* translation/execution.py, api/candidates.py: no machine overwrites a    *)
(* person's work; see Editorial.                                           *)
HumanWorkStands == Edt!HumanWorkStands

(* translation/execution.py: a block arrives with the last of its units;   *)
(* see Editorial.                                                          *)
TranslatedBlocksArrive == Edt!TranslatedBlocksArrive
================================================================================
