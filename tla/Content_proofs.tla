----------------------------- MODULE Content_proofs -----------------------------
(***************************************************************************)
(* Proofs about Content, for any uploads, documents, leases, papers, units *)
(* and bounds: uploads, the parser's file protocol and the way to a source,*)
(* then the bibliography that lookups write, and the texts that people and *)
(* machines write over each other.                                         *)
(*                                                                         *)
(* Each part first states what its property needs to be inductive, then    *)
(* shows that the operations of the component keep it, and ends with the   *)
(* theorem about the composition, whose other components leave the         *)
(* variables of this one alone.                                            *)
(***************************************************************************)
EXTENDS Content, FiniteSetTheorems, TLAPS

--------------------------------------------------------------------------------
(* Uploads.                                                                *)

UploadTypes ==
  /\ upStatus \in [Uploading -> {"none", "receiving", "inspecting", "verified", "expired", "deleted"}]
  /\ chunks \in [Uploading -> Seq(Pieces)]
  /\ DOMAIN stored = Uploading /\ DOMAIN acked = Uploading
  /\ DOMAIN upFile = Uploading /\ DOMAIN verified = Uploading
  /\ \A u \in Uploading : /\ stored[u] \in [Upl!Index(u) -> Pieces \cup {NoPiece}]
                          /\ acked[u] \in [Upl!Index(u) -> Pieces \cup {NoPiece}]
                          /\ Len(chunks[u]) <= Size[u]
  /\ doc \in [Documents -> {"none", "live", "deleted", "cleaned"}]
  /\ DOMAIN docSource = Documents /\ DOMAIN docOlder = Documents
  /\ lapsed \subseteq Uploading

\* What a client was told is in the rows, and a whole upload is what its rows say.
Accepted ==
  \A u \in Uploading :
    /\ \A i \in Upl!Index(u) :
         acked[u][i] # NoPiece => i <= Len(chunks[u]) /\ acked[u][i] = chunks[u][i]
    /\ upStatus[u] \in {"inspecting", "verified"} =>
         Len(chunks[u]) = Size[u] /\ \A i \in Upl!Index(u) : upFile[u][i] = chunks[u][i]

\* What can still be imported and what a document refers to is there.
Referenced ==
  /\ \A u \in Uploading : upStatus[u] = "verified" => verified[u] \in assets
  /\ \A d \in Documents :
       /\ doc[d] = "live" => docSource[d] \in assets /\ docOlder[d] \subseteq assets
       /\ doc[d] = "none" => docSource[d] = <<>> /\ docOlder[d] = {}

UploadsInv == UploadTypes /\ Accepted /\ Referenced

LEMMA UploadsInit == ContentAssumption /\ Upl!Init => UploadsInv
  BY DEF ContentAssumption, Upl!UploadsAssumption, Upl!Init, UploadsInv, UploadTypes, Accepted, Referenced,
         Upl!Index, Upl!NoPieces, Upl!NoFile

\* A step that leaves the rows, the files and the documents of uploads alone.
LEMMA PutChunkKeeps ==
  ASSUME ContentAssumption, UploadsInv, NEW u \in Uploading, NEW p \in Pieces,
         NEW commits \in BOOLEAN, NEW answered \in BOOLEAN, Upl!PutChunk(u, p, commits, answered)
  PROVE  UploadsInv'
<1> DEFINE n == Len(chunks[u]) + 1
<1> USE DEF UploadsInv, UploadTypes, Accepted
<1>1. n \in Upl!Index(u) /\ Size[u] \in Nat /\ upStatus[u] = "receiving" /\ chunks[u] \in Seq(Pieces)
  BY DEF Upl!PutChunk, Upl!UploadsAssumption, ContentAssumption
<1>2. stored' = [stored EXCEPT ![u][n] = p] /\ UNCHANGED <<upStatus, lapsed, upFile, verified, assets, doc, docSource, docOlder>>
  BY DEF Upl!PutChunk, Upl!fileVars
<1>2a. /\ Append(chunks[u], p) \in Seq(Pieces) /\ Len(Append(chunks[u], p)) = n
       /\ Append(chunks[u], p)[n] = p /\ \A i \in 1 .. Len(chunks[u]) : Append(chunks[u], p)[i] = chunks[u][i]
       /\ n \in 1 .. Size[u]
  BY <1>1 DEF Upl!Index
<1>3. chunks' = chunks \/ chunks' = [chunks EXCEPT ![u] = Append(chunks[u], p)]
  BY DEF Upl!PutChunk
<1>4. acked' = acked \/ (acked' = [acked EXCEPT ![u] = [acked[u] EXCEPT ![n] = p]] /\ chunks' = [chunks EXCEPT ![u] = Append(chunks[u], p)])
  BY <1>1 DEF Upl!PutChunk, Upl!Tell
<1> HIDE DEF n
<1>5. UploadTypes'
  <2>1. \A v \in Uploading : stored'[v] \in [Upl!Index(v) -> Pieces \cup {NoPiece}] 
    BY <1>1, <1>2 DEF Upl!Index
  <2>2. /\ DOMAIN acked' = Uploading
        /\ \A v \in Uploading : acked'[v] \in [Upl!Index(v) -> Pieces \cup {NoPiece}] 
    <3>1. [acked[u] EXCEPT ![n] = p] \in [Upl!Index(u) -> Pieces \cup {NoPiece}]
      BY <1>1
    <3> QED BY <1>4, <3>1
  <2>3. chunks' \in [Uploading -> Seq(Pieces)] /\ \A v \in Uploading : Len(chunks'[v]) <= Size[v]
    <3>1. chunks' \in [Uploading -> Seq(Pieces)]
      BY <1>2a, <1>3
    <3>2. ASSUME NEW v \in Uploading PROVE Len(chunks'[v]) <= Size[v]
      BY <1>2a, <1>3
    <3> QED BY <3>1, <3>2
  <2> QED BY <1>2, <2>1, <2>2, <2>3 DEF Upl!Index
<1>6. Accepted'
  <2> SUFFICES ASSUME NEW v \in Uploading, NEW i \in Upl!Index(v)
               PROVE  /\ acked'[v][i] # NoPiece => i <= Len(chunks'[v]) /\ acked'[v][i] = chunks'[v][i]
                      /\ upStatus[v] \in {"inspecting", "verified"} => upFile[v][i] = chunks'[v][i]
                      /\ upStatus[v] \in {"inspecting", "verified"} => Len(chunks'[v]) = Size[v]
    BY <1>1, <1>2, <1>3, <1>2a DEF Upl!Index
  <2>1. CASE v # u
    BY <1>1, <1>2, <1>3, <1>4, <2>1
  <2>2. CASE v = u
    BY <1>1, <1>2, <1>2a, <1>3, <1>4, <2>2 DEF Upl!Index
  <2> QED BY <2>1, <2>2
<1>7. Referenced'
  BY <1>2 DEF Referenced
<1> QED BY <1>5, <1>6, <1>7

LEMMA RepeatChunkKeeps ==
  ASSUME ContentAssumption, UploadsInv, NEW u \in Uploading, NEW p \in Pieces,
         NEW i \in Upl!Index(u), Upl!RepeatChunk(u, i, p)
  PROVE  UploadsInv'
<1> USE DEF UploadsInv, UploadTypes, Accepted
<1>1. /\ i <= Len(chunks[u]) /\ chunks[u][i] = p /\ acked' = [acked EXCEPT ![u][i] = p]
      /\ UNCHANGED <<upStatus, chunks, stored, lapsed, upFile, verified, assets, doc, docSource, docOlder>>
  BY DEF Upl!RepeatChunk, Upl!Repeat, Upl!Tell, Upl!fileVars
<1>2. UploadTypes'
  BY <1>1 DEF Upl!Index
<1>3. Accepted'
  BY <1>1 DEF Upl!Index
<1>4. Referenced'
  BY <1>1 DEF Referenced
<1> QED BY <1>2, <1>3, <1>4

\* The steps of one upload that write no chunk.
LEMMA UploadMoves ==
  ASSUME ContentAssumption, UploadsInv, NEW u \in Uploading,
         Upl!CreateUpload(u) \/ Upl!Finalize(u) \/ Upl!Inspected(u) \/ Upl!Lapse(u) \/ Upl!Expire(u)
  PROVE  UploadsInv'
<1> USE DEF UploadsInv, UploadTypes, Accepted, Referenced, Upl!fileVars, Upl!docVars
<1>1. CASE Upl!CreateUpload(u)
  BY <1>1 DEF Upl!CreateUpload, Upl!Index
<1>2. CASE Upl!Finalize(u)
  BY <1>2 DEF Upl!Finalize, Upl!Index
<1>3. CASE Upl!Inspected(u)
  BY <1>3 DEF Upl!Inspected, Upl!Index
<1>4. CASE Upl!Lapse(u)
  BY <1>4 DEF Upl!Lapse, Upl!Index
<1>5. CASE Upl!Expire(u)
  BY <1>5 DEF Upl!Expire, Upl!Index, Upl!NoPieces
<1> QED BY <1>1, <1>2, <1>3, <1>4, <1>5

LEMMA ImportKeeps ==
  ASSUME UploadsInv, NEW u \in Uploading, NEW d \in Documents, NEW older \in BOOLEAN, Upl!Import(u, d, older)
  PROVE  UploadsInv'
<1>1. /\ upStatus[u] = "verified" /\ doc[d] \in {"none", "live"}
      /\ doc' = [doc EXCEPT ![d] = "live"] /\ docSource' = [docSource EXCEPT ![d] = verified[u]]
      /\ docOlder' \in {docOlder, [docOlder EXCEPT ![d] = @ \cup ({docSource[d]} \ {<<>>})]}
      /\ UNCHANGED <<upStatus, chunks, stored, acked, lapsed, upFile, verified, assets>>
  BY DEF Upl!Import, Upl!NoFile
<1>2. UploadTypes' /\ Accepted'
  BY <1>1 DEF UploadsInv, UploadTypes, Accepted, Upl!Index
<1>3. Referenced'
  <2> SUFFICES ASSUME NEW e \in Documents
               PROVE  /\ doc'[e] = "live" => docSource'[e] \in assets /\ docOlder'[e] \subseteq assets
                      /\ doc'[e] = "none" => docSource'[e] = <<>> /\ docOlder'[e] = {}
    BY <1>1 DEF UploadsInv, Referenced
  <2>1. CASE e # d
    BY <1>1, <2>1 DEF UploadsInv, UploadTypes, Referenced
  <2>2. CASE e = d
    BY <1>1, <2>2 DEF UploadsInv, UploadTypes, Referenced
  <2> QED BY <2>1, <2>2
<1> QED BY <1>2, <1>3 DEF UploadsInv

LEMMA DeleteKeeps ==
  ASSUME UploadsInv, NEW d \in Documents, Upl!DeleteDocument(d)
  PROVE  UploadsInv'
  BY DEF Upl!DeleteDocument, UploadsInv, UploadTypes, Accepted, Referenced, Upl!Index

\* A file that goes with document d is the source or an older file of no other one.
LEMMA UnusedFiles ==
  ASSUME NEW d \in Documents, NEW e \in Documents, e # d
  PROVE  docSource[e] \notin Upl!Unused(d) /\ \A f \in docOlder[e] : f \notin Upl!Unused(d)
  BY DEF Upl!Unused, Upl!Uses

LEMMA CleanupKeeps ==
  ASSUME ContentAssumption, UploadsInv, NEW d \in Documents, Upl!Cleanup(d)
  PROVE  UploadsInv'
<1> DEFINE over == {u \in Uploading : verified[u] \in Upl!Unused(d)}
<1>1. /\ doc[d] = "deleted" /\ doc' = [doc EXCEPT ![d] = "cleaned"]
      /\ docSource' = [docSource EXCEPT ![d] = <<>>] /\ docOlder' = [docOlder EXCEPT ![d] = {}]
      /\ assets' = assets \ Upl!Unused(d) /\ lapsed' = lapsed
      /\ upStatus' = [u \in Uploading |-> IF u \in over THEN "deleted" ELSE upStatus[u]]
      /\ chunks' = [u \in Uploading |-> IF u \in over THEN <<>> ELSE chunks[u]]
      /\ stored' = [u \in Uploading |-> IF u \in over THEN Upl!NoPieces(u) ELSE stored[u]]
      /\ verified' = [u \in Uploading |-> IF u \in over THEN <<>> ELSE verified[u]]
      /\ upFile' = [u \in Uploading |-> IF u \in over THEN <<>> ELSE upFile[u]]
      /\ acked' = [u \in Uploading |-> IF u \in over THEN Upl!NoPieces(u) ELSE acked[u]]
  BY DEF Upl!Cleanup, Upl!NoFile
<1>2. UploadTypes' /\ Accepted'
  <2> HIDE DEF over
  <2>1. \A u \in Uploading : Size[u] \in Nat
    BY DEF ContentAssumption, Upl!UploadsAssumption
  <2> QED BY <1>1, <2>1 DEF UploadsInv, UploadTypes, Accepted, Upl!Index, Upl!NoPieces
<1>3. Referenced'
  BY <1>1, UnusedFiles DEF UploadsInv, UploadTypes, Referenced
<1> QED BY <1>2, <1>3 DEF UploadsInv

LEMMA UploadsStep == ContentAssumption /\ UploadsInv /\ [Upl!Next]_uploadVars => UploadsInv'
<1> SUFFICES ASSUME ContentAssumption, UploadsInv, [Upl!Next]_uploadVars PROVE UploadsInv'
  OBVIOUS
<1>1. CASE Upl!Next
  BY <1>1, PutChunkKeeps, RepeatChunkKeeps, UploadMoves, ImportKeeps, DeleteKeeps, CleanupKeeps DEF Upl!Next
<1>2. CASE UNCHANGED uploadVars
  BY <1>2 DEF uploadVars, UploadsInv, UploadTypes, Accepted, Referenced, Upl!Index
<1> QED BY <1>1, <1>2

LEMMA UploadsAccepted == UploadsInv => AcceptedBytesAreKept
  BY DEF UploadsInv, UploadTypes, Accepted, Referenced, AcceptedBytesAreKept, Upl!TypeOK,
         Upl!AcceptedBytesAreKept, Upl!Index

(* The bytes that api/library.py accepted are neither mixed up nor removed *)
(* under a document, for any uploads, sizes, documents and contents.       *)
THEOREM BytesKept == Spec => []AcceptedBytesAreKept
<1>1. Init => UploadsInv
  BY UploadsInit, ContentAssumption DEF Init
<1>2. UploadsInv /\ [Next]_vars => UploadsInv'
  <2>1. [Next]_vars => [Upl!Next]_uploadVars
    BY DEF Next, vars, uploadVars
  <2> QED BY <2>1, UploadsStep, ContentAssumption
<1> QED BY <1>1, <1>2, UploadsAccepted, PTL DEF Spec

--------------------------------------------------------------------------------
(* The parser's file protocol.                                             *)

SpoolTypes == Spl!TypeOK /\ runs \in [Spl!Fences -> Nat] /\ marker \in BOOLEAN

\* A lease whose thread has written its request, now or before it ended.
Asked(f) == worker[f] \notin {"none", "described", "copied"}

\* Leases are given in order, and the parser works only for one that asked.
SpoolLeases ==
  /\ \A f \in Spl!Fences : f > fence => worker[f] = "none"
  /\ \A f \in request : Asked(f)
  /\ parser # "idle" => Asked(at)

\* After the erasure the original of the attempt in hand is gone for good.
SpoolErasure ==
  /\ marker <=> cleanup \in {"marked", "erased"}
  /\ cleanup = "erased" /\ parser # "idle" => at \notin original

\* An attempt that has run says so on disk, unless the task is marked.
SpoolRuns ==
  /\ \A f \in Spl!Fences : runs[f] = 0 \/ (runs[f] = 1 /\ ("started" \in outputs[f] \/ marker))
  /\ parser = "picked" /\ runs[at] # 0 => "started" \in outputs[at] \/ cleanup = "erased"
  /\ parser = "started" => /\ "started" \in outputs[at] \/ marker
                           /\ at \in original => runs[at] = 0

SpoolInv == SpoolTypes /\ SpoolLeases /\ SpoolErasure /\ SpoolRuns

LEMMA SpoolInit == ContentAssumption /\ Spl!Init => SpoolInv
<1> SUFFICES ASSUME ContentAssumption, Spl!Init PROVE SpoolInv
  OBVIOUS
<1>1. 1 \in Spl!Fences /\ MaxFence \in Nat /\ \A f \in Spl!Fences : f \in Nat
  BY DEF ContentAssumption, Spl!ParserSpoolAssumption, Spl!Fences
<1>2. SpoolTypes
  <2>1. /\ worker \in [Spl!Fences -> {"none", "described", "copied", "polling", "verified", "out"}]
        /\ outputs \in [Spl!Fences -> SUBSET {"started", "payload", "error", "result"}]
        /\ outcome \in [Spl!Fences -> {"none", "succeeded", "failed", "interrupted"}]
        /\ runs \in [Spl!Fences -> Nat]
    BY DEF Spl!Init, Spl!Nothing
  <2>2. at \in Spl!Fences /\ fence \in 0 .. MaxFence
    BY <1>1 DEF Spl!Init
  <2> QED BY <2>1, <2>2 DEF Spl!Init, SpoolTypes, Spl!TypeOK
<1>3. SpoolLeases /\ SpoolErasure
  BY DEF Spl!Init, SpoolLeases, SpoolErasure, Asked
<1>4. SpoolRuns
  BY DEF Spl!Init, SpoolRuns
<1> QED BY <1>2, <1>3, <1>4 DEF SpoolInv

LEMMA WorkerSteps ==
  ASSUME ContentAssumption, SpoolInv, NEW f \in Spl!Fences,
         Spl!CopyOriginal(f) \/ Spl!WriteRequest(f) \/ Spl!WorkerGivesUp(f) \/ Spl!Verify(f) \/ Spl!Commit(f)
  PROVE  SpoolInv'
<1> USE DEF SpoolInv, SpoolTypes, Spl!TypeOK, SpoolLeases, SpoolErasure, SpoolRuns, Asked, Spl!WorkerStep,
            Spl!parserVars, Spl!inputVars
<1>1. CASE Spl!CopyOriginal(f)
  BY <1>1 DEF Spl!CopyOriginal
<1>2. CASE Spl!WriteRequest(f)
  BY <1>2 DEF Spl!WriteRequest
<1>3. CASE Spl!WorkerGivesUp(f)
  BY <1>3 DEF Spl!WorkerGivesUp
<1>4. CASE Spl!Verify(f)
  BY <1>4 DEF Spl!Verify
<1>5. CASE Spl!Commit(f)
  BY <1>5 DEF Spl!Commit
<1> QED BY <1>1, <1>2, <1>3, <1>4, <1>5

LEMMA LeaseSteps ==
  ASSUME ContentAssumption, SpoolInv,
         Spl!Claim \/ Spl!LeaseLost \/ Spl!CancelJob \/ Spl!MarkErased \/ Spl!EraseTask
  PROVE  SpoolInv'
<1>0. MaxFence \in Nat \ {0}
  BY DEF ContentAssumption, Spl!ParserSpoolAssumption
<1> USE DEF SpoolInv, SpoolTypes, Spl!TypeOK, SpoolLeases, SpoolErasure, SpoolRuns, Asked,
            Spl!parserVars, Spl!inputVars, Spl!leaseVars
<1>1. CASE Spl!Claim
  BY <1>0, <1>1 DEF Spl!Claim, Spl!Fences
<1>2. CASE Spl!LeaseLost
  BY <1>0, <1>2 DEF Spl!LeaseLost, Spl!Fences
<1>3. CASE Spl!CancelJob
  BY <1>3 DEF Spl!CancelJob
<1>4. CASE Spl!MarkErased
  BY <1>4 DEF Spl!MarkErased
<1>5. CASE Spl!EraseTask
  BY <1>5 DEF Spl!EraseTask, Spl!Nothing
<1> QED BY <1>1, <1>2, <1>3, <1>4, <1>5

LEMMA ParserSteps ==
  ASSUME ContentAssumption, SpoolInv, Spl!Parser
  PROVE  SpoolInv'
<1> USE DEF SpoolInv, SpoolTypes, Spl!TypeOK, SpoolLeases, SpoolErasure, SpoolRuns, Asked,
            Spl!inputVars, Spl!leaseVars, Spl!ParserStep
<1>1. CASE Spl!SweepCancelled
  BY <1>1 DEF Spl!SweepCancelled, Spl!Sweep, Spl!Remove, Spl!Nothing
<1>2. ASSUME NEW f \in Spl!Fences, Spl!Pick(f) PROVE SpoolInv'
  BY <1>2 DEF Spl!Pick
<1>3. CASE Spl!StartAttempt
  BY <1>3 DEF Spl!StartAttempt, Spl!Started
<1>4. CASE Spl!Interrupted
  BY <1>4 DEF Spl!Interrupted, Spl!Finish
<1>5. CASE Spl!Refuse
  BY <1>5 DEF Spl!Refuse, Spl!Finish
<1>6. CASE Spl!Skip
  BY <1>6 DEF Spl!Skip
<1>7. CASE Spl!Launch
  BY <1>7 DEF Spl!Launch
<1>8. CASE Spl!ChildDone
  BY <1>8 DEF Spl!ChildDone
<1>9. CASE Spl!TimedOut
  BY <1>9 DEF Spl!TimedOut
<1>10. CASE Spl!WriteResult
  BY <1>10 DEF Spl!WriteResult, Spl!Finish
<1>11. CASE Spl!PassEnds
  BY <1>11 DEF Spl!PassEnds
<1>12. ASSUME NEW from \in {"running", "answered"}, Spl!ErasedByParser(from) PROVE SpoolInv'
  BY <1>12 DEF Spl!ErasedByParser, Spl!Remove, Spl!Nothing
<1> QED BY <1>1, <1>2, <1>3, <1>4, <1>5, <1>6, <1>7, <1>8, <1>9, <1>10, <1>11, <1>12 DEF Spl!Parser

LEMMA ChildSteps ==
  ASSUME ContentAssumption, SpoolInv,
         Spl!Restart \/ \E file \in {"payload", "error", "broken"} : Spl!ChildEnds(file)
  PROVE  SpoolInv'
<1> USE DEF SpoolInv, SpoolTypes, Spl!TypeOK, SpoolLeases, SpoolErasure, SpoolRuns, Asked,
            Spl!inputVars, Spl!leaseVars
<1>1. CASE Spl!Restart
  BY <1>1 DEF Spl!Restart
<1>2. ASSUME NEW file \in {"payload", "error", "broken"}, Spl!ChildEnds(file) PROVE SpoolInv'
  BY <1>2 DEF Spl!ChildEnds
<1> QED BY <1>1, <1>2

LEMMA SpoolStep == ContentAssumption /\ SpoolInv /\ [Spl!Next]_spoolVars => SpoolInv'
<1> SUFFICES ASSUME ContentAssumption, SpoolInv, [Spl!Next]_spoolVars PROVE SpoolInv'
  OBVIOUS
<1>1. CASE Spl!Next
  BY <1>1, WorkerSteps, LeaseSteps, ParserSteps, ChildSteps DEF Spl!Next
<1>2. CASE UNCHANGED spoolVars
  BY <1>2 DEF spoolVars, SpoolInv, SpoolTypes, Spl!TypeOK, SpoolLeases, SpoolErasure, SpoolRuns, Asked
<1> QED BY <1>1, <1>2

(* Whatever dies, is restarted or erased, an attempt of a parse task       *)
(* starts one child at most (workers/parser/main.py), for any number of    *)
(* leases and restarts.                                                    *)
THEOREM ParserChildRunsOnce == Spec => [](Spl!TypeOK /\ Spl!ChildRunsOnce)
<1>1. Init => SpoolInv
  BY SpoolInit, ContentAssumption DEF Init
<1>2. SpoolInv /\ [Next]_vars => SpoolInv'
  <2>1. [Next]_vars => [Spl!Next]_spoolVars
    BY DEF Next, vars, spoolVars
  <2> QED BY <2>1, SpoolStep, ContentAssumption
<1>3. SpoolInv => Spl!TypeOK /\ Spl!ChildRunsOnce
  BY DEF SpoolInv, SpoolTypes, SpoolRuns, Spl!ChildRunsOnce
<1> QED BY <1>1, <1>2, <1>3, PTL DEF Spec

--------------------------------------------------------------------------------
(* The way to a source.                                                    *)

ParseRow == [at : {"pending", "running", "ended", "done", "cancelled"}, file : Files,
             import : 1 .. MaxImports, base : Nat, auto : BOOLEAN]
DraftRow == [state : {"open", "superseded", "sealed"}, import : 1 .. MaxImports, file : Files,
             base : Nat, manual : BOOLEAN, blocks : BOOLEAN]

SourceTypes ==
  /\ source \in Files /\ imports \in 1 .. MaxImports /\ fresh \in 0 .. Len(drafts)
  /\ parses \in Seq(ParseRow) /\ drafts \in Seq(DraftRow) /\ revisions \in Seq(Nat)
  /\ \A j \in DOMAIN parses : parses[j].base <= Len(revisions) /\ parses[j].import <= imports
  /\ \A r \in DOMAIN revisions : revisions[r] \in DOMAIN drafts

\* Whatever may still become the source is of the last import.
OfLastImport(row) == row.import = imports /\ row.file = source
SourcesCurrent ==
  /\ \A j \in DOMAIN parses : Src!Live(j) => OfLastImport(parses[j])
  /\ \A d \in DOMAIN drafts : Src!Open(d) => OfLastImport(drafts[d])

SourceInv == SourceTypes /\ SourcesCurrent

LEMMA SeqOfFunction ==
  ASSUME NEW S, NEW n \in Nat, NEW f \in [1 .. n -> S]
  PROVE  f \in Seq(S) /\ Len(f) = n
  OBVIOUS

LEMMA AppendRow ==
  ASSUME NEW S, NEW s \in Seq(S), NEW r \in S
  PROVE  /\ Append(s, r) \in Seq(S) /\ Len(Append(s, r)) = Len(s) + 1 /\ Len(s) \in Nat
         /\ DOMAIN s = 1 .. Len(s) /\ DOMAIN Append(s, r) = 1 .. Len(s) + 1
         /\ \A i \in DOMAIN s : Append(s, r)[i] = s[i] /\ s[i] \in S
         /\ Append(s, r)[Len(s) + 1] = r
  OBVIOUS

LEMMA MapRows ==
  ASSUME NEW S, NEW s \in Seq(S), NEW t, t = [i \in DOMAIN s |-> t[i]], \A i \in DOMAIN s : t[i] \in S
  PROVE  t \in Seq(S) /\ Len(t) = Len(s) /\ DOMAIN t = DOMAIN s
  OBVIOUS

LEMMA SourceInit == ContentAssumption /\ Src!Init => SourceInv
  BY DEF ContentAssumption, Src!SourceDraftsAssumption, Src!Init, SourceInv, SourceTypes, SourcesCurrent

LEMMA RowsOfSeq ==
  ASSUME NEW S, NEW s \in Seq(S)
  PROVE  \A i \in DOMAIN s : s[i] \in S
  OBVIOUS

LEMMA DraftChanged ==
  ASSUME NEW r \in DraftRow, NEW t,
         t \in {r, [r EXCEPT !.manual = TRUE], [r EXCEPT !.state = "superseded"], [r EXCEPT !.state = "sealed"]}
  PROVE  /\ t \in DraftRow /\ t.import = r.import /\ t.file = r.file
         /\ t.state = "open" => r.state = "open"
  BY DEF DraftRow

LEMMA ParseChanged ==
  ASSUME NEW r \in ParseRow, NEW t,
         t = r \/ \E s \in {"ended", "cancelled", "done"} : t = [r EXCEPT !.at = s]
  PROVE  /\ t \in ParseRow /\ t.import = r.import /\ t.file = r.file /\ t.base = r.base
         /\ t.at \in {"pending", "running"} => t = r
         /\ t.base \in Nat /\ t.import \in Nat
  BY DEF ParseRow

\* Steps that change single rows keep the invariant if what they leave alive is of the last import.
LEMMA RowsKept ==
  ASSUME SourceInv, UNCHANGED <<source, imports, revisions>>,
         drafts' = [d \in DOMAIN drafts |-> drafts'[d]], parses' = [j \in DOMAIN parses |-> parses'[j]],
         fresh' \in {0, fresh},
         \A d \in DOMAIN drafts : drafts'[d] \in {drafts[d], [drafts[d] EXCEPT !.state = "superseded"],
                                               [drafts[d] EXCEPT !.state = "sealed"]},
         \A j \in DOMAIN parses : parses'[j] = parses[j] \/ \E s \in {"ended", "cancelled", "done"} :
                                                             parses'[j] = [parses[j] EXCEPT !.at = s]
  PROVE  SourceInv'
<1> USE DEF SourceInv, SourceTypes
<1>1. ASSUME NEW d \in DOMAIN drafts
      PROVE  /\ drafts'[d] \in DraftRow
             /\ drafts'[d].state = "open" => drafts[d].state = "open"
             /\ drafts'[d].import = drafts[d].import /\ drafts'[d].file = drafts[d].file
  <2>1. drafts[d] \in DraftRow
    BY RowsOfSeq
  <2> QED BY <2>1, DraftChanged
<1>2. ASSUME NEW j \in DOMAIN parses
      PROVE  /\ parses'[j] \in ParseRow /\ parses'[j].base = parses[j].base /\ parses'[j].import = parses[j].import
             /\ parses'[j].at \in {"pending", "running"} => parses'[j] = parses[j]
  BY RowsOfSeq, ParseChanged
<1>3. drafts' \in Seq(DraftRow) /\ Len(drafts') = Len(drafts) /\ DOMAIN drafts' = DOMAIN drafts
  BY <1>1, MapRows
<1>4. parses' \in Seq(ParseRow) /\ Len(parses') = Len(parses) /\ DOMAIN parses' = DOMAIN parses
  BY <1>2, MapRows
<1>5. SourceTypes'
  <2>1. fresh' \in 0 .. Len(drafts')
    BY <1>3
  <2>2. \A j \in DOMAIN parses' : parses'[j].base <= Len(revisions') /\ parses'[j].import <= imports'
    BY <1>2, <1>4
  <2> QED BY <1>3, <1>4, <2>1, <2>2
<1>6. SourcesCurrent'
  <2>1. ASSUME NEW j \in DOMAIN parses, parses'[j].at \in {"pending", "running"}
        PROVE  parses'[j].import = imports' /\ parses'[j].file = source'
    BY <1>2, <2>1 DEF SourcesCurrent, OfLastImport, Src!Live
  <2>2. ASSUME NEW d \in DOMAIN drafts, drafts'[d].state = "open"
        PROVE  drafts'[d].import = imports' /\ drafts'[d].file = source'
    BY <1>1, <2>2 DEF SourcesCurrent, OfLastImport, Src!Open
  <2> QED BY <1>3, <1>4, <2>1, <2>2 DEF SourcesCurrent, OfLastImport, Src!Live, Src!Open
<1> QED BY <1>5, <1>6

LEMMA EndingsKeep ==
  ASSUME SourceInv, Src!DocumentChanges \/ Src!DeleteDocument \/ \E j \in DOMAIN parses : Src!ParseEnds(j)
  PROVE  SourceInv'
<1>1. CASE Src!DocumentChanges
  BY <1>1, RowsKept DEF Src!DocumentChanges, SourceInv, SourceTypes
<1>2. CASE Src!DeleteDocument
  <2>1. /\ drafts' = drafts /\ fresh' = 0 /\ UNCHANGED <<source, imports, revisions>>
        /\ parses' = [j \in DOMAIN parses |-> IF Src!Live(j) THEN [parses[j] EXCEPT !.at = "cancelled"] ELSE parses[j]]
    BY <1>2 DEF Src!DeleteDocument, Src!Parses
  <2>2. /\ drafts' = [d \in DOMAIN drafts |-> drafts'[d]] /\ parses' = [j \in DOMAIN parses |-> parses'[j]]
        /\ \A j \in DOMAIN parses : parses'[j] = parses[j] \/ parses'[j] = [parses[j] EXCEPT !.at = "cancelled"]
    BY <2>1 DEF SourceInv, SourceTypes
  <2> QED BY <2>1, <2>2, RowsKept
<1>3. ASSUME NEW j \in DOMAIN parses, Src!ParseEnds(j) PROVE SourceInv'
  <2>1. /\ UNCHANGED <<source, imports, revisions, drafts, fresh>>
        /\ parses' = [parses EXCEPT ![j].at = "ended"]
    BY <1>3 DEF Src!ParseEnds
  <2>2. /\ drafts' = [d \in DOMAIN drafts |-> drafts'[d]] /\ parses' = [i \in DOMAIN parses |-> parses'[i]]
        /\ \A i \in DOMAIN parses : parses'[i] = parses[i] \/ parses'[i] = [parses[i] EXCEPT !.at = "ended"]
    <3>1. parses' = [i \in DOMAIN parses |-> IF i = j THEN [parses[j] EXCEPT !.at = "ended"] ELSE parses[i]]
      BY <2>1
    <3>2. drafts' = [d \in DOMAIN drafts |-> drafts'[d]]
      BY <2>1 DEF SourceInv, SourceTypes
    <3> QED BY <3>1, <3>2
  <2> QED BY <2>1, <2>2, RowsKept
<1> QED BY <1>1, <1>2, <1>3

LEMMA ReplaceKeeps ==
  ASSUME ContentAssumption, SourceInv, NEW f \in Files, NEW w \in BOOLEAN, Src!ReplaceSource(f, w)
  PROVE  SourceInv'
<1> DEFINE stopped == [j \in DOMAIN parses |-> IF Src!Live(j) THEN [parses[j] EXCEPT !.at = "cancelled"] ELSE parses[j]]
           rows == [d \in DOMAIN drafts |-> Src!Superseded(d)]
           asked == [at |-> "pending", file |-> f, import |-> imports + 1, base |-> Len(revisions), auto |-> TRUE]
<1> USE DEF SourceInv, SourceTypes
<1>1. /\ source' = f /\ imports' = imports + 1 /\ fresh' = 0 /\ drafts' = rows /\ UNCHANGED revisions
      /\ imports < MaxImports
      /\ parses' = stopped \/ parses' = Append(stopped, asked)
  BY DEF Src!ReplaceSource, Src!Parses, Src!Drafts, Src!Parse, Src!Current
<1>2. imports + 1 \in 1 .. MaxImports /\ MaxImports \in Nat
  BY <1>1 DEF ContentAssumption, Src!SourceDraftsAssumption
<1>3. ASSUME NEW d \in DOMAIN drafts PROVE rows[d] \in DraftRow /\ rows[d].state # "open"
  <2>1. drafts[d] \in DraftRow
    BY RowsOfSeq
  <2> QED BY <2>1 DEF DraftRow, Src!Superseded, Src!Open
<1>4. ASSUME NEW j \in DOMAIN parses
      PROVE  /\ stopped[j] \in ParseRow /\ stopped[j].at \notin {"pending", "running"}
             /\ stopped[j].base = parses[j].base /\ stopped[j].import = parses[j].import
  <2>1. parses[j] \in ParseRow
    BY RowsOfSeq
  <2> QED BY <2>1 DEF ParseRow, Src!Live
<1>5. rows \in Seq(DraftRow) /\ Len(rows) = Len(drafts) /\ DOMAIN rows = DOMAIN drafts
  <2>1. rows = [d \in DOMAIN drafts |-> rows[d]]
    OBVIOUS
  <2> HIDE DEF rows
  <2> QED BY <1>3, <2>1, MapRows
<1>6. stopped \in Seq(ParseRow) /\ Len(stopped) = Len(parses) /\ DOMAIN stopped = DOMAIN parses
  <2>1. stopped = [j \in DOMAIN parses |-> stopped[j]]
    OBVIOUS
  <2> HIDE DEF stopped
  <2> QED BY <1>4, <2>1, MapRows
<1>7. asked \in ParseRow
  BY <1>2 DEF ParseRow
<1> HIDE DEF stopped, rows
<1>8. CASE parses' = stopped
  <2>1. \A j \in DOMAIN parses' : parses'[j].base <= Len(revisions') /\ parses'[j].import <= imports'
    <3> SUFFICES ASSUME NEW j \in DOMAIN parses PROVE stopped[j].base <= Len(revisions) /\ stopped[j].import <= imports + 1
      BY <1>1, <1>6, <1>8
    <3>1. stopped[j].import = parses[j].import /\ parses[j] \in ParseRow
      BY <1>4, RowsOfSeq
    <3>2. parses[j].import \in Nat
      BY <3>1 DEF ParseRow
    <3> QED BY <1>4, <3>1, <3>2
  <2>1a. SourceTypes'
    BY <1>1, <1>2, <1>5, <1>6, <1>8, <2>1
  <2>2. SourcesCurrent'
    BY <1>1, <1>3, <1>4, <1>5, <1>6, <1>8 DEF SourcesCurrent, Src!Live, Src!Open
  <2> QED BY <2>1a, <2>2
<1>9. CASE parses' = Append(stopped, asked)
  <2>1. /\ parses' \in Seq(ParseRow) /\ DOMAIN parses' = 1 .. Len(parses) + 1
        /\ \A j \in DOMAIN parses : parses'[j] = stopped[j]
        /\ parses'[Len(parses) + 1] = asked
    BY <1>6, <1>7, <1>9, AppendRow
  <2>2. DOMAIN parses = 1 .. Len(parses) /\ Len(parses) \in Nat
    OBVIOUS
  <2>3. \A j \in DOMAIN parses' : j \in DOMAIN parses \/ j = Len(parses) + 1
    BY <2>1, <2>2
  <2> HIDE DEF asked
  <2>4. asked.base = Len(revisions) /\ asked.import = imports' /\ asked.file = source'
    BY <1>1 DEF asked
  <2>4a. ASSUME NEW j \in DOMAIN parses' PROVE parses'[j].base <= Len(revisions') /\ parses'[j].import <= imports'
    <3>1. CASE j \in DOMAIN parses
      <4>1. parses'[j].import = parses[j].import /\ parses'[j].base = parses[j].base /\ parses[j] \in ParseRow
        BY <1>4, <2>1, <3>1, RowsOfSeq
      <4>2. parses[j].import \in Nat
        BY <4>1 DEF ParseRow
      <4> QED BY <1>1, <3>1, <4>1, <4>2
    <3>2. CASE parses'[j] = asked
      BY <1>1, <1>2, <2>4, <3>2
    <3> QED BY <2>1, <2>3, <3>1, <3>2
  <2>5. SourceTypes'
    BY <1>1, <1>2, <1>5, <2>1, <2>4a
  <2>6. SourcesCurrent'
    BY <1>1, <1>3, <1>4, <1>5, <2>1, <2>3, <2>4 DEF SourcesCurrent, OfLastImport, Src!Live, Src!Open
  <2> QED BY <2>5, <2>6
<1> QED BY <1>1, <1>8, <1>9

LEMMA RequestKeeps ==
  ASSUME SourceInv, NEW w \in BOOLEAN, Src!RequestParse(w)
  PROVE  SourceInv'
<1> DEFINE asked == [at |-> "pending", file |-> source, import |-> imports, base |-> Len(revisions), auto |-> w]
<1> USE DEF SourceInv, SourceTypes
<1>1. /\ parses' = Append(parses, asked) /\ fresh' = 0 /\ UNCHANGED <<source, imports, drafts, revisions>>
  BY DEF Src!RequestParse, Src!Parse, Src!Current
<1>2. asked \in ParseRow /\ asked.base = Len(revisions) /\ OfLastImport(asked)
  BY DEF ParseRow, OfLastImport
<1> HIDE DEF asked
<1>3. /\ parses' \in Seq(ParseRow) /\ \A j \in DOMAIN parses' : j \in DOMAIN parses \/ parses'[j] = asked
      /\ \A j \in DOMAIN parses : parses'[j] = parses[j]
  BY <1>1, <1>2, AppendRow
<1>4. SourceTypes'
  BY <1>1, <1>2, <1>3 DEF OfLastImport
<1>5. SourcesCurrent'
  BY <1>1, <1>2, <1>3 DEF SourcesCurrent, OfLastImport, Src!Live, Src!Open
<1> QED BY <1>4, <1>5

\* A row that is added, and the draft in place of which it came.
LEMMA DraftAdded ==
  ASSUME SourceInv, NEW rows, NEW row, row \in DraftRow, OfLastImport(row),
         rows = [d \in DOMAIN drafts |-> rows[d]],
         \A d \in DOMAIN drafts : rows[d] = drafts[d] \/ rows[d] = [drafts[d] EXCEPT !.state = "superseded"],
         drafts' = Append(rows, row)
  PROVE  /\ drafts' \in Seq(DraftRow) /\ Len(drafts') = Len(drafts) + 1 /\ DOMAIN drafts' = 1 .. Len(drafts) + 1
         /\ drafts'[Len(drafts) + 1] = row /\ Len(drafts) \in Nat /\ DOMAIN drafts = 1 .. Len(drafts)
         /\ \A d \in DOMAIN drafts' : drafts'[d].state = "open" => OfLastImport(drafts'[d])
<1> USE DEF SourceInv, SourceTypes
<1>1. ASSUME NEW d \in DOMAIN drafts
      PROVE  /\ rows[d] \in DraftRow
             /\ rows[d].state = "open" => drafts[d].state = "open"
             /\ rows[d].import = drafts[d].import /\ rows[d].file = drafts[d].file
  BY RowsOfSeq, DraftChanged
<1>2. rows \in Seq(DraftRow) /\ Len(rows) = Len(drafts) /\ DOMAIN rows = DOMAIN drafts
  <2>1. \A d \in DOMAIN drafts : rows[d] \in DraftRow
    BY <1>1
  <2> QED BY <2>1, MapRows
<1>3. /\ drafts' \in Seq(DraftRow) /\ Len(drafts') = Len(drafts) + 1 /\ DOMAIN drafts' = 1 .. Len(drafts) + 1
      /\ drafts'[Len(drafts) + 1] = row /\ Len(drafts) \in Nat /\ DOMAIN drafts = 1 .. Len(drafts)
      /\ \A d \in DOMAIN drafts : drafts'[d] = rows[d]
  BY <1>2, AppendRow
<1>4. \A d \in DOMAIN drafts' : d \in DOMAIN drafts \/ d = Len(drafts) + 1
  BY <1>3
<1>5. ASSUME NEW d \in DOMAIN drafts', drafts'[d].state = "open" PROVE OfLastImport(drafts'[d])
  BY <1>1, <1>3, <1>4, <1>5 DEF SourcesCurrent, Src!Open, OfLastImport
<1> QED BY <1>3, <1>5

LEMMA CorrectionsKeep ==
  ASSUME SourceInv, Src!CorrectRevision \/ \E d \in DOMAIN drafts : Src!CorrectPreflight(d)
  PROVE  SourceInv'
<1> USE DEF SourceInv, SourceTypes
<1>1. ASSUME NEW rows, NEW row, row \in DraftRow, OfLastImport(row),
             rows = [d \in DOMAIN drafts |-> rows[d]],
             \A d \in DOMAIN drafts : rows[d] = drafts[d] \/ rows[d] = [drafts[d] EXCEPT !.state = "superseded"],
             Src!Stamp(rows, row)
      PROVE  SourceInv'
  <2>1. drafts' = Append(rows, row) /\ UNCHANGED <<source, imports, parses, revisions>> /\ fresh' = Len(rows) + 1
    BY <1>1 DEF Src!Stamp
  <2>2. /\ drafts' \in Seq(DraftRow) /\ Len(drafts') = Len(drafts) + 1 /\ DOMAIN drafts' = 1 .. Len(drafts) + 1
        /\ Len(drafts) \in Nat /\ DOMAIN drafts = 1 .. Len(drafts)
        /\ \A d \in DOMAIN drafts' : drafts'[d].state = "open" => OfLastImport(drafts'[d])
    BY <1>1, <2>1, DraftAdded
  <2>3. Len(rows) = Len(drafts)
    <3>1. \A d \in DOMAIN drafts : rows[d] \in DraftRow
      BY <1>1, RowsOfSeq, DraftChanged
    <3> QED BY <1>1, <3>1, MapRows
  <2>4. SourceTypes'
    BY <2>1, <2>2, <2>3
  <2>5. SourcesCurrent'
    BY <2>1, <2>2 DEF SourcesCurrent, OfLastImport, Src!Live, Src!Open
  <2> QED BY <2>4, <2>5
<1>2. CASE Src!CorrectRevision
  <2> DEFINE row == Src!Draft(imports, source, Len(revisions), TRUE, TRUE)
  <2>1. Src!Stamp(drafts, row)
    BY <1>2 DEF Src!CorrectRevision, Src!Current
  <2>2. row \in DraftRow /\ OfLastImport(row)
    BY DEF Src!Draft, DraftRow, OfLastImport
  <2>3. drafts = [d \in DOMAIN drafts |-> drafts[d]]
    OBVIOUS
  <2> HIDE DEF row
  <2> QED BY <1>1, <2>1, <2>2, <2>3
<1>3. ASSUME NEW d \in DOMAIN drafts, Src!CorrectPreflight(d) PROVE SourceInv'
  <2> DEFINE row == [drafts[d] EXCEPT !.manual = TRUE]
             rows == [drafts EXCEPT ![d].state = "superseded"]
  <2>1. Src!Stamp(rows, row) /\ OfLastImport(drafts[d])
    BY <1>3 DEF Src!CorrectPreflight, SourcesCurrent
  <2>2. row \in DraftRow /\ OfLastImport(row)
    <3>1. drafts[d] \in DraftRow
      BY RowsOfSeq
    <3> QED BY <2>1, <3>1, DraftChanged DEF OfLastImport
  <2>3. /\ rows = [e \in DOMAIN drafts |-> rows[e]]
        /\ \A e \in DOMAIN drafts : rows[e] = drafts[e] \/ rows[e] = [drafts[e] EXCEPT !.state = "superseded"]
    OBVIOUS
  <2> HIDE DEF row, rows
  <2> QED BY <1>1, <2>1, <2>2, <2>3
<1> QED BY <1>2, <1>3

LEMMA SealKeeps ==
  ASSUME SourceInv, NEW d \in DOMAIN drafts, Src!SealSource(d) \/ Src!ConfirmSource(d)
  PROVE  /\ SourceInv'
         /\ revisions'[Len(revisions')] = d /\ OfLastImport(drafts'[d])
<1> USE DEF SourceInv, SourceTypes
<1>1. /\ OfLastImport(drafts[d]) /\ revisions' = Append(revisions, d) /\ fresh' = 0
      /\ drafts' = [drafts EXCEPT ![d].state = "sealed"] /\ UNCHANGED <<source, imports, parses>>
  BY DEF Src!SealSource, Src!ConfirmSource, Src!Seal, SourcesCurrent
<1>2. d \in Nat /\ Len(revisions) \in Nat
  OBVIOUS
<1>3. /\ revisions' \in Seq(Nat) /\ Len(revisions') = Len(revisions) + 1 /\ revisions'[Len(revisions')] = d
      /\ \A r \in DOMAIN revisions' : revisions'[r] \in DOMAIN drafts
  BY <1>1, <1>2, AppendRow
<1>4. ASSUME NEW e \in DOMAIN drafts
      PROVE  /\ drafts'[e] \in DraftRow
             /\ drafts'[e].state = "open" => drafts[e].state = "open"
             /\ drafts'[e].import = drafts[e].import /\ drafts'[e].file = drafts[e].file
  <2>1. drafts[e] \in DraftRow /\ drafts'[e] \in {drafts[e], [drafts[e] EXCEPT !.state = "sealed"]}
    BY <1>1, RowsOfSeq
  <2> QED BY <2>1, DraftChanged
<1>5. drafts' \in Seq(DraftRow) /\ Len(drafts') = Len(drafts) /\ DOMAIN drafts' = DOMAIN drafts
  <2>1. drafts' = [e \in DOMAIN drafts |-> drafts'[e]]
    BY <1>1
  <2>2. \A e \in DOMAIN drafts : drafts'[e] \in DraftRow
    BY <1>4
  <2> QED BY <2>1, <2>2, MapRows
<1>6. OfLastImport(drafts'[d])
  BY <1>1, <1>4 DEF OfLastImport
<1>7. \A j \in DOMAIN parses : parses[j].base \in Nat
  <2> SUFFICES ASSUME NEW j \in DOMAIN parses PROVE parses[j].base \in Nat
    OBVIOUS
  <2>1. parses[j] \in ParseRow
    BY RowsOfSeq
  <2> QED BY <2>1 DEF ParseRow
<1>8. SourceTypes'
  BY <1>1, <1>2, <1>3, <1>5, <1>7
<1>9. SourcesCurrent'
  BY <1>1, <1>4, <1>5 DEF SourcesCurrent, OfLastImport, Src!Live, Src!Open
<1> QED BY <1>3, <1>6, <1>8, <1>9

LEMMA ExceptRow ==
  ASSUME NEW S, NEW s \in Seq(S), NEW j \in DOMAIN s, NEW r \in S
  PROVE  [s EXCEPT ![j] = r] \in Seq(S) /\ DOMAIN [s EXCEPT ![j] = r] = DOMAIN s
  OBVIOUS

LEMMA ParseMoves ==
  ASSUME SourceInv, NEW j \in DOMAIN parses, NEW s \in {"ended", "done"},
         parses' = [parses EXCEPT ![j].at = s]
  PROVE  /\ parses' \in Seq(ParseRow) /\ DOMAIN parses' = DOMAIN parses
         /\ \A i \in DOMAIN parses : /\ parses'[i].base <= Len(revisions) /\ parses'[i].base \in Nat
                                     /\ parses'[i].import <= imports
                                     /\ parses'[i].at \in {"pending", "running"} => OfLastImport(parses'[i])
<1> USE DEF SourceInv, SourceTypes
<1>1. parses' = [i \in DOMAIN parses |-> IF i = j THEN [parses[j] EXCEPT !.at = s] ELSE parses[i]]
  OBVIOUS
<1>2. ASSUME NEW i \in DOMAIN parses
      PROVE  /\ parses'[i] \in ParseRow /\ parses'[i].base = parses[i].base /\ parses'[i].import = parses[i].import
             /\ parses'[i].base \in Nat
             /\ parses'[i].at \in {"pending", "running"} => parses'[i] = parses[i]
  <2>1. parses[i] \in ParseRow
    BY RowsOfSeq
  <2> QED BY <1>1, <2>1, ParseChanged
<1>3. parses' \in Seq(ParseRow) /\ DOMAIN parses' = DOMAIN parses
  <2>1. [parses[j] EXCEPT !.at = s] \in ParseRow
    BY RowsOfSeq, ParseChanged
  <2> QED BY <2>1, ExceptRow
<1> QED BY <1>2, <1>3 DEF SourcesCurrent, Src!Live

LEMMA ParserDeliversKeeps ==
  ASSUME SourceInv, NEW j \in DOMAIN parses, NEW blocks \in BOOLEAN, Src!ParserDelivers(j, blocks)
  PROVE  /\ SourceInv'
         /\ revisions' # revisions => OfLastImport(drafts'[revisions'[Len(revisions')]])
<1> DEFINE n == Len(drafts) + 1
           draft == Src!Draft(parses[j].import, parses[j].file, Len(revisions), FALSE, blocks)
           row == IF parses[j].auto THEN [draft EXCEPT !.state = "sealed"] ELSE draft
<1> USE DEF SourceInv, SourceTypes
<1>1. parses[j] \in ParseRow /\ OfLastImport(parses[j])
  BY RowsOfSeq DEF Src!ParserDelivers, SourcesCurrent
<1>2. CASE Src!Stale(j) \/ (parses[j].auto /\ ~blocks)
  <2>1. parses' = [parses EXCEPT ![j].at = "ended"] /\ UNCHANGED <<source, imports, fresh, drafts, revisions>>
    BY <1>2 DEF Src!ParserDelivers, Src!Current
  <2>2. /\ parses' \in Seq(ParseRow) /\ DOMAIN parses' = DOMAIN parses
        /\ \A i \in DOMAIN parses : /\ parses'[i].base <= Len(revisions) /\ parses'[i].import <= imports
                                    /\ parses'[i].at \in {"pending", "running"} => OfLastImport(parses'[i])
    BY <2>1, ParseMoves
  <2>3. SourceTypes'
    BY <2>1, <2>2
  <2>4. SourcesCurrent'
    BY <2>1, <2>2 DEF SourcesCurrent, OfLastImport, Src!Live, Src!Open
  <2> QED BY <2>1, <2>3, <2>4
<1>3. CASE ~(Src!Stale(j) \/ (parses[j].auto /\ ~blocks))
  <2>1. /\ parses' = [parses EXCEPT ![j].at = "done"] /\ UNCHANGED <<source, imports>>
        /\ drafts' = Append(drafts, row) /\ fresh' \in {0, n}
        /\ revisions' = revisions \/ revisions' = Append(revisions, n)
    BY <1>3 DEF Src!ParserDelivers, Src!Current
  <2>2. /\ parses' \in Seq(ParseRow) /\ DOMAIN parses' = DOMAIN parses
        /\ \A i \in DOMAIN parses : /\ parses'[i].base <= Len(revisions) /\ parses'[i].base \in Nat
                                    /\ parses'[i].import <= imports
                                    /\ parses'[i].at \in {"pending", "running"} => OfLastImport(parses'[i])
    BY <2>1, ParseMoves
  <2>3. row \in DraftRow /\ OfLastImport(row)
    <3>1. /\ parses[j].import \in 1 .. MaxImports /\ parses[j].file \in Files
          /\ parses[j].import = imports /\ parses[j].file = source
      BY <1>1 DEF ParseRow, OfLastImport
    <3>2. Len(revisions) \in Nat
      OBVIOUS
    <3>3. draft \in DraftRow /\ draft.import = imports /\ draft.file = source
      BY <3>1, <3>2 DEF Src!Draft, DraftRow
    <3> HIDE DEF draft
    <3> QED BY <3>3, DraftChanged DEF OfLastImport
  <2>4. drafts = [d \in DOMAIN drafts |-> drafts[d]]
    OBVIOUS
  <2> HIDE DEF row
  <2>4a. /\ drafts' \in Seq(DraftRow) /\ Len(drafts') = Len(drafts) + 1 /\ DOMAIN drafts' = 1 .. Len(drafts) + 1
         /\ drafts'[Len(drafts) + 1] = row /\ Len(drafts) \in Nat /\ DOMAIN drafts = 1 .. Len(drafts)
         /\ \A d \in DOMAIN drafts' : drafts'[d].state = "open" => OfLastImport(drafts'[d])
    <3>1. \A d \in DOMAIN drafts : drafts[d] = drafts[d]
      OBVIOUS
    <3> QED BY <2>1, <2>3, <2>4, <3>1, DraftAdded
  <2>5. /\ drafts' \in Seq(DraftRow) /\ Len(drafts') = n /\ DOMAIN drafts' = 1 .. n
        /\ drafts'[n] = row /\ n \in Nat /\ n \in 1 .. n /\ DOMAIN drafts \subseteq 1 .. n
        /\ \A d \in DOMAIN drafts' : drafts'[d].state = "open" => OfLastImport(drafts'[d])
    BY <2>4a
  <2> HIDE DEF n
  <2>6. /\ revisions' \in Seq(Nat) /\ Len(revisions) <= Len(revisions') /\ Len(revisions) \in Nat
        /\ \A r \in DOMAIN revisions' : revisions'[r] \in DOMAIN drafts'
        /\ revisions' # revisions => revisions'[Len(revisions')] = n
    <3>1. CASE revisions' = revisions
      BY <2>5, <3>1
    <3>2. CASE revisions' = Append(revisions, n)
      <4>1. /\ Append(revisions, n) \in Seq(Nat) /\ Len(Append(revisions, n)) = Len(revisions) + 1
            /\ Len(revisions) \in Nat /\ Append(revisions, n)[Len(revisions) + 1] = n
            /\ DOMAIN Append(revisions, n) = 1 .. Len(revisions) + 1 /\ DOMAIN revisions = 1 .. Len(revisions)
            /\ \A r \in DOMAIN revisions : Append(revisions, n)[r] = revisions[r]
        BY <2>5, AppendRow
      <4> QED BY <2>5, <3>2, <4>1
    <3> QED BY <2>1, <3>1, <3>2
  <2>7. SourceTypes'
    BY <2>1, <2>2, <2>5, <2>6
  <2>8. SourcesCurrent'
    BY <2>1, <2>2, <2>5 DEF SourcesCurrent, OfLastImport, Src!Live, Src!Open
  <2>9. OfLastImport(drafts'[n])
    BY <2>3, <2>5
  <2> QED BY <2>6, <2>7, <2>8, <2>9
<1> QED BY <1>2, <1>3

LEMMA SourceStep ==
  ASSUME ContentAssumption, SourceInv, [Src!Next]_sourceVars
  PROVE  /\ SourceInv'
         /\ revisions' # revisions => LET draft == drafts'[revisions'[Len(revisions')]]
                                      IN  draft.import = imports /\ draft.file = source
<1>1. CASE UNCHANGED sourceVars
  BY <1>1 DEF sourceVars, SourceInv, SourceTypes, SourcesCurrent, OfLastImport, Src!Live, Src!Open
<1>2. ASSUME NEW w \in BOOLEAN, Src!RequestParse(w) \/ \E f \in Files : Src!ReplaceSource(f, w)
      PROVE  SourceInv' /\ revisions' = revisions
  BY <1>2, RequestKeeps, ReplaceKeeps DEF Src!RequestParse, Src!ReplaceSource
<1>3. CASE Src!DocumentChanges \/ Src!DeleteDocument \/ \E j \in DOMAIN parses : Src!ParseEnds(j)
  BY <1>3, EndingsKeep DEF Src!DocumentChanges, Src!DeleteDocument, Src!ParseEnds
<1>4. ASSUME NEW j \in DOMAIN parses, NEW blocks \in BOOLEAN, Src!ParserDelivers(j, blocks)
      PROVE  SourceInv' /\ (revisions' # revisions => OfLastImport(drafts'[revisions'[Len(revisions')]]))
  BY <1>4, ParserDeliversKeeps
<1>5. CASE Src!CorrectRevision \/ \E d \in DOMAIN drafts : Src!CorrectPreflight(d)
  BY <1>5, CorrectionsKeep DEF Src!CorrectRevision, Src!CorrectPreflight, Src!Stamp
<1>6. ASSUME NEW d \in DOMAIN drafts, Src!SealSource(d) \/ Src!ConfirmSource(d)
      PROVE  SourceInv' /\ (revisions' # revisions => OfLastImport(drafts'[revisions'[Len(revisions')]]))
  BY <1>6, SealKeeps
<1> QED BY <1>1, <1>2, <1>3, <1>4, <1>5, <1>6 DEF Src!Next, Src!Parses, Src!Drafts, OfLastImport

LEMMA SourceInvType == SourceInv => Src!TypeOK
<1> SUFFICES ASSUME SourceInv PROVE Src!TypeOK
  OBVIOUS
<1>1. ASSUME NEW d \in DOMAIN drafts
      PROVE  drafts[d].state \in {"open", "superseded", "sealed"} /\ drafts[d].file \in Files
  <2>1. drafts[d] \in DraftRow
    BY RowsOfSeq DEF SourceInv, SourceTypes
  <2> QED BY <2>1 DEF DraftRow
<1> QED BY <1>1 DEF SourceInv, SourceTypes, Src!TypeOK, Src!Parses, Src!Drafts, Src!Current

(* Whatever becomes the source of a document comes from the PDF that was   *)
(* imported last (editorial/source_sealing.py), for any number of imports, *)
(* parses and drafts under way.                                            *)
THEOREM SourceOfLastImport == Spec => SourceComesFromLastImport
<1>1. Init => SourceInv
  BY SourceInit, ContentAssumption DEF Init
<1>2. [Next]_vars => [Src!Next]_sourceVars
  BY DEF Next, vars, sourceVars
<1>3. SourceInv /\ [Next]_vars => SourceInv'
  BY <1>2, SourceStep, ContentAssumption
<1>4. SourceInv /\ [Next]_vars =>
        [revisions' # revisions => LET draft == drafts'[revisions'[Len(revisions')]]
                                   IN  draft.import = imports /\ draft.file = source]_(Src!sourceVars)
  BY <1>2, SourceStep, ContentAssumption
<1> QED BY <1>1, <1>3, <1>4, SourceInvType, PTL DEF Spec, SourceComesFromLastImport, Src!SourceComesFromLastImport
--------------------------------------------------------------------------------
(* Metadata.                                                               *)

LookupRow ==
  [at : {"pending", "asking", "answered"}, asset : Assets, doc : Docs \cup {"none"}, gen : Nat,
   doi : DOIs \cup {NoDoi}, force : BOOLEAN, attempts : 0 .. RetryLimit, status : Met!Statuses,
   value : DOIs \cup {NoDoi}, retry : BOOLEAN]
Alive(r) == r.at \in {"pending", "asking", "answered"}

\* A job that waits has attempts left, and an answer is to the question asked.
Honest(r) ==
  /\ r.at = "pending" => r.attempts < RetryLimit
  /\ r.at = "answered" /\ r.status = "succeeded" => r.value # NoDoi /\ (r.doi # NoDoi => r.value = r.doi)

\* A lookup of the present generation asks for the DOI selected now.
ToThePoint(r) == r.gen = metaGen[r.asset] /\ r.doi # NoDoi => selected[r.asset] = r.doi

MetaTypes ==
  /\ selected \in [Assets -> DOIs \cup {NoDoi}] /\ manual \subseteq Assets
  /\ metaGen \in [Assets -> Nat] /\ metaStatus \in [Assets -> Met!Statuses]
  /\ biblio \in [Assets -> DOIs \cup {NoDoi}]
  /\ cached \subseteq DOIs \X {"succeeded", "not_found"}
  /\ metaSource \in [Docs -> Assets \cup {"deleted"}] /\ edited \in [Docs -> BOOLEAN]
  /\ DOMAIN title = Docs

LookupsMade ==
  /\ lookups \in [Met!Jobs -> LookupRow \cup {Met!NoLookup, Met!Ended}]
  /\ \E n \in 0 .. MaxLookups : Met!Made = 1 .. n /\ \A a \in Assets : metaGen[a] <= n

LookupsFit ==
  /\ \A j \in Met!Jobs : Alive(lookups[j]) =>
       Honest(lookups[j]) /\ ToThePoint(lookups[j]) /\ lookups[j].gen <= metaGen[lookups[j].asset]
  /\ \A j, k \in Met!Jobs : Alive(lookups[j]) /\ Alive(lookups[k]) /\ lookups[j].asset = lookups[k].asset
                              /\ lookups[j].gen = lookups[k].gen => j = k

MetaInv == MetaTypes /\ LookupsMade /\ LookupsFit /\ Met!MetadataIsOfTheSource

LEMMA MetaAssumptions ==
  ContentAssumption => /\ RetryLimit \in Nat \ {0} /\ MaxLookups \in Nat /\ NoDoi \notin DOIs
  BY DEF ContentAssumption, Met!MetadataAssumption

LEMMA MetaInit == ContentAssumption /\ Met!Init => MetaInv
<1> SUFFICES ASSUME ContentAssumption, Met!Init PROVE MetaInv
  OBVIOUS
<1>1. MetaTypes
  BY DEF Met!Init, MetaTypes, Met!Statuses
<1>2. lookups = [j \in Met!Jobs |-> Met!NoLookup] /\ Met!Made = 1 .. 0 /\ \A j \in Met!Jobs : ~Alive(lookups[j])
  BY DEF Met!Init, Met!NoLookup, Met!Made, Alive
<1>3. LookupsMade
  BY <1>2, MetaAssumptions DEF LookupsMade, Met!Init
<1>4. LookupsFit
  BY <1>2 DEF LookupsFit
<1>5. Met!MetadataIsOfTheSource
  BY DEF Met!Init, Met!MetadataIsOfTheSource, Met!Filename
<1> QED BY <1>1, <1>3, <1>4, <1>5 DEF MetaInv

\* What a lookup may become.
Follows(r, s) ==
  \/ s = Met!Ended
  \/ s \in LookupRow /\ Honest(s) /\ s.asset = r.asset /\ s.gen = r.gen /\ s.doi = r.doi

LEMMA RowKinds ==
  ASSUME LookupsMade, NEW j \in Met!Jobs
  PROVE  /\ Alive(lookups[j]) <=> lookups[j] \in LookupRow
         /\ lookups[j].at # "none" <=> lookups[j] \in LookupRow \/ lookups[j] = Met!Ended
         /\ Met!Live(j) <=> Alive(lookups[j])
         /\ ~Alive(Met!Ended) /\ Met!Ended.at # "none"
<1>1. \A r \in LookupRow : Alive(r) /\ r.at # "none"
  BY DEF LookupRow, Alive
<1>2. ~Alive(Met!Ended) /\ Met!Ended.at # "none" /\ Met!NoLookup.at = "none" /\ ~Alive(Met!NoLookup)
  BY DEF Met!Ended, Met!NoLookup, Alive
<1>3. lookups[j] \in LookupRow \cup {Met!NoLookup, Met!Ended}
  BY DEF LookupsMade
<1> QED BY <1>1, <1>2, <1>3 DEF Met!Live, Alive

\* One lookup goes on or ends.
LEMMA LookupMoves ==
  ASSUME LookupsMade, LookupsFit, NEW j \in Met!Jobs, NEW s,
         Alive(lookups[j]), Follows(lookups[j], s), lookups' = [lookups EXCEPT ![j] = s],
         UNCHANGED metaGen,
         selected' = selected \/ \E doi : /\ selected' = [selected EXCEPT ![lookups[j].asset] = doi]
                                           /\ selected \in [Assets -> DOIs \cup {NoDoi}]
                                           /\ s = Met!Ended /\ lookups[j].gen = metaGen[lookups[j].asset]
  PROVE  LookupsMade' /\ LookupsFit'
<1>1. s \in LookupRow \cup {Met!Ended} /\ s.at # "none" /\ lookups[j].at # "none" /\ lookups[j] \in LookupRow
  <2>1. \A r \in LookupRow : r.at # "none"
    BY DEF LookupRow
  <2> QED BY <2>1, RowKinds DEF Follows
<1>2. lookups' \in [Met!Jobs -> LookupRow \cup {Met!NoLookup, Met!Ended}]
  BY <1>1 DEF LookupsMade
<1>3. Met!Made' = Met!Made
  BY <1>1 DEF Met!Made, LookupsMade, Met!Jobs
<1>4. LookupsMade'
  BY <1>2, <1>3 DEF LookupsMade, Met!Jobs
<1>5. ASSUME NEW k \in Met!Jobs, Alive(lookups'[k])
      PROVE  /\ Alive(lookups[k]) /\ lookups'[k].asset = lookups[k].asset /\ lookups'[k].gen = lookups[k].gen
             /\ lookups'[k].doi = lookups[k].doi /\ Honest(lookups'[k])
             /\ k # j => ~(lookups[k].asset = lookups[j].asset /\ lookups[k].gen = lookups[j].gen)
             /\ k = j => s # Met!Ended
  <2>1. CASE k = j
    <3>1. lookups'[j] = s /\ s # Met!Ended
      BY <1>5, <2>1, RowKinds DEF LookupsMade
    <3> QED BY <2>1, <3>1 DEF Follows
  <2>2. CASE k # j
    <3>1. lookups'[k] = lookups[k] /\ Alive(lookups[k])
      BY <1>5, <2>2 DEF LookupsMade
    <3> QED BY <2>2, <3>1 DEF LookupsFit
  <2> QED BY <2>1, <2>2
<1>6. ASSUME NEW k \in Met!Jobs, Alive(lookups'[k])
      PROVE  /\ lookups'[k].gen <= metaGen'[lookups'[k].asset]
             /\ lookups'[k].gen = metaGen'[lookups'[k].asset] /\ lookups'[k].doi # NoDoi
                  => selected'[lookups'[k].asset] = lookups'[k].doi
  <2>1. /\ Alive(lookups[k]) /\ lookups'[k].asset = lookups[k].asset /\ lookups'[k].gen = lookups[k].gen
        /\ lookups'[k].doi = lookups[k].doi
        /\ k # j => ~(lookups[k].asset = lookups[j].asset /\ lookups[k].gen = lookups[j].gen)
        /\ k = j => s # Met!Ended
    BY <1>6, <1>5
  <2>2. /\ lookups[k].gen <= metaGen[lookups[k].asset]
        /\ lookups[k].gen = metaGen[lookups[k].asset] /\ lookups[k].doi # NoDoi
             => selected[lookups[k].asset] = lookups[k].doi
    BY <2>1 DEF LookupsFit, ToThePoint
  <2>3. lookups[k].gen = metaGen[lookups[k].asset] => selected'[lookups[k].asset] = selected[lookups[k].asset]
    <3>1. CASE selected' = selected
      BY <3>1
    <3>2. CASE selected' # selected
      <4>1. PICK doi : /\ selected' = [selected EXCEPT ![lookups[j].asset] = doi]
                       /\ selected \in [Assets -> DOIs \cup {NoDoi}]
                       /\ s = Met!Ended /\ lookups[j].gen = metaGen[lookups[j].asset]
        BY <3>2
      <4>2. lookups[k].gen = metaGen[lookups[k].asset] => lookups[k].asset # lookups[j].asset
        BY <2>1, <4>1
      <4> QED BY <4>1, <4>2
    <3> QED BY <3>1, <3>2
  <2> QED BY <2>1, <2>2, <2>3
<1>7. LookupsFit'
  <2>1. \A k \in Met!Jobs' : Alive(lookups[k])' =>
          Honest(lookups[k])' /\ ToThePoint(lookups[k])' /\ (lookups[k].gen <= metaGen[lookups[k].asset])'
    BY <1>5, <1>6 DEF Met!Jobs, Alive, Honest, ToThePoint
  <2>2. \A k, l \in Met!Jobs : Alive(lookups'[k]) /\ Alive(lookups'[l]) /\ lookups'[k].asset = lookups'[l].asset
                                 /\ lookups'[k].gen = lookups'[l].gen => k = l
    <3> SUFFICES ASSUME NEW k \in Met!Jobs, NEW l \in Met!Jobs, Alive(lookups'[k]), Alive(lookups'[l]),
                        lookups'[k].asset = lookups'[l].asset, lookups'[k].gen = lookups'[l].gen
                 PROVE  k = l
      OBVIOUS
    <3>1. Alive(lookups[k]) /\ lookups'[k].asset = lookups[k].asset /\ lookups'[k].gen = lookups[k].gen
      BY <1>5
    <3>2. Alive(lookups[l]) /\ lookups'[l].asset = lookups[l].asset /\ lookups'[l].gen = lookups[l].gen
      BY <1>5
    <3> QED BY <3>1, <3>2 DEF LookupsFit
  <2> QED BY <2>1, <2>2 DEF LookupsFit, Met!Jobs, Alive
<1> QED BY <1>4, <1>7

\* The shapes a step gives to a lookup.
LEMMA RowsFollow ==
  ASSUME NEW r \in LookupRow, Honest(r), RetryLimit \in Nat, NoDoi \notin DOIs
  PROVE  /\ r.attempts < RetryLimit =>
              Follows(r, [r EXCEPT !.at = "pending", !.status = "pending", !.value = NoDoi, !.retry = FALSE])
         /\ r.attempts < RetryLimit => Follows(r, [r EXCEPT !.at = "asking", !.attempts = @ + 1])
         /\ \A st \in Met!Statuses, v \in DOIs \cup {NoDoi}, b \in BOOLEAN :
              (st = "succeeded" => v # NoDoi /\ (r.doi # NoDoi => v = r.doi)) =>
                /\ Follows(r, [r EXCEPT !.at = "answered", !.status = st, !.value = v, !.retry = b])
                /\ r.attempts < RetryLimit =>
                     Follows(r, [r EXCEPT !.at = "answered", !.attempts = @ + 1, !.status = st, !.value = v,
                                          !.retry = b])
<1>0. r.attempts \in Nat /\ (r.attempts < RetryLimit => r.attempts + 1 \in 0 .. RetryLimit)
  BY DEF LookupRow
<1>1. r.attempts < RetryLimit =>
              Follows(r, [r EXCEPT !.at = "pending", !.status = "pending", !.value = NoDoi, !.retry = FALSE])
  BY DEF Follows, LookupRow, Honest, Met!Statuses
<1>2. r.attempts < RetryLimit => Follows(r, [r EXCEPT !.at = "asking", !.attempts = @ + 1])
  BY <1>0 DEF Follows, LookupRow, Honest
<1>3. ASSUME NEW st \in Met!Statuses, NEW v \in DOIs \cup {NoDoi}, NEW b \in BOOLEAN,
             st = "succeeded" => v # NoDoi /\ (r.doi # NoDoi => v = r.doi)
      PROVE  /\ Follows(r, [r EXCEPT !.at = "answered", !.status = st, !.value = v, !.retry = b])
             /\ r.attempts < RetryLimit =>
                  Follows(r, [r EXCEPT !.at = "answered", !.attempts = @ + 1, !.status = st, !.value = v,
                                       !.retry = b])
  <2>1. Follows(r, [r EXCEPT !.at = "answered", !.status = st, !.value = v, !.retry = b])
    BY <1>3 DEF Follows, LookupRow, Honest
  <2>2. r.attempts < RetryLimit =>
          Follows(r, [r EXCEPT !.at = "answered", !.attempts = @ + 1, !.status = st, !.value = v, !.retry = b])
    BY <1>0, <1>3 DEF Follows, LookupRow, Honest
  <2> QED BY <2>1, <2>2
<1> QED BY <1>1, <1>2, <1>3

LookupStep(j) == Met!Abandon(j) \/ Met!Start(j) \/ Met!Resolve(j) \/ Met!Search(j) \/ Met!LeaseLost(j) \/ Met!Cancel(j)

\* The steps of one lookup that write nothing but the lookup.
LEMMA LookupStepFollows ==
  ASSUME ContentAssumption, MetaInv, NEW j \in Met!Made, LookupStep(j)
  PROVE  /\ UNCHANGED <<selected, manual, metaGen, metaStatus, biblio, cached, metaSource, title, edited>>
         /\ j \in Met!Jobs /\ Alive(lookups[j])
         /\ \E s : Follows(lookups[j], s) /\ lookups' = [lookups EXCEPT ![j] = s]
<1> USE DEF MetaInv
<1>1. j \in Met!Jobs /\ RetryLimit \in Nat /\ NoDoi \notin DOIs
  BY MetaAssumptions DEF Met!Made
<1>2. Alive(lookups[j])
  BY <1>1, RowKinds DEF LookupStep, Met!Abandon, Met!Start, Met!Resolve, Met!Search, Met!LeaseLost, Met!Cancel,
     Met!Live, Met!Answered, Alive
<1>3. lookups[j] \in LookupRow /\ Honest(lookups[j])
  BY <1>1, <1>2, RowKinds DEF LookupsFit
<1> DEFINE r == lookups[j]
<1>4. Follows(r, Met!Ended)
  BY DEF Follows
<1>5. CASE Met!Abandon(j) \/ Met!LeaseLost(j) \/ Met!Cancel(j)
  <2>1. /\ UNCHANGED <<selected, manual, metaGen, metaStatus, biblio, cached, metaSource, title, edited>>
        /\ \/ lookups' = [lookups EXCEPT ![j] = Met!Ended]
           \/ r.attempts < RetryLimit /\ lookups' = [lookups EXCEPT ![j] = Met!Again(r)]
    BY <1>5 DEF Met!Abandon, Met!LeaseLost, Met!Cancel, Met!JobStep, Met!assetVars, Met!docVars
  <2>2. r.attempts < RetryLimit => Follows(r, Met!Again(r))
    BY <1>1, <1>3, RowsFollow DEF Met!Again
  <2> QED BY <1>1, <1>2, <1>4, <2>1, <2>2
<1>6. CASE Met!Start(j)
  <2>1. r.attempts < RetryLimit
    BY <1>3, <1>6 DEF Met!Start, Honest
  <2>2. UNCHANGED <<selected, manual, metaGen, metaStatus, biblio, cached, metaSource, title, edited>>
    BY <1>6 DEF Met!Start, Met!assetVars, Met!docVars
  <2>3. CASE Met!FromCache(j)
    <3>1. lookups' = [lookups EXCEPT ![j] = [r EXCEPT !.at = "answered", !.attempts = @ + 1,
                                             !.status = "succeeded", !.value = r.doi, !.retry = FALSE]]
      BY <1>6, <2>3 DEF Met!Start, Met!Result
    <3>2. r.doi \in DOIs
      BY <2>3 DEF Met!FromCache, MetaTypes
    <3>3. "succeeded" \in Met!Statuses /\ r.doi # NoDoi /\ r.doi \in DOIs \cup {NoDoi}
      BY <3>2, <1>1 DEF Met!Statuses
    <3>4. Follows(r, [r EXCEPT !.at = "answered", !.attempts = @ + 1,
                               !.status = "succeeded", !.value = r.doi, !.retry = FALSE])
      BY <1>1, <1>3, <2>1, <3>3, RowsFollow
    <3> QED BY <1>1, <1>2, <2>2, <3>1, <3>4
  <2>4. CASE ~Met!FromCache(j) /\ Met!MissCached(j)
    <3>1. lookups' = [lookups EXCEPT ![j] = [r EXCEPT !.at = "answered", !.attempts = @ + 1,
                                             !.status = "not_found", !.value = NoDoi, !.retry = FALSE]]
      BY <1>6, <2>4 DEF Met!Start, Met!Result
    <3>2. "not_found" \in Met!Statuses
      BY DEF Met!Statuses
    <3>3. Follows(r, [r EXCEPT !.at = "answered", !.attempts = @ + 1,
                               !.status = "not_found", !.value = NoDoi, !.retry = FALSE])
      BY <1>1, <1>3, <2>1, <3>2, RowsFollow
    <3> QED BY <1>1, <1>2, <2>2, <3>1, <3>3
  <2>5. CASE ~Met!FromCache(j) /\ ~Met!MissCached(j)
    <3>1. lookups' = [lookups EXCEPT ![j] = [r EXCEPT !.at = "asking", !.attempts = @ + 1]]
      BY <1>6, <2>5 DEF Met!Start
    <3>2. Follows(r, [r EXCEPT !.at = "asking", !.attempts = @ + 1])
      BY <1>1, <1>3, <2>1, RowsFollow
    <3> QED BY <1>1, <1>2, <2>2, <3>1, <3>2
  <2> QED BY <2>3, <2>4, <2>5
<1>7. CASE Met!Resolve(j) \/ Met!Search(j)
  <2>1. PICK st \in Met!Statuses, v \in DOIs \cup {NoDoi}, b \in BOOLEAN :
          /\ Met!Answered(j, st, v, b)
          /\ st = "succeeded" => v # NoDoi /\ (r.doi # NoDoi => v = r.doi)
    <3>1. CASE Met!Resolve(j)
      <4>1. PICK c \in Met!Answers, o \in Met!Answers :
              LET answer == Met!Ask(c, o)
              IN CASE answer = "found" -> Met!Answered(j, "succeeded", lookups[j].doi, FALSE)
                   [] answer = "temporary" -> Met!Answered(j, "failed", NoDoi, TRUE)
                   [] OTHER -> Met!Answered(j, answer, NoDoi, FALSE)
        BY <3>1 DEF Met!Resolve
      <4>2. Met!Ask(c, o) \in {"found", "temporary", "not_found", "failed"}
        BY DEF Met!Ask, Met!Answers
      <4>3. r.doi \in DOIs \cup {NoDoi} /\ r.doi # NoDoi
        BY <3>1, <1>3 DEF LookupRow, Met!Resolve
      <4>4. /\ Met!Ask(c, o) = "found" => Met!Answered(j, "succeeded", r.doi, FALSE)
            /\ Met!Ask(c, o) = "temporary" => Met!Answered(j, "failed", NoDoi, TRUE)
            /\ Met!Ask(c, o) \notin {"found", "temporary"} => Met!Answered(j, Met!Ask(c, o), NoDoi, FALSE)
        BY <4>1
      <4>5. {"succeeded", "failed", "not_found"} \subseteq Met!Statuses
        BY DEF Met!Statuses
      <4> QED BY <4>2, <4>3, <4>4, <4>5
    <3>2. CASE Met!Search(j)
      <4>1. {"succeeded", "failed", "not_found", "unverified"} \subseteq Met!Statuses
        BY DEF Met!Statuses
      <4> QED BY <1>1, <3>2, <4>1 DEF Met!Search
    <3> QED BY <1>7, <3>1, <3>2
  <2>2. /\ UNCHANGED <<selected, manual, metaGen, metaStatus, biblio, cached, metaSource, title, edited>>
        /\ lookups' = [lookups EXCEPT ![j] = [r EXCEPT !.at = "answered", !.status = st, !.value = v, !.retry = b]]
    BY <2>1 DEF Met!Answered, Met!assetVars, Met!docVars
  <2>3. Follows(r, [r EXCEPT !.at = "answered", !.status = st, !.value = v, !.retry = b])
    BY <1>1, <1>3, <2>1, RowsFollow
  <2> QED BY <1>1, <1>2, <2>2, <2>3
<1> QED BY <1>5, <1>6, <1>7 DEF LookupStep

LEMMA LookupStepKeeps ==
  ASSUME ContentAssumption, MetaInv, NEW j \in Met!Made, LookupStep(j)
  PROVE  MetaInv'
<1>1. /\ UNCHANGED <<selected, manual, metaGen, metaStatus, biblio, cached, metaSource, title, edited>>
      /\ j \in Met!Jobs /\ Alive(lookups[j])
  BY LookupStepFollows
<1>2. PICK s : Follows(lookups[j], s) /\ lookups' = [lookups EXCEPT ![j] = s]
  BY LookupStepFollows
<1>3. LookupsMade' /\ LookupsFit'
  BY <1>1, <1>2, LookupMoves DEF MetaInv
<1>4. MetaTypes' /\ Met!MetadataIsOfTheSource'
  BY <1>1 DEF MetaInv, MetaTypes, Met!MetadataIsOfTheSource, Met!Statuses
<1> QED BY <1>3, <1>4 DEF MetaInv

LEMMA RetryLaterKeeps ==
  ASSUME ContentAssumption, MetaInv, NEW j \in Met!Made, Met!RetryLater(j)
  PROVE  MetaInv'
<1> USE DEF MetaInv
<1> DEFINE r == lookups[j]
<1>1. j \in Met!Jobs /\ RetryLimit \in Nat /\ NoDoi \notin DOIs
  BY MetaAssumptions DEF Met!Made
<1>2. Alive(r) /\ r \in LookupRow /\ Honest(r)
  <2>1. Alive(r)
    BY DEF Met!RetryLater, Alive
  <2> QED BY <1>1, <2>1, RowKinds DEF LookupsFit
<1>3. /\ r.attempts < RetryLimit /\ lookups' = [lookups EXCEPT ![j] = Met!Again(r)]
      /\ metaStatus' = [metaStatus EXCEPT ![r.asset] = "retrying"]
      /\ UNCHANGED <<selected, manual, metaGen, biblio, cached, metaSource, title, edited>>
  BY DEF Met!RetryLater, Met!Retries, Met!JobStep, Met!docVars
<1>4. Follows(r, Met!Again(r))
  BY <1>1, <1>2, <1>3, RowsFollow DEF Met!Again
<1>5. LookupsMade' /\ LookupsFit'
  BY <1>1, <1>2, <1>3, <1>4, LookupMoves
<1>6. r.asset \in Assets
  BY <1>2 DEF LookupRow
<1>7. MetaTypes'
  BY <1>3, <1>6 DEF MetaTypes, Met!Statuses
<1>8. Met!MetadataIsOfTheSource'
  BY <1>3, <1>6 DEF MetaTypes, Met!MetadataIsOfTheSource
<1> QED BY <1>5, <1>7, <1>8

\* The late answer: only a lookup of the asset's present generation writes.
LEMMA CompleteKeeps ==
  ASSUME ContentAssumption, MetaInv, NEW j \in Met!Made, Met!Complete(j)
  PROVE  MetaInv'
<1> USE DEF MetaInv
<1> DEFINE r == lookups[j]
           a == r.asset
           final == IF r.status = "succeeded" /\ Met!Mismatch(a, r.value) THEN "unverified" ELSE r.status
           doi == IF r.value = NoDoi THEN r.doi ELSE r.value
<1>1. j \in Met!Jobs /\ RetryLimit \in Nat /\ NoDoi \notin DOIs
  BY MetaAssumptions DEF Met!Made
<1>2. r.at = "answered" /\ metaGen[a] = r.gen
  BY DEF Met!Complete, Met!Superseded
<1>3. /\ lookups' = [lookups EXCEPT ![j] = Met!Ended]
      /\ cached' = IF doi # NoDoi /\ final \in {"succeeded", "not_found"} THEN cached \cup {<<doi, final>>} ELSE cached
      /\ metaStatus' = [metaStatus EXCEPT ![a] = final]
      /\ UNCHANGED <<manual, metaGen, metaSource, edited>>
  BY DEF Met!Complete
<1>4. /\ final = "succeeded" => /\ selected' = IF r.doi = NoDoi THEN [selected EXCEPT ![a] = doi] ELSE selected
                                /\ biblio' = [biblio EXCEPT ![a] = doi]
                                /\ title' = [d \in Docs |-> IF Met!Follows(d, a) THEN doi ELSE title[d]]
      /\ final # "succeeded" => UNCHANGED <<selected, biblio, title>>
  BY DEF Met!Complete
<1>5. /\ Alive(r) /\ r \in LookupRow /\ Honest(r) /\ ToThePoint(r)
      /\ a \in Assets /\ r.value \in DOIs \cup {NoDoi} /\ r.doi \in DOIs \cup {NoDoi} /\ r.status \in Met!Statuses
  <2>1. Alive(r)
    BY <1>2 DEF Alive
  <2>2. r \in LookupRow /\ Honest(r) /\ ToThePoint(r)
    BY <1>1, <2>1, RowKinds DEF LookupsFit
  <2> QED BY <2>1, <2>2 DEF LookupRow
<1>6. final \in Met!Statuses /\ doi \in DOIs \cup {NoDoi}
  BY <1>5 DEF Met!Statuses
<1>7. final = "succeeded" => /\ r.value # NoDoi /\ doi = r.value
                             /\ r.doi # NoDoi => selected[a] = doi
  BY <1>2, <1>5 DEF Honest, ToThePoint
<1> HIDE DEF final, doi
<1>8. LookupsMade' /\ LookupsFit'
  <2>1. Follows(r, Met!Ended)
    BY DEF Follows
  <2>2. selected' = selected \/ \E x : /\ selected' = [selected EXCEPT ![a] = x]
                                       /\ selected \in [Assets -> DOIs \cup {NoDoi}]
                                       /\ Met!Ended = Met!Ended /\ r.gen = metaGen[a]
    <3>1. selected \in [Assets -> DOIs \cup {NoDoi}]
      BY DEF MetaTypes
    <3> QED BY <1>2, <1>4, <3>1
  <2> QED BY <1>1, <1>3, <1>5, <2>1, <2>2, LookupMoves
<1>9. MetaTypes'
  <2>1. cached' \subseteq DOIs \X {"succeeded", "not_found"}
    BY <1>3, <1>6 DEF MetaTypes
  <2>2. selected' \in [Assets -> DOIs \cup {NoDoi}] /\ biblio' \in [Assets -> DOIs \cup {NoDoi}] /\ DOMAIN title' = Docs
    BY <1>4, <1>5, <1>6 DEF MetaTypes
  <2>3. metaStatus' \in [Assets -> Met!Statuses]
    BY <1>3, <1>6 DEF MetaTypes
  <2> QED BY <1>3, <2>1, <2>2, <2>3 DEF MetaTypes, Met!Statuses
<1>10. Met!MetadataIsOfTheSource'
  <2>1. ASSUME NEW b \in Assets, metaStatus'[b] = "succeeded"
        PROVE  biblio'[b] = selected'[b] /\ biblio'[b] # NoDoi
    <3>1. CASE b = a
      <4>1. final = "succeeded"
        BY <1>3, <1>5, <2>1, <3>1 DEF MetaTypes
      <4>2. biblio'[a] = doi /\ selected'[a] = doi /\ doi # NoDoi
        BY <1>4, <1>5, <1>7, <4>1 DEF MetaTypes
      <4> QED BY <3>1, <4>2
    <3>2. CASE b # a
      <4>1. metaStatus[b] = "succeeded" /\ biblio'[b] = biblio[b] /\ selected'[b] = selected[b]
        BY <1>3, <1>4, <2>1, <3>2 DEF MetaTypes
      <4> QED BY <4>1 DEF Met!MetadataIsOfTheSource
    <3> QED BY <3>1, <3>2
  <2>2. ASSUME NEW d \in Docs, metaSource'[d] # "deleted"
        PROVE  IF edited'[d] THEN title'[d] = "user" ELSE title'[d] \in {"filename", biblio'[metaSource'[d]]}
    <3>1. /\ metaSource[d] \in Assets /\ metaSource'[d] = metaSource[d] /\ edited'[d] = edited[d]
          /\ IF edited[d] THEN title[d] = "user" ELSE title[d] \in {"filename", biblio[metaSource[d]]}
      BY <1>3, <2>2 DEF MetaTypes, Met!MetadataIsOfTheSource, Met!Deleted, Met!UserTitle, Met!Filename
    <3>2. CASE final = "succeeded" /\ Met!Follows(d, a)
      <4>1. ~edited[d] /\ metaSource[d] = a /\ title'[d] = doi /\ biblio'[a] = doi
        BY <1>4, <1>5, <3>2 DEF Met!Follows, MetaTypes
      <4> QED BY <3>1, <4>1
    <3>3. CASE ~(final = "succeeded" /\ Met!Follows(d, a))
      <4>1. title'[d] = title[d]
        BY <1>4, <3>3
      <4>2. ~edited[d] => biblio'[metaSource[d]] = biblio[metaSource[d]]
        BY <1>4, <3>1, <3>3 DEF Met!Follows, MetaTypes
      <4> QED BY <3>1, <4>1, <4>2
    <3> QED BY <3>2, <3>3
  <2> QED BY <2>1, <2>2 DEF Met!MetadataIsOfTheSource, Met!Deleted, Met!UserTitle, Met!Filename
<1> QED BY <1>8, <1>9, <1>10

\* Metadata counts with a Cardinality of its own instance of FiniteSets.
LEMMA SameCardinality == ASSUME NEW S PROVE Met!Cardinality(S) = Cardinality(S)
  BY DEF Met!Cardinality, Cardinality

\* A new selection is enqueued: nothing to ask, asked already, or a new lookup.
LEMMA Enqueued ==
  ASSUME ContentAssumption, MetaInv, NEW a \in Assets, NEW d \in Docs \cup {"none"}, NEW doi \in DOIs \cup {NoDoi},
         NEW force \in BOOLEAN, Met!Enqueue(a, d, doi, force), selected' = [selected EXCEPT ![a] = doi],
         doi = selected[a] \/ (doi # NoDoi /\ (force \/ selected[a] = NoDoi))
  PROVE  /\ LookupsMade' /\ LookupsFit'
         /\ metaGen' \in [Assets -> Nat] /\ metaStatus' \in [Assets -> Met!Statuses]
         /\ \A b \in Assets : metaStatus'[b] = "succeeded" => metaStatus[b] = "succeeded" /\ selected'[b] = selected[b]
<1> USE DEF MetaInv
<1>0. /\ RetryLimit \in Nat \ {0} /\ MaxLookups \in Nat /\ NoDoi \notin DOIs
      /\ selected \in [Assets -> DOIs \cup {NoDoi}] /\ metaGen \in [Assets -> Nat]
      /\ metaStatus \in [Assets -> Met!Statuses]
  BY MetaAssumptions DEF MetaTypes
<1>1. CASE doi = NoDoi /\ a \notin Searchable
  <2>1. selected' = selected
    BY <1>0, <1>1
  <2>2. metaStatus' = [metaStatus EXCEPT ![a] = "no_doi"] /\ UNCHANGED <<metaGen, lookups>>
    BY <1>1 DEF Met!Enqueue
  <2>3. LookupsMade' /\ LookupsFit'
    BY <2>1, <2>2 DEF LookupsMade, LookupsFit, ToThePoint, Met!Made, Met!Jobs
  <2> QED BY <1>0, <2>1, <2>2, <2>3 DEF Met!Statuses
<1>2. CASE ~(doi = NoDoi /\ a \notin Searchable) /\ ~force /\ Met!Same(a, doi) # {}
  <2>1. UNCHANGED <<metaGen, metaStatus, lookups>>
    BY <1>2 DEF Met!Enqueue
  <2>2. PICK k \in Met!Jobs : /\ Met!Live(k) /\ lookups[k].asset = a
                              /\ lookups[k].gen = metaGen[a] /\ lookups[k].doi = doi
    BY <1>2 DEF Met!Same, Met!Made
  <2>3. doi # NoDoi => selected[a] = doi
    BY <2>2, RowKinds DEF LookupsFit, ToThePoint
  <2>4. selected' = selected
    BY <1>0, <2>3
  <2>5. LookupsMade' /\ LookupsFit'
    BY <2>1, <2>4 DEF LookupsMade, LookupsFit, ToThePoint, Met!Made, Met!Jobs
  <2> QED BY <1>0, <2>1, <2>4, <2>5
<1>3. CASE ~(doi = NoDoi /\ a \notin Searchable) /\ ~(~force /\ Met!Same(a, doi) # {})
  <2>1. PICK j \in Met!Jobs : /\ j = Cardinality(Met!Made) + 1
                              /\ lookups' = [lookups EXCEPT ![j] = Met!Lookup(a, d, metaGen[a] + 1, doi, force)]
                              /\ metaGen' = [metaGen EXCEPT ![a] = @ + 1]
                              /\ metaStatus' = [metaStatus EXCEPT ![a] = "pending"]
    BY <1>3, SameCardinality DEF Met!Enqueue
  <2>2. PICK n \in 0 .. MaxLookups : Met!Made = 1 .. n /\ \A b \in Assets : metaGen[b] <= n
    BY DEF LookupsMade
  <2>3. j = n + 1 /\ n + 1 <= MaxLookups
    <3>1. Cardinality(1 .. n) = n
      BY <1>0, FS_Interval
    <3> QED BY <1>0, <2>1, <2>2, <3>1 DEF Met!Jobs
  <2> DEFINE new == Met!Lookup(a, d, metaGen[a] + 1, doi, force)
  <2>4. /\ new \in LookupRow /\ Honest(new) /\ Alive(new) /\ new.at # "none"
        /\ new.asset = a /\ new.gen = metaGen[a] + 1 /\ new.doi = doi
    BY <1>0 DEF Met!Lookup, LookupRow, Honest, Alive, Met!NoDoc, Met!Statuses
  <2>5. lookups \in [Met!Jobs -> LookupRow \cup {Met!NoLookup, Met!Ended}]
    BY DEF LookupsMade
  <2> HIDE DEF new
  <2>6. lookups'[j] = new /\ \A k \in Met!Jobs \ {j} : lookups'[k] = lookups[k]
    BY <2>1, <2>5 DEF new
  <2>7. lookups' \in [Met!Jobs -> LookupRow \cup {Met!NoLookup, Met!Ended}]
    BY <2>1, <2>4, <2>5 DEF new
  <2>8. LookupsMade'
    <3>1. Met!Made' = 1 .. n + 1
      <4>1. \A k \in Met!Jobs : lookups[k].at # "none" <=> k <= n
        BY <1>0, <2>2 DEF Met!Made, Met!Jobs
      <4>2. Met!Made' = {k \in Met!Jobs : lookups'[k].at # "none"}
        BY DEF Met!Made, Met!Jobs
      <4>3. \A k \in Met!Jobs : lookups'[k].at # "none" <=> k <= n + 1
        <5>1. ASSUME NEW k \in Met!Jobs, k # j
              PROVE  lookups'[k].at # "none" <=> k <= n + 1
          <6>1. lookups'[k] = lookups[k]
            BY <2>6, <5>1
          <6>2. k \in Nat /\ n \in Nat /\ k # n + 1
            BY <1>0, <2>3, <5>1 DEF Met!Jobs
          <6> QED BY <4>1, <6>1, <6>2
        <5>2. lookups'[j].at # "none" /\ j <= n + 1
          BY <1>0, <2>3, <2>4, <2>6
        <5> QED BY <5>1, <5>2
      <4> QED BY <1>0, <2>2, <2>3, <4>2, <4>3 DEF Met!Jobs
    <3>2. \A b \in Assets : metaGen'[b] <= n + 1
      BY <1>0, <2>1, <2>2
    <3>3. n + 1 \in 0 .. MaxLookups
      BY <1>0, <2>2, <2>3
    <3> QED BY <2>7, <3>1, <3>2, <3>3 DEF LookupsMade, Met!Jobs
  <2>9. /\ metaGen'[a] = metaGen[a] + 1 /\ selected'[a] = doi
        /\ \A b \in Assets \ {a} : metaGen'[b] = metaGen[b] /\ selected'[b] = selected[b]
    BY <1>0, <2>1
  <2>10. ASSUME NEW k \in Met!Jobs, k # j, Alive(lookups'[k])
         PROVE  /\ Alive(lookups[k]) /\ Honest(lookups'[k]) /\ lookups'[k] = lookups[k]
                /\ lookups[k].asset \in Assets /\ lookups[k].gen \in Nat
                /\ lookups[k].gen <= metaGen[lookups[k].asset]
                /\ lookups[k].gen = metaGen[lookups[k].asset] /\ lookups[k].doi # NoDoi
                     => selected[lookups[k].asset] = lookups[k].doi
    <3>1. lookups'[k] = lookups[k] /\ Alive(lookups[k])
      BY <2>6, <2>10
    <3>2. lookups[k] \in LookupRow
      BY <3>1, RowKinds
    <3> QED BY <3>1, <3>2 DEF LookupsFit, LookupRow, ToThePoint
  <2>11. LookupsFit'
    <3>1. ASSUME NEW k \in Met!Jobs, Alive(lookups'[k])
          PROVE  /\ Honest(lookups'[k]) /\ lookups'[k].gen <= metaGen'[lookups'[k].asset]
                 /\ lookups'[k].gen = metaGen'[lookups'[k].asset] /\ lookups'[k].doi # NoDoi
                      => selected'[lookups'[k].asset] = lookups'[k].doi
      <4>1. CASE k = j
        BY <1>0, <2>4, <2>6, <2>9, <4>1
      <4>2. CASE k # j
        BY <1>0, <2>9, <2>10, <3>1, <4>2
      <4> QED BY <4>1, <4>2
    <3>2. ASSUME NEW k \in Met!Jobs, NEW l \in Met!Jobs, Alive(lookups'[k]), Alive(lookups'[l]),
                 lookups'[k].asset = lookups'[l].asset, lookups'[k].gen = lookups'[l].gen
          PROVE  k = l
      <4>1. CASE k # j /\ l # j
        BY <2>10, <3>2, <4>1 DEF LookupsFit
      <4>2. CASE k = j /\ l # j
        BY <1>0, <2>4, <2>6, <2>10, <3>2, <4>2
      <4>3. CASE k # j /\ l = j
        BY <1>0, <2>4, <2>6, <2>10, <3>2, <4>3
      <4> QED BY <4>1, <4>2, <4>3
    <3> QED BY <3>1, <3>2 DEF LookupsFit, Met!Jobs, Alive, Honest, ToThePoint
  <2>12. metaGen' \in [Assets -> Nat] /\ metaStatus' \in [Assets -> Met!Statuses]
    BY <1>0, <2>1 DEF Met!Statuses
  <2>13. \A b \in Assets : metaStatus'[b] = "succeeded" => metaStatus[b] = "succeeded" /\ selected'[b] = selected[b]
    BY <1>0, <2>1, <2>9
  <2> QED BY <2>8, <2>11, <2>12, <2>13
<1> QED BY <1>1, <1>2, <1>3

LEMMA EnqueuedKeeps ==
  ASSUME ContentAssumption, MetaInv, NEW a \in Assets, NEW d \in Docs \cup {"none"}, NEW doi \in DOIs \cup {NoDoi},
         NEW force \in BOOLEAN, Met!Enqueue(a, d, doi, force), selected' = [selected EXCEPT ![a] = doi],
         doi = selected[a] \/ (doi # NoDoi /\ (force \/ selected[a] = NoDoi)),
         manual' \subseteq Assets, UNCHANGED <<biblio, cached, metaSource, title, edited>>
  PROVE  MetaInv'
<1>1. /\ LookupsMade' /\ LookupsFit' /\ metaGen' \in [Assets -> Nat] /\ metaStatus' \in [Assets -> Met!Statuses]
      /\ \A b \in Assets : metaStatus'[b] = "succeeded" => metaStatus[b] = "succeeded" /\ selected'[b] = selected[b]
  BY Enqueued
<1>2. MetaTypes'
  BY <1>1 DEF MetaInv, MetaTypes, Met!Statuses
<1>3. Met!MetadataIsOfTheSource'
  BY <1>1 DEF MetaInv, Met!MetadataIsOfTheSource
<1> QED BY <1>1, <1>2, <1>3 DEF MetaInv

LEMMA SelectionsKeep ==
  ASSUME ContentAssumption, MetaInv
  PROVE  /\ \A a \in Assets, d \in Docs \cup {"none"}, found \in DOIs \cup {NoDoi} : Met!Inspected(a, d, found) => MetaInv'
         /\ \A d \in Docs, doi \in DOIs : Met!ParserFinds(d, doi) => MetaInv'
         /\ \A d \in Docs, doi \in DOIs \cup {NoDoi} : Met!Refresh(d, doi) => MetaInv'
<1>0. /\ NoDoi \notin DOIs /\ selected \in [Assets -> DOIs \cup {NoDoi}] /\ manual \subseteq Assets
      /\ metaSource \in [Docs -> Assets \cup {"deleted"}]
  BY MetaAssumptions DEF MetaInv, MetaTypes
<1>1. ASSUME NEW a \in Assets, NEW d \in Docs \cup {"none"}, NEW found \in DOIs \cup {NoDoi}, Met!Inspected(a, d, found)
      PROVE  MetaInv'
  <2> DEFINE doi == IF selected[a] = NoDoi THEN found ELSE selected[a]
  <2>1. /\ selected' = [selected EXCEPT ![a] = doi] /\ Met!Enqueue(a, d, doi, FALSE)
        /\ UNCHANGED <<manual, biblio, cached, metaSource, title, edited>>
    BY <1>1 DEF Met!Inspected, Met!docVars
  <2>2. doi \in DOIs \cup {NoDoi} /\ (doi = selected[a] \/ (doi # NoDoi /\ selected[a] = NoDoi))
    BY <1>0
  <2> HIDE DEF doi
  <2> QED BY <1>0, <2>1, <2>2, EnqueuedKeeps
<1>2. ASSUME NEW d \in Docs, NEW doi \in DOIs, Met!ParserFinds(d, doi)
      PROVE  MetaInv'
  <2> DEFINE a == metaSource[d]
  <2>1. /\ a # "deleted" /\ selected[a] = NoDoi
        /\ selected' = [selected EXCEPT ![a] = doi] /\ Met!Enqueue(a, d, doi, FALSE)
        /\ UNCHANGED <<manual, biblio, cached, metaSource, title, edited>>
    BY <1>2 DEF Met!ParserFinds, Met!docVars, Met!Deleted
  <2>2. a \in Assets /\ doi # NoDoi
    BY <1>0, <2>1
  <2> HIDE DEF a
  <2> QED BY <1>0, <2>1, <2>2, EnqueuedKeeps
<1>3. ASSUME NEW d \in Docs, NEW given \in DOIs \cup {NoDoi}, Met!Refresh(d, given)
      PROVE  MetaInv'
  <2> DEFINE a == metaSource[d]
             doi == IF given = NoDoi THEN selected[a] ELSE given
  <2>1. /\ a # "deleted" /\ selected' = IF given = NoDoi THEN selected ELSE [selected EXCEPT ![a] = given]
        /\ manual' = IF given = NoDoi THEN manual ELSE manual \cup {a}
        /\ Met!Enqueue(a, d, selected'[a], TRUE)
        /\ UNCHANGED <<biblio, cached, metaSource, title, edited>>
    BY <1>3 DEF Met!Refresh, Met!docVars, Met!Deleted
  <2>2. a \in Assets /\ manual' \subseteq Assets
    BY <1>0, <2>1
  <2>3. /\ doi \in DOIs \cup {NoDoi} /\ (doi = selected[a] \/ doi # NoDoi)
        /\ selected'[a] = doi /\ selected' = [selected EXCEPT ![a] = doi]
    BY <1>0, <2>1, <2>2
  <2>4. Met!Enqueue(a, d, doi, TRUE)
    BY <2>1, <2>3
  <2> HIDE DEF a, doi
  <2> QED BY <2>1, <2>2, <2>3, <2>4, EnqueuedKeeps
<1> QED BY <1>1, <1>2, <1>3

\* Lookups that end or get their document at the hands of someone else.
LEMMA LookupsFenced ==
  ASSUME ContentAssumption, MetaInv, NEW D, NEW B, NEW d \in Docs,
         lookups' = [j \in Met!Jobs |-> IF j \in D THEN Met!Ended
                                        ELSE IF j \in B THEN [lookups[j] EXCEPT !.doc = d] ELSE lookups[j]],
         \A j \in D \cup B : j \in Met!Jobs /\ Alive(lookups[j]),
         UNCHANGED <<selected, metaGen>>
  PROVE  LookupsMade' /\ LookupsFit'
<1> USE DEF MetaInv
<1>1. ASSUME NEW j \in Met!Jobs
      PROVE  /\ lookups'[j] \in LookupRow \cup {Met!NoLookup, Met!Ended}
             /\ lookups'[j].at # "none" <=> lookups[j].at # "none"
             /\ Alive(lookups'[j]) => /\ Alive(lookups[j]) /\ Honest(lookups'[j])
                                      /\ lookups'[j].asset = lookups[j].asset /\ lookups'[j].gen = lookups[j].gen
                                      /\ lookups'[j].doi = lookups[j].doi
  <2>1. CASE j \in D
    <3>1. lookups'[j] = Met!Ended
      BY <2>1
    <3>2. lookups[j].at # "none"
      BY <2>1 DEF Alive
    <3> QED BY <3>1, <3>2, RowKinds
  <2>2. CASE j \notin D /\ j \in B
    <3>1. lookups'[j] = [lookups[j] EXCEPT !.doc = d]
      BY <2>2
    <3>2. Alive(lookups[j]) /\ lookups[j] \in LookupRow /\ Honest(lookups[j])
      BY <2>2, RowKinds DEF LookupsFit
    <3> QED BY <3>1, <3>2 DEF LookupRow, Alive, Honest
  <2>3. CASE j \notin D /\ j \notin B
    <3>1. lookups'[j] = lookups[j]
      BY <2>3
    <3> QED BY <3>1 DEF LookupsMade, LookupsFit
  <2> QED BY <2>1, <2>2, <2>3
<1>2. lookups' \in [Met!Jobs -> LookupRow \cup {Met!NoLookup, Met!Ended}]
  BY <1>1
<1>3. Met!Made' = Met!Made
  BY <1>1 DEF Met!Made, Met!Jobs
<1>4. LookupsMade'
  BY <1>2, <1>3 DEF LookupsMade, Met!Jobs
<1>5. LookupsFit'
  <2>1. \A k \in Met!Jobs : Alive(lookups'[k]) =>
          /\ Honest(lookups'[k]) /\ lookups'[k].gen <= metaGen'[lookups'[k].asset]
          /\ lookups'[k].gen = metaGen'[lookups'[k].asset] =>
               (lookups'[k].doi # NoDoi => selected'[lookups'[k].asset] = lookups'[k].doi)
    BY <1>1 DEF LookupsFit, ToThePoint
  <2>2. ASSUME NEW k \in Met!Jobs, NEW l \in Met!Jobs, Alive(lookups'[k]), Alive(lookups'[l]),
               lookups'[k].asset = lookups'[l].asset, lookups'[k].gen = lookups'[l].gen
        PROVE  k = l
    BY <1>1, <2>2 DEF LookupsFit
  <2> QED BY <2>1, <2>2 DEF LookupsFit, Met!Jobs, Alive, Honest, ToThePoint
<1> QED BY <1>4, <1>5

\* A document's name, as MetadataIsOfTheSource wants it.
NameFits(d) ==
  metaSource[d] # "deleted" =>
    IF edited[d] THEN title[d] = "user" ELSE title[d] \in {"filename", biblio[metaSource[d]]}

LEMMA NamesFit ==
  MetaTypes /\ Met!MetadataIsOfTheSource => \A d \in Docs : NameFits(d)
  BY DEF MetaTypes, Met!MetadataIsOfTheSource, Met!Deleted, Met!UserTitle, Met!Filename, NameFits

LEMMA DocumentsKeep ==
  ASSUME ContentAssumption, MetaInv, NEW d \in Docs
  PROVE  /\ \A a \in Assets : Met!ReplaceSource(d, a) => MetaInv'
         /\ Met!EditTitle(d) => MetaInv'
         /\ Met!Delete(d) => MetaInv'
<1> USE DEF MetaInv
<1>0. /\ DOMAIN title = Docs /\ metaSource \in [Docs -> Assets \cup {"deleted"}] /\ edited \in [Docs -> BOOLEAN]
      /\ \A e \in Docs : NameFits(e)
  BY NamesFit DEF MetaTypes
<1>1. ASSUME NEW a \in Assets, Met!ReplaceSource(d, a)
      PROVE  MetaInv'
  <2>1. /\ metaSource' = [metaSource EXCEPT ![d] = a]
        /\ title' = IF edited[d] THEN title ELSE [title EXCEPT ![d] = Met!TitleOf(a)]
        /\ UNCHANGED <<selected, manual, metaGen, metaStatus, biblio, cached, edited>>
        /\ metaSource[d] # "deleted"
    BY <1>1 DEF Met!ReplaceSource, Met!assetVars, Met!Deleted
  <2>2. PICK bound \in SUBSET Met!Unbound(a) :
          lookups' = [j \in Met!Jobs |-> IF j \in Met!Fenced(d) THEN Met!Ended
                                         ELSE IF j \in bound THEN [lookups[j] EXCEPT !.doc = d] ELSE lookups[j]]
    BY <1>1 DEF Met!ReplaceSource
  <2>3. \A j \in Met!Fenced(d) \cup bound : j \in Met!Jobs /\ Alive(lookups[j])
    BY RowKinds DEF Met!Fenced, Met!Unbound, Met!Made
  <2>4. LookupsMade' /\ LookupsFit'
    BY <2>1, <2>2, <2>3, LookupsFenced
  <2>5. MetaTypes'
    BY <1>0, <2>1 DEF MetaTypes, Met!Statuses
  <2>6. ASSUME NEW e \in Docs
        PROVE  metaSource'[e] # "deleted" =>
                 IF edited'[e] THEN title'[e] = "user" ELSE title'[e] \in {"filename", biblio'[metaSource'[e]]}
    <3>1. CASE e = d
      <4>1. CASE edited[d]
        BY <1>0, <2>1, <3>1, <4>1 DEF NameFits
      <4>2. CASE ~edited[d]
        BY <1>0, <2>1, <3>1, <4>2 DEF Met!TitleOf, Met!Filename
      <4> QED BY <4>1, <4>2
    <3>2. CASE e # d
      BY <1>0, <2>1, <3>2 DEF NameFits
    <3> QED BY <3>1, <3>2
  <2>7. Met!MetadataIsOfTheSource'
    BY <2>1, <2>6 DEF Met!MetadataIsOfTheSource, Met!Deleted, Met!UserTitle, Met!Filename
  <2> QED BY <2>4, <2>5, <2>7
<1>2. ASSUME Met!EditTitle(d)
      PROVE  MetaInv'
  <2>1. /\ title' = [title EXCEPT ![d] = "user"] /\ edited' = [edited EXCEPT ![d] = TRUE]
        /\ UNCHANGED <<selected, manual, metaGen, metaStatus, biblio, lookups, cached, metaSource>>
    BY <1>2 DEF Met!EditTitle, Met!assetVars, Met!UserTitle
  <2>2. LookupsMade' /\ LookupsFit'
    BY <2>1 DEF LookupsMade, LookupsFit, ToThePoint, Met!Made, Met!Jobs
  <2>3. MetaTypes'
    BY <1>0, <2>1 DEF MetaTypes, Met!Statuses
  <2>4. \A e \in Docs : metaSource'[e] # "deleted" =>
          IF edited'[e] THEN title'[e] = "user" ELSE title'[e] \in {"filename", biblio'[metaSource'[e]]}
    BY <1>0, <2>1 DEF NameFits
  <2>5. Met!MetadataIsOfTheSource'
    BY <2>1, <2>4 DEF Met!MetadataIsOfTheSource, Met!Deleted, Met!UserTitle, Met!Filename
  <2> QED BY <2>2, <2>3, <2>5
<1>3. ASSUME Met!Delete(d)
      PROVE  MetaInv'
  <2>1. /\ title' = [title EXCEPT ![d] = "deleted"] /\ metaSource' = [metaSource EXCEPT ![d] = "deleted"]
        /\ lookups' = [j \in Met!Jobs |-> IF j \in Met!Fenced(d) THEN Met!Ended
                                          ELSE IF j \in {} THEN [lookups[j] EXCEPT !.doc = d] ELSE lookups[j]]
        /\ UNCHANGED <<selected, manual, metaGen, metaStatus, biblio, cached, edited>>
    BY <1>3 DEF Met!Delete, Met!assetVars, Met!Deleted
  <2>2. \A j \in Met!Fenced(d) \cup {} : j \in Met!Jobs /\ Alive(lookups[j])
    BY RowKinds DEF Met!Fenced, Met!Made
  <2>3. LookupsMade' /\ LookupsFit'
    BY <2>1, <2>2, LookupsFenced
  <2>4. MetaTypes'
    BY <1>0, <2>1 DEF MetaTypes, Met!Statuses
  <2>5. \A e \in Docs : metaSource'[e] # "deleted" =>
          IF edited'[e] THEN title'[e] = "user" ELSE title'[e] \in {"filename", biblio'[metaSource'[e]]}
    BY <1>0, <2>1 DEF NameFits
  <2>6. Met!MetadataIsOfTheSource'
    BY <2>1, <2>5 DEF Met!MetadataIsOfTheSource, Met!Deleted, Met!UserTitle, Met!Filename
  <2> QED BY <2>3, <2>4, <2>6
<1> QED BY <1>1, <1>2, <1>3

LEMMA CacheKeeps ==
  ASSUME MetaInv, \/ UNCHANGED metaVars
                  \/ \E row \in cached : Met!CacheExpires(row)
  PROVE  MetaInv'
<1>1. /\ cached' \subseteq cached
      /\ UNCHANGED <<selected, manual, metaGen, metaStatus, biblio, lookups, metaSource, title, edited>>
  BY DEF metaVars, Met!CacheExpires, Met!assetVars, Met!docVars
<1>2. LookupsMade' /\ LookupsFit'
  BY <1>1 DEF MetaInv, LookupsMade, LookupsFit, ToThePoint, Met!Made, Met!Jobs
<1>3. MetaTypes' /\ Met!MetadataIsOfTheSource'
  BY <1>1 DEF MetaInv, MetaTypes, Met!MetadataIsOfTheSource, Met!Statuses
<1> QED BY <1>2, <1>3 DEF MetaInv

LEMMA MetaStep ==
  ASSUME ContentAssumption, MetaInv, [Met!Next]_metaVars
  PROVE  MetaInv'
<1>1. CASE \E a \in Assets, d \in Docs \cup {Met!NoDoc}, found \in DOIs \cup {NoDoi} : Met!Inspected(a, d, found)
  BY <1>1, SelectionsKeep DEF Met!NoDoc
<1>2. ASSUME NEW d \in Docs,
             \/ \E doi \in DOIs : Met!ParserFinds(d, doi)
             \/ \E doi \in DOIs \cup {NoDoi} : Met!Refresh(d, doi)
             \/ \E a \in Assets : Met!ReplaceSource(d, a)
             \/ Met!EditTitle(d) \/ Met!Delete(d)
      PROVE  MetaInv'
  BY <1>2, SelectionsKeep, DocumentsKeep
<1>3. ASSUME NEW j \in Met!Made, LookupStep(j) \/ Met!RetryLater(j) \/ Met!Complete(j)
      PROVE  MetaInv'
  BY <1>3, LookupStepKeeps, RetryLaterKeeps, CompleteKeeps
<1>4. CASE UNCHANGED metaVars \/ \E row \in cached : Met!CacheExpires(row)
  BY <1>4, CacheKeeps
<1> QED BY <1>1, <1>2, <1>3, <1>4 DEF Met!Next, LookupStep

LEMMA MetaInvType == ContentAssumption /\ MetaInv => Met!TypeOK
<1> SUFFICES ASSUME ContentAssumption, MetaInv PROVE Met!TypeOK
  OBVIOUS
<1>1. metaGen \in [Assets -> 0 .. MaxLookups]
  <2>1. PICK n \in 0 .. MaxLookups : \A a \in Assets : metaGen[a] <= n
    BY DEF MetaInv, LookupsMade
  <2>2. metaGen \in [Assets -> Nat] /\ MaxLookups \in Nat
    BY MetaAssumptions DEF MetaInv, MetaTypes
  <2> QED BY <2>1, <2>2
<1>2. ASSUME NEW j \in Met!Made
      PROVE  lookups[j] = Met!Ended \/ (Met!Live(j) /\ lookups[j].attempts \in 0 .. RetryLimit)
  <2>1. j \in Met!Jobs /\ lookups[j].at # "none"
    BY DEF Met!Made
  <2>2. lookups[j] \in LookupRow \/ lookups[j] = Met!Ended
    BY <2>1, RowKinds DEF MetaInv
  <2> QED BY <2>1, <2>2, RowKinds DEF MetaInv, LookupRow
<1> QED BY <1>1, <1>2 DEF MetaInv, MetaTypes, Met!TypeOK, Met!Deleted

(* A late answer never describes another paper, and a title that came from *)
(* metadata is that of the document's present source, while the user's own *)
(* stays (metadata/execution.py): for any number of papers, documents,     *)
(* DOIs and lookups under way.                                             *)
THEOREM MetadataOfTheSource == Spec => []MetadataIsOfTheSource
<1>1. Init => MetaInv
  BY MetaInit, ContentAssumption DEF Init
<1>2. [Next]_vars => [Met!Next]_metaVars
  BY DEF Next, vars, metaVars
<1>3. MetaInv /\ [Next]_vars => MetaInv'
  BY <1>2, MetaStep, ContentAssumption
<1>4. MetaInv => MetadataIsOfTheSource
  BY MetaInvType, ContentAssumption DEF MetaInv, MetadataIsOfTheSource
<1> QED BY <1>1, <1>3, <1>4, PTL DEF Spec

--------------------------------------------------------------------------------
(* Editorial.                                                              *)

Partial(S, T) == UNION {[D -> T] : D \in SUBSET S}

SegRow ==
  [seq : 0 .. MaxSeq, text : Texts \cup {NoText}, by : {"none", "human", "model", "candidate"},
   glossary : {Glossary} \cup Requested]
SemRow ==
  [at : {"pending", "running", "done", "failed"}, target : Partial(Blocks, SegRow),
   answer : Partial(Blocks, {"none", "clean", "finding", "failed", "stale"})]
CandRow ==
  [at : {"running", "ready", "accepted"}, base : Partial(Blocks, 0 .. MaxSeq), glossary : Requested,
   ended : SUBSET Blocks, results : Partial(Blocks, Texts), allowed : BOOLEAN, saw : Partial(Blocks, SegRow)]
Rules == {"MISSING_TRANSLATION", "SEMANTIC_RISK", "NUMBER_MISMATCH", "SEMANTIC"}
IssueRow == Rules \X Blocks \X (Texts \cup {NoText})

\* The issues of a check, from the texts, the evidence of the semantic review
\* and the decisions of users that it is made of.
KindsOf(targets, evidence, confirmed, b) ==
  IF ~(targets[b].seq > 0) THEN {"MISSING_TRANSLATION"}
  ELSE {k \in {"SEMANTIC_RISK", "NUMBER_MISMATCH", "SEMANTIC"} :
          CASE k = "SEMANTIC_RISK" -> ~(targets[b].seq > 0 /\ confirmed[b] = targets[b])
            [] k = "NUMBER_MISMATCH" -> targets[b].text \in Faulty
            [] k = "SEMANTIC" -> evidence # Edt!None /\ b \in evidence.findings}
FoundIn(targets, evidence, confirmed) ==
  UNION {{<<k, b, targets[b].text>> : k \in KindsOf(targets, evidence, confirmed, b)} : b \in Blocks}
IssuesOf(targets, evidence, confirmed, decided) ==
  [found |-> FoundIn(targets, evidence, confirmed),
   resolved |-> FoundIn(targets, evidence, confirmed) \cap decided,
   incomplete |-> evidence # Edt!None /\ ~evidence.completed]

EditTypes ==
  /\ segment \in [Blocks -> SegRow] /\ reviewed \in [Blocks -> SegRow]
  /\ \A b \in Blocks : reviewed[b].seq <= segment[b].seq
  /\ gen \in 0 .. MaxWork /\ resolved \subseteq IssueRow /\ sourceMoved \in BOOLEAN
  /\ unit \in [Units -> {"none", "todo", "done", "failed"}] /\ planned \in [Blocks -> 0 .. MaxSeq]
  /\ sem # Edt!None => sem \in SemRow

\* A report holds the issues of the texts and the evidence in its fingerprint;
\* what users confirmed or resolved has not changed since.
ReportFits ==
  report # Edt!None =>
    /\ report.fingerprint.targets \in [Blocks -> SegRow]
    /\ report.issues = IssuesOf(report.fingerprint.targets, report.fingerprint.semantic, reviewed, resolved)

\* What a candidate's user saw is what its base versions are.
CandFits ==
  cand # Edt!None =>
    /\ cand \in CandRow /\ DOMAIN cand.base \subseteq DOMAIN cand.saw
    /\ \A b \in DOMAIN cand.base :
         /\ cand.base[b] = cand.saw[b].seq /\ cand.base[b] <= segment[b].seq
         /\ segment[b].seq = cand.base[b] => cand.saw[b] = segment[b]

\* Only blocks without a text are planned, and a block all of whose units are done has one.
UnitsFit ==
  /\ \A u \in Units : unit[u] # "none" => planned[UnitBlock[u]] = 0
  /\ Edt!TranslatedBlocksArrive

EditInv == EditTypes /\ ReportFits /\ CandFits /\ UnitsFit

LEMMA EditAssumptions ==
  ContentAssumption => /\ UnitBlock \in [Units -> Blocks] /\ \A b \in Blocks : \E u \in Units : UnitBlock[u] = b
                       /\ IsFiniteSet(Blocks) /\ NoText \notin Texts /\ MaxSeq \in Nat \ {0} /\ MaxWork \in Nat
<1>1. IsFiniteSet(Blocks) <=> Edt!IsFiniteSet(Blocks)
  BY DEF IsFiniteSet, Edt!IsFiniteSet
<1> QED BY <1>1 DEF ContentAssumption, Edt!EditorialAssumption

LEMMA Started ==
  ASSUME ContentAssumption
  PROVE  Edt!Started \in Nat /\ \A S \in SUBSET Blocks : Edt!Cardinality(S) \in Nat
<1>1. \A S : Edt!Cardinality(S) = Cardinality(S)
  BY DEF Edt!Cardinality, Cardinality
<1>2. \A S : IsFiniteSet(S) => Cardinality(S) \in Nat
  BY FS_CardinalityType
<1>3. \A S \in SUBSET (1 .. 3) : IsFiniteSet(S)
  <2>1. IsFiniteSet(1 .. 3)
    <3>1. \A n \in Nat : IsFiniteSet(1 .. n)
      BY FS_Interval
    <3> QED BY <3>1
  <2> QED BY <2>1, FS_Subset
<1>4. \A S \in SUBSET Blocks : IsFiniteSet(S)
  BY EditAssumptions, FS_Subset
<1> QED BY <1>1, <1>2, <1>3, <1>4 DEF Edt!Started

LEMMA PartialFits ==
  ASSUME NEW S, NEW T
  PROVE  /\ \A f \in Partial(S, T) : DOMAIN f \subseteq S /\ f = [x \in DOMAIN f |-> f[x]] /\ \A x \in DOMAIN f : f[x] \in T
         /\ \A D \in SUBSET S : \A f \in [D -> T] : f \in Partial(S, T)
  BY DEF Partial

LEMMA IssuesAre ==
  EditTypes => /\ Edt!Issues = IssuesOf(segment, Edt!Evidence, reviewed, resolved)
               /\ Edt!Evidence # Edt!None <=> sem # Edt!None
<1> SUFFICES ASSUME EditTypes
             PROVE  /\ Edt!Issues = IssuesOf(segment, Edt!Evidence, reviewed, resolved)
                    /\ Edt!Evidence # Edt!None <=> sem # Edt!None
  OBVIOUS
<1>1. Edt!Evidence # Edt!None <=> sem # Edt!None
  <2>1. sem # Edt!None => Edt!Evidence.at # "none"
    BY DEF EditTypes, SemRow, Edt!Evidence
  <2> QED BY <2>1 DEF Edt!Evidence, Edt!None
<1>2. sem # Edt!None => Edt!Evidence.findings = Edt!Findings /\ Edt!Evidence.completed = Edt!Completed
  BY DEF Edt!Evidence
<1>3. \A b \in Blocks : Edt!IssueKinds(b) = KindsOf(segment, Edt!Evidence, reviewed, b)
  BY <1>1, <1>2 DEF Edt!IssueKinds, KindsOf, Edt!Present, Edt!Reviewed
<1>4. Edt!Found = FoundIn(segment, Edt!Evidence, reviewed)
  BY <1>3 DEF Edt!Found, FoundIn
<1> QED BY <1>1, <1>2, <1>4 DEF Edt!Issues, IssuesOf

LEMMA FoundRows ==
  ASSUME NEW targets \in [Blocks -> SegRow], NEW evidence, NEW confirmed
  PROVE  FoundIn(targets, evidence, confirmed) \subseteq IssueRow
<1>1. \A b \in Blocks : targets[b].text \in Texts \cup {NoText}
  BY DEF SegRow
<1>2. \A b \in Blocks : KindsOf(targets, evidence, confirmed, b) \subseteq Rules
  BY DEF KindsOf, Rules
<1> QED BY <1>1, <1>2 DEF FoundIn, IssueRow

LEMMA EditInit == ContentAssumption /\ Edt!Init => EditInv
<1> SUFFICES ASSUME ContentAssumption, Edt!Init PROVE EditInv
  OBVIOUS
<1>1. Edt!NoSegment \in SegRow /\ Edt!NoSegment.seq = 0
  BY EditAssumptions DEF Edt!NoSegment, SegRow
<1>2. EditTypes
  <2>1. segment \in [Blocks -> SegRow] /\ reviewed \in [Blocks -> SegRow] /\ reviewed = segment
    BY <1>1 DEF Edt!Init
  <2>2. \A b \in Blocks : segment[b].seq = 0
    BY <1>1 DEF Edt!Init
  <2>3. gen \in 0 .. MaxWork /\ planned \in [Blocks -> 0 .. MaxSeq]
    BY EditAssumptions DEF Edt!Init
  <2>4. /\ resolved \subseteq IssueRow /\ sourceMoved \in BOOLEAN /\ sem = Edt!None
        /\ unit \in [Units -> {"none", "todo", "done", "failed"}]
    BY DEF Edt!Init
  <2> QED BY <2>1, <2>2, <2>3, <2>4 DEF EditTypes
<1>3. ReportFits /\ CandFits
  BY DEF Edt!Init, ReportFits, CandFits
<1>4. UnitsFit
  BY EditAssumptions DEF Edt!Init, UnitsFit, Edt!TranslatedBlocksArrive, Edt!UnitsOf
<1> QED BY <1>2, <1>3, <1>4 DEF EditInv

SegmentsGrow ==
  /\ segment' \in [Blocks -> SegRow]
  /\ \A b \in Blocks : segment'[b] = segment[b] \/ segment'[b].seq = segment[b].seq + 1
Stands(b) ==
  segment'[b] # segment[b] =>
    \/ segment'[b].by = "human"
    \/ segment'[b].by = "model" /\ ~Edt!Present(b)
    \/ segment'[b].by = "candidate" /\ cand.saw[b] = segment[b] /\ (Edt!Reviewed(b) => cand'.allowed)
AllStand == \A b \in Blocks : Stands(b)

\* What the reader of a report or of a revision relies on, over one step.
ReportStep ==
  \/ report' = Edt!None
  \/ report' = report /\ UNCHANGED <<reviewed, resolved>>
  \/ report' = Edt!Check'
SealStep ==
  sealed' # Edt!None => /\ sealed'.issues = Edt!Issues'
                        /\ \A b \in sealed'.human : sealed'.target[b] = reviewed'[b].text
\* One step of the draft, but for what it seals.
DraftStep == EditTypes' /\ SegmentsGrow /\ AllStand /\ ReportStep /\ CandFits' /\ UnitsFit'

LEMMA SegmentKeeps ==
  ASSUME EditTypes, UNCHANGED segment
  PROVE  SegmentsGrow /\ AllStand
  BY DEF EditTypes, SegmentsGrow, AllStand, Stands

LEMMA SeenKeeps ==
  ASSUME EditTypes, CandFits, SegmentsGrow, UNCHANGED cand
  PROVE  CandFits'
<1>1. ASSUME cand # Edt!None
      PROVE  /\ cand \in CandRow /\ DOMAIN cand.base \subseteq DOMAIN cand.saw
             /\ \A b \in DOMAIN cand.base :
                  /\ cand.base[b] = cand.saw[b].seq /\ cand.base[b] <= segment'[b].seq
                  /\ segment'[b].seq = cand.base[b] => cand.saw[b] = segment'[b]
  <2>1. cand \in CandRow /\ DOMAIN cand.base \subseteq DOMAIN cand.saw
    BY <1>1 DEF CandFits
  <2>2. ASSUME NEW b \in DOMAIN cand.base
        PROVE  /\ cand.base[b] = cand.saw[b].seq /\ cand.base[b] <= segment'[b].seq
               /\ segment'[b].seq = cand.base[b] => cand.saw[b] = segment'[b]
    <3>1. cand.base \in Partial(Blocks, 0 .. MaxSeq)
      BY <2>1 DEF CandRow
    <3>2. b \in Blocks /\ cand.base[b] \in 0 .. MaxSeq
      BY <3>1, PartialFits
    <3>3. segment[b].seq \in 0 .. MaxSeq /\ (segment'[b] = segment[b] \/ segment'[b].seq = segment[b].seq + 1)
      BY <3>2 DEF EditTypes, SegmentsGrow, SegRow
    <3>4. /\ cand.base[b] = cand.saw[b].seq /\ cand.base[b] <= segment[b].seq
          /\ segment[b].seq = cand.base[b] => cand.saw[b] = segment[b]
      BY <1>1 DEF CandFits
    <3> QED BY <3>2, <3>3, <3>4
  <2> QED BY <2>1, <2>2
<1> QED BY <1>1 DEF CandFits, Edt!None, CandRow

LEMMA ArrivedKeeps ==
  ASSUME EditTypes, UnitsFit, SegmentsGrow, UNCHANGED <<unit, planned>>
  PROVE  UnitsFit'
<1>1. ASSUME NEW b \in Blocks, segment[b].seq > 0
      PROVE  segment'[b].seq > 0
  BY <1>1 DEF EditTypes, SegmentsGrow, SegRow
<1> QED BY <1>1 DEF UnitsFit, Edt!TranslatedBlocksArrive, Edt!UnitsOf, Edt!Present

LEMMA IssuesAreNext ==
  EditTypes' => /\ Edt!Issues' = IssuesOf(segment', Edt!Evidence', reviewed', resolved')
                /\ Edt!Check' = [at |-> "made", gen |-> gen', issues |-> Edt!Issues',
                                 fingerprint |-> [gen |-> gen', targets |-> segment', semantic |-> Edt!Evidence']]
<1>1. (EditTypes => Edt!Issues = IssuesOf(segment, Edt!Evidence, reviewed, resolved))'
  BY IssuesAre, PTL
<1>2. EditTypes' => Edt!Issues' = IssuesOf(segment', Edt!Evidence', reviewed', resolved')
  BY <1>1 DEF IssuesOf, FoundIn, KindsOf
<1> QED BY <1>2 DEF Edt!Check, Edt!Fingerprint

LEMMA ReportKeeps ==
  ASSUME ReportFits, ReportStep, EditTypes'
  PROVE  ReportFits'
<1>1. CASE report' = Edt!None
  BY <1>1 DEF ReportFits, Edt!None
<1>2. CASE report' = report /\ UNCHANGED <<reviewed, resolved>>
  <2>1. report' # Edt!None =>
          /\ report'.fingerprint.targets \in [Blocks -> SegRow]
          /\ report'.issues = IssuesOf(report'.fingerprint.targets, report'.fingerprint.semantic, reviewed', resolved')
    BY <1>2 DEF ReportFits
  <2> QED BY <2>1 DEF ReportFits, Edt!None, SegRow, IssuesOf, FoundIn, KindsOf
<1>3. CASE report' = Edt!Check'
  <2>1. /\ report'.fingerprint.targets = segment' /\ report'.fingerprint.semantic = Edt!Evidence'
        /\ report'.issues = IssuesOf(segment', Edt!Evidence', reviewed', resolved')
    BY <1>3, IssuesAreNext
  <2> QED BY <2>1 DEF ReportFits, EditTypes, SegRow, IssuesOf, FoundIn, KindsOf
<1> QED BY <1>1, <1>2, <1>3 DEF ReportStep

LEMMA TypesKeep ==
  ASSUME EditTypes, SegmentsGrow, gen' \in 0 .. MaxWork, sourceMoved' \in BOOLEAN,
         unit' \in [Units -> {"none", "todo", "done", "failed"}], planned' \in [Blocks -> 0 .. MaxSeq],
         resolved' \subseteq IssueRow, sem' = sem \/ sem' \in SemRow,
         reviewed' = reviewed \/ (segment' = segment /\ \E b \in Blocks : reviewed' = [reviewed EXCEPT ![b] = segment[b]])
  PROVE  EditTypes'
<1>1. reviewed' \in [Blocks -> SegRow]
  BY DEF EditTypes
<1>2. ASSUME NEW b \in Blocks
      PROVE  reviewed'[b].seq <= segment'[b].seq
  <2>1. segment[b] \in SegRow /\ reviewed[b] \in SegRow /\ reviewed[b].seq <= segment[b].seq
    BY DEF EditTypes
  <2>2. segment[b].seq \in Nat /\ reviewed[b].seq \in Nat /\ (segment'[b] = segment[b] \/ segment'[b].seq = segment[b].seq + 1)
    BY <2>1 DEF SegmentsGrow, SegRow
  <2>3. CASE reviewed' = reviewed
    BY <2>1, <2>2, <2>3
  <2>4. CASE segment' = segment /\ \E c \in Blocks : reviewed' = [reviewed EXCEPT ![c] = segment[c]]
    <3>1. reviewed'[b] = reviewed[b] \/ reviewed'[b] = segment[b]
      BY <2>4 DEF EditTypes
    <3> QED BY <2>1, <2>2, <2>4, <3>1
  <2> QED BY <2>3, <2>4
<1>3. sem' # Edt!None => sem' \in SemRow
  BY DEF EditTypes
<1>4. segment' \in [Blocks -> SegRow]
  BY DEF SegmentsGrow
<1> QED BY <1>1, <1>2, <1>3, <1>4 DEF EditTypes, SegRow, SemRow, Partial, Edt!None, IssueRow, Rules

LEMMA Written ==
  ASSUME EditTypes, NEW b \in Blocks, NEW text \in Texts, NEW by \in {"human", "model"},
         NEW glossary \in {Glossary} \cup Requested, Edt!Write(b, text, by, glossary)
  PROVE  /\ SegmentsGrow /\ segment'[b].by = by /\ segment'[b].seq = segment[b].seq + 1
         /\ \A c \in Blocks \ {b} : segment'[c] = segment[c]
<1> DEFINE new == [seq |-> segment[b].seq + 1, text |-> text, by |-> by, glossary |-> glossary]
<1>1. segment \in [Blocks -> SegRow] /\ segment[b] \in SegRow
  BY DEF EditTypes
<1>2. segment' = [segment EXCEPT ![b] = new] /\ segment[b].seq < MaxSeq
  BY DEF Edt!Write
<1>3. new \in SegRow /\ new.seq = segment[b].seq + 1 /\ new.by = by
  <2>1. segment[b].seq + 1 \in 0 .. MaxSeq
    BY <1>1, <1>2, EditAssumptions, ContentAssumption DEF SegRow
  <2> QED BY <2>1 DEF SegRow
<1> HIDE DEF new
<1>4. segment' \in [Blocks -> SegRow] /\ segment'[b] = new /\ \A c \in Blocks \ {b} : segment'[c] = segment[c]
  BY <1>1, <1>2, <1>3
<1> QED BY <1>3, <1>4 DEF SegmentsGrow

LEMMA GenerationFits ==
  ASSUME ContentAssumption, EditTypes, Edt!MayWork
  PROVE  gen + 1 \in 0 .. MaxWork
  BY EditAssumptions, Started DEF EditTypes, Edt!MayWork

\* The commands of a user.
LEMMA UserKeeps ==
  ASSUME ContentAssumption, EditInv
  PROVE  /\ \A b \in Blocks, t \in Texts : Edt!EditSegment(b, t) => DraftStep
         /\ \A b \in Blocks : Edt!ConfirmReview(b) => DraftStep
         /\ \A i : report # Edt!None /\ Edt!ResolveIssue(i) => DraftStep
<1> USE DEF EditInv
<1>1. ASSUME NEW b \in Blocks, NEW t \in Texts, Edt!EditSegment(b, t)
      PROVE  DraftStep
  <2>1. /\ Edt!Write(b, t, "human", segment[b].glossary) /\ Edt!MayWork
        /\ gen' = gen + 1 /\ report' = Edt!None
        /\ UNCHANGED <<reviewed, resolved, sourceMoved, planned, unit, cand, sem>>
    BY <1>1 DEF Edt!EditSegment, Edt!Changed, Edt!jobVars
  <2>2. segment[b].glossary \in {Glossary} \cup Requested
    BY DEF EditTypes, SegRow
  <2>3. /\ SegmentsGrow /\ segment'[b].by = "human"
        /\ \A c \in Blocks \ {b} : segment'[c] = segment[c]
    BY <2>1, <2>2, Written
  <2>4. EditTypes'
    <3>1. gen' \in 0 .. MaxWork
      BY <2>1, GenerationFits
    <3>2. /\ sourceMoved' \in BOOLEAN /\ unit' \in [Units -> {"none", "todo", "done", "failed"}]
          /\ planned' \in [Blocks -> 0 .. MaxSeq] /\ resolved' \subseteq IssueRow
      BY <2>1 DEF EditTypes
    <3> QED BY <2>1, <2>3, <3>1, <3>2, TypesKeep
  <2>5. AllStand
    BY <2>3 DEF AllStand, Stands
  <2>6. CandFits' /\ UnitsFit'
    BY <2>1, <2>3, SeenKeeps, ArrivedKeeps
  <2> QED BY <2>1, <2>3, <2>4, <2>5, <2>6 DEF DraftStep, ReportStep
<1>2. ASSUME NEW b \in Blocks, Edt!ConfirmReview(b)
      PROVE  DraftStep
  <2>1. /\ reviewed' = [reviewed EXCEPT ![b] = segment[b]] /\ Edt!MayWork
        /\ gen' = gen + 1 /\ report' = Edt!None
        /\ UNCHANGED <<segment, resolved, sourceMoved, planned, unit, cand, sem>>
    BY <1>2 DEF Edt!ConfirmReview, Edt!Changed, Edt!jobVars
  <2>2. SegmentsGrow /\ AllStand
    BY <2>1, SegmentKeeps
  <2>3. EditTypes'
    <3>1. gen' \in 0 .. MaxWork
      BY <2>1, GenerationFits
    <3>2. /\ sourceMoved' \in BOOLEAN /\ unit' \in [Units -> {"none", "todo", "done", "failed"}]
          /\ planned' \in [Blocks -> 0 .. MaxSeq] /\ resolved' \subseteq IssueRow
      BY <2>1 DEF EditTypes
    <3> QED BY <2>1, <2>2, <3>1, <3>2, TypesKeep
  <2>4. CandFits' /\ UnitsFit'
    BY <2>1, <2>2, SeenKeeps, ArrivedKeeps
  <2> QED BY <2>1, <2>2, <2>3, <2>4 DEF DraftStep, ReportStep
<1>3. ASSUME NEW i, report # Edt!None, Edt!ResolveIssue(i)
      PROVE  DraftStep
  <2>1. /\ i \in report.issues.found /\ resolved' = resolved \cup {i} /\ Edt!MayWork
        /\ gen' = gen + 1 /\ report' = Edt!None
        /\ UNCHANGED <<segment, reviewed, sourceMoved, planned, unit, cand, sem>>
    BY <1>3 DEF Edt!ResolveIssue, Edt!Changed, Edt!jobVars
  <2>2. SegmentsGrow /\ AllStand
    BY <2>1, SegmentKeeps
  <2>3. i \in IssueRow
    <3>1. /\ report.fingerprint.targets \in [Blocks -> SegRow]
          /\ report.issues.found = FoundIn(report.fingerprint.targets, report.fingerprint.semantic, reviewed)
      BY <1>3 DEF ReportFits, IssuesOf
    <3> QED BY <2>1, <3>1, FoundRows
  <2>4. EditTypes'
    <3>1. gen' \in 0 .. MaxWork
      BY <2>1, GenerationFits
    <3>2. /\ sourceMoved' \in BOOLEAN /\ unit' \in [Units -> {"none", "todo", "done", "failed"}]
          /\ planned' \in [Blocks -> 0 .. MaxSeq]
      BY <2>1 DEF EditTypes
    <3>3. resolved' \subseteq IssueRow
      BY <2>1, <2>3 DEF EditTypes
    <3> QED BY <2>1, <2>2, <3>1, <3>2, <3>3, TypesKeep
  <2>5. CandFits' /\ UnitsFit'
    BY <2>1, <2>2, SeenKeeps, ArrivedKeeps
  <2> QED BY <2>1, <2>2, <2>4, <2>5 DEF DraftStep, ReportStep
<1> QED BY <1>1, <1>2, <1>3

LEMMA SameIssues ==
  UNCHANGED <<segment, gen, reviewed, resolved, sem>> => Edt!Issues' = Edt!Issues /\ Edt!Check' = Edt!Check
<1> SUFFICES ASSUME UNCHANGED <<segment, gen, reviewed, resolved, sem>>
             PROVE  Edt!Issues' = Edt!Issues /\ Edt!Check' = Edt!Check
  OBVIOUS
<1>1. Edt!ReviewStale' = Edt!ReviewStale /\ Edt!Findings' = Edt!Findings
  BY DEF Edt!ReviewStale, Edt!Findings, Edt!SameText, Edt!Present
<1>2. Edt!Completed' = Edt!Completed
  BY <1>1 DEF Edt!Completed
<1>3. Edt!Evidence' = Edt!Evidence
  BY <1>1, <1>2 DEF Edt!Evidence, Edt!None
<1>4. Edt!Found' = Edt!Found
  BY <1>1 DEF Edt!Found, Edt!IssueKinds, Edt!Reviewed, Edt!Present, Edt!None
<1>5. Edt!Issues' = Edt!Issues
  BY <1>2, <1>4 DEF Edt!Issues, Edt!None
<1> QED BY <1>3, <1>5 DEF Edt!Check, Edt!Fingerprint

LEMMA NothingWritten ==
  ASSUME EditTypes, UNCHANGED <<segment, gen, reviewed, resolved, unit, planned>>,
         sourceMoved' \in BOOLEAN, sem' = sem \/ sem' \in SemRow
  PROVE  SegmentsGrow /\ AllStand /\ EditTypes'
<1>1. SegmentsGrow /\ AllStand
  BY SegmentKeeps
<1>2. /\ gen' \in 0 .. MaxWork /\ unit' \in [Units -> {"none", "todo", "done", "failed"}]
      /\ planned' \in [Blocks -> 0 .. MaxSeq] /\ resolved' \subseteq IssueRow
  BY DEF EditTypes
<1> QED BY <1>1, <1>2, TypesKeep

LEMMA ChecksKeep ==
  ASSUME ContentAssumption, EditInv
  PROVE  /\ Edt!Validate => DraftStep
         /\ \A seen \in BOOLEAN : Edt!SealDraft(seen) => DraftStep /\ SealStep
<1> USE DEF EditInv
<1>1. ASSUME Edt!Validate
      PROVE  DraftStep
  <2>1. /\ report' = Edt!Check
        /\ UNCHANGED <<segment, gen, reviewed, resolved, sourceMoved, planned, unit, cand, sem>>
    BY <1>1 DEF Edt!Validate, Edt!jobVars
  <2>2. sourceMoved' \in BOOLEAN
    BY <2>1 DEF EditTypes
  <2>3. SegmentsGrow /\ AllStand /\ EditTypes'
    BY <2>1, <2>2, NothingWritten
  <2>4. CandFits' /\ UnitsFit'
    BY <2>1, <2>3, SeenKeeps, ArrivedKeeps
  <2>5. report' = Edt!Check'
    BY <2>1, SameIssues
  <2> QED BY <2>3, <2>4, <2>5 DEF DraftStep, ReportStep
<1>2. ASSUME NEW seen \in BOOLEAN, Edt!SealDraft(seen)
      PROVE  DraftStep /\ SealStep
  <2>1. /\ report' = IF Edt!UseReport(seen) THEN report ELSE Edt!Check
        /\ UNCHANGED <<segment, gen, reviewed, resolved, sourceMoved, planned, unit, cand, sem>>
        /\ sealed' = Edt!Revision(report'.issues)
    BY <1>2 DEF Edt!SealDraft, Edt!jobVars
  <2>2. sourceMoved' \in BOOLEAN
    BY <2>1 DEF EditTypes
  <2>3. SegmentsGrow /\ AllStand /\ EditTypes'
    BY <2>1, <2>2, NothingWritten
  <2>4. CandFits' /\ UnitsFit'
    BY <2>1, <2>3, SeenKeeps, ArrivedKeeps
  <2>5. Edt!Issues' = Edt!Issues /\ Edt!Check' = Edt!Check
    BY <2>1, SameIssues
  <2>6. report'.issues = Edt!Issues
    <3>1. CASE Edt!UseReport(seen)
      <4>1. /\ report' = report /\ report # Edt!None
            /\ report.fingerprint.targets = segment /\ report.fingerprint.semantic = Edt!Evidence
        BY <2>1, <3>1 DEF Edt!UseReport, Edt!Fingerprint
      <4>2. report.issues = IssuesOf(segment, Edt!Evidence, reviewed, resolved)
        BY <4>1 DEF ReportFits
      <4> QED BY <4>1, <4>2, IssuesAre
    <3>2. CASE ~Edt!UseReport(seen)
      BY <2>1, <3>2 DEF Edt!Check
    <3> QED BY <3>1, <3>2
  <2>7. SealStep
    <3>1. sealed' = [at |-> "sealed", target |-> [b \in Blocks |-> segment[b].text],
                     human |-> {b \in Blocks : Edt!Reviewed(b)}, issues |-> report'.issues]
      BY <2>1 DEF Edt!Revision
    <3>2. \A b \in Blocks : Edt!Reviewed(b) => segment[b].text = reviewed[b].text
      BY DEF Edt!Reviewed
    <3> QED BY <2>1, <2>5, <2>6, <3>1, <3>2 DEF SealStep
  <2>8. ReportStep
    BY <2>1, <2>5 DEF ReportStep
  <2> QED BY <2>3, <2>4, <2>7, <2>8 DEF DraftStep
<1> QED BY <1>1, <1>2

\* finalize_translation, after any commit.
LEMMA Finalized ==
  ASSUME NEW u \in Units, NEW publish \in BOOLEAN, Edt!Finalize(u, publish), UNCHANGED <<reviewed, resolved>>
  PROVE  ReportStep /\ SealStep
<1>1. \/ report' = Edt!Check' /\ (sealed' = Edt!None \/ sealed' = [at |-> "sealed", target |-> [b \in Blocks |-> segment'[b].text],
                     human |-> {b \in Blocks : Edt!Present(b)' /\ reviewed'[b] = segment'[b]}, issues |-> Edt!Issues'])
      \/ report' \in {report, Edt!None} /\ sealed' = Edt!None
  BY DEF Edt!Finalize, Edt!Revision, Edt!Reviewed
<1> QED BY <1>1 DEF ReportStep, SealStep

\* The units of the translation job.
LEMMA UnitsKeep ==
  ASSUME ContentAssumption, EditInv
  PROVE  /\ Edt!PlanTasks => DraftStep
         /\ \A u \in Units, p \in BOOLEAN, t \in Texts : Edt!CommitUnit(u, t, p) => DraftStep /\ SealStep
         /\ \A u \in Units, p \in BOOLEAN : Edt!UnitFails(u, p) => DraftStep /\ SealStep
         /\ \A u \in Units : Edt!UnitStale(u) => DraftStep
<1> USE DEF EditInv
<1>0. /\ UnitBlock \in [Units -> Blocks] /\ unit \in [Units -> {"none", "todo", "done", "failed"}]
      /\ segment \in [Blocks -> SegRow] /\ \A b \in Blocks : segment[b].seq \in 0 .. MaxSeq
      /\ gen \in 0 .. MaxWork /\ planned \in [Blocks -> 0 .. MaxSeq] /\ resolved \subseteq IssueRow
      /\ sourceMoved \in BOOLEAN /\ MaxSeq \in Nat
  BY EditAssumptions DEF EditTypes, SegRow
<1>1. ASSUME Edt!PlanTasks
      PROVE  DraftStep
  <2>1. /\ unit' = [u \in Units |-> IF Edt!Present(UnitBlock[u]) THEN "none" ELSE "todo"]
        /\ planned' = [b \in Blocks |-> segment[b].seq]
        /\ UNCHANGED <<segment, gen, report, reviewed, resolved, sourceMoved, cand, sem>>
    BY <1>1 DEF Edt!PlanTasks
  <2>2. SegmentsGrow /\ AllStand
    BY <2>1, SegmentKeeps
  <2>3. EditTypes'
    <3>1. unit' \in [Units -> {"none", "todo", "done", "failed"}] /\ planned' \in [Blocks -> 0 .. MaxSeq]
      BY <1>0, <2>1
    <3> QED BY <1>0, <2>1, <2>2, <3>1, TypesKeep
  <2>4. CandFits'
    BY <2>1, <2>2, SeenKeeps
  <2>5. UnitsFit'
    <3>1. \A u \in Units : unit'[u] # "none" => planned'[UnitBlock[u]] = 0
      BY <1>0, <2>1 DEF Edt!Present
    <3>2. \A u \in Units : unit'[u] # "done"
      BY <2>1
    <3>3. \A b \in Blocks : \E u \in Units : UnitBlock[u] = b
      BY EditAssumptions
    <3> QED BY <3>1, <3>2, <3>3 DEF UnitsFit, Edt!TranslatedBlocksArrive, Edt!UnitsOf
  <2> QED BY <2>1, <2>2, <2>3, <2>4, <2>5 DEF DraftStep, ReportStep
<1>2. ASSUME NEW u \in Units, NEW p \in BOOLEAN, NEW t \in Texts, Edt!CommitUnit(u, t, p)
      PROVE  DraftStep /\ SealStep
  <2> DEFINE b == UnitBlock[u]
  <2>1. /\ unit[u] = "todo" /\ unit' = [unit EXCEPT ![u] = "done"] /\ Edt!Finalize(u, p)
        /\ UNCHANGED <<reviewed, resolved, sourceMoved, planned, cand, sem>>
        /\ IF Edt!Complete(u) /\ Edt!Unedited(b)
             THEN Edt!Write(b, t, "model", Glossary) /\ Edt!MayWork /\ gen' = gen + 1
             ELSE UNCHANGED <<segment, gen>>
    BY <1>2 DEF Edt!CommitUnit
  <2>2. b \in Blocks /\ planned[b] = 0
    BY <1>0, <2>1 DEF UnitsFit
  <2>3. ReportStep /\ SealStep
    BY <2>1, Finalized
  <2>4. /\ SegmentsGrow /\ AllStand /\ gen' \in 0 .. MaxWork
        /\ Edt!Complete(u) => segment'[b].seq > 0
    <3>1. CASE Edt!Complete(u) /\ Edt!Unedited(b)
      <4>1. Edt!Write(b, t, "model", Glossary) /\ Edt!MayWork /\ gen' = gen + 1 /\ segment[b].seq = 0
        BY <2>1, <2>2, <3>1 DEF Edt!Unedited
      <4>2. /\ SegmentsGrow /\ segment'[b].by = "model" /\ segment'[b].seq = segment[b].seq + 1
            /\ \A c \in Blocks \ {b} : segment'[c] = segment[c]
        BY <2>2, <4>1, Written
      <4>3. gen' \in 0 .. MaxWork
        BY <4>1, GenerationFits
      <4>4. AllStand
        BY <4>1, <4>2 DEF AllStand, Stands, Edt!Present
      <4> QED BY <4>1, <4>2, <4>3, <4>4
    <3>2. CASE ~(Edt!Complete(u) /\ Edt!Unedited(b))
      <4>1. UNCHANGED <<segment, gen>>
        BY <2>1, <3>2
      <4>2. Edt!Complete(u) => segment[b].seq # 0
        BY <2>2, <3>2 DEF Edt!Unedited
      <4>3. SegmentsGrow /\ AllStand
        BY <4>1, SegmentKeeps
      <4> QED BY <1>0, <2>2, <4>1, <4>2, <4>3
    <3> QED BY <3>1, <3>2
  <2>5. EditTypes'
    <3>1. unit' \in [Units -> {"none", "todo", "done", "failed"}]
      BY <1>0, <2>1
    <3> QED BY <1>0, <2>1, <2>4, <3>1, TypesKeep
  <2>6. CandFits'
    BY <2>1, <2>4, SeenKeeps
  <2>7. UnitsFit'
    <3>1. \A v \in Units : unit'[v] # "none" => planned'[UnitBlock[v]] = 0
      BY <1>0, <2>1 DEF UnitsFit
    <3>2. ASSUME NEW c \in Blocks, \A v \in Edt!UnitsOf(c) : unit'[v] = "done"
          PROVE  segment'[c].seq > 0
      <4>1. CASE c = b
        <5>1. Edt!Complete(u)
          BY <1>0, <2>1, <3>2, <4>1 DEF Edt!Complete, Edt!UnitsOf
        <5> QED BY <2>4, <4>1, <5>1
      <4>2. CASE c # b
        <5>1. \A v \in Edt!UnitsOf(c) : unit[v] = "done"
          BY <1>0, <2>1, <3>2, <4>2 DEF Edt!UnitsOf
        <5>2. segment[c].seq > 0
          BY <5>1 DEF UnitsFit, Edt!TranslatedBlocksArrive, Edt!Present
        <5> QED BY <1>0, <2>4, <5>2 DEF SegmentsGrow
      <4> QED BY <4>1, <4>2
    <3> QED BY <3>1, <3>2 DEF UnitsFit, Edt!TranslatedBlocksArrive, Edt!UnitsOf, Edt!Present
  <2> QED BY <2>3, <2>4, <2>5, <2>6, <2>7 DEF DraftStep
<1>3. ASSUME NEW u \in Units, unit[u] = "todo", unit' = [unit EXCEPT ![u] = "failed"],
             UNCHANGED <<segment, gen, reviewed, resolved, sourceMoved, planned, cand, sem>>
      PROVE  SegmentsGrow /\ AllStand /\ EditTypes' /\ CandFits' /\ UnitsFit'
  <2>1. SegmentsGrow /\ AllStand
    BY <1>3, SegmentKeeps
  <2>2. EditTypes'
    <3>1. unit' \in [Units -> {"none", "todo", "done", "failed"}]
      BY <1>0, <1>3
    <3> QED BY <1>0, <1>3, <2>1, <3>1, TypesKeep
  <2>3. CandFits'
    BY <1>3, <2>1, SeenKeeps
  <2>4. UnitsFit'
    <3>1. \A v \in Units : unit'[v] # "none" => planned'[UnitBlock[v]] = 0
      BY <1>0, <1>3 DEF UnitsFit
    <3>2. \A v \in Units : unit'[v] = "done" => unit[v] = "done"
      BY <1>0, <1>3
    <3> QED BY <1>3, <3>1, <3>2 DEF UnitsFit, Edt!TranslatedBlocksArrive, Edt!UnitsOf, Edt!Present
  <2> QED BY <2>1, <2>2, <2>3, <2>4
<1>4. ASSUME NEW u \in Units, NEW p \in BOOLEAN, Edt!UnitFails(u, p)
      PROVE  DraftStep /\ SealStep
  <2>1. ReportStep /\ SealStep
    BY <1>4, Finalized DEF Edt!UnitFails
  <2> QED BY <1>3, <1>4, <2>1 DEF Edt!UnitFails, DraftStep
<1>5. ASSUME NEW u \in Units, Edt!UnitStale(u)
      PROVE  DraftStep
  <2>1. ReportStep
    BY <1>5 DEF Edt!UnitStale, ReportStep
  <2> QED BY <1>3, <1>5, <2>1 DEF Edt!UnitStale, DraftStep
<1> QED BY <1>1, <1>2, <1>4, <1>5

\* The candidate job: what it is asked for, its results, and their acceptance.
LEMMA CandidatesKeep ==
  ASSUME ContentAssumption, EditInv
  PROVE  /\ \A S \in SUBSET Blocks, g \in Requested : Edt!CreateCandidate(S, g) => DraftStep
         /\ \A b \in Blocks, t \in Texts \cup {NoText} : cand # Edt!None /\ Edt!CandidateUnit(b, t) => DraftStep
         /\ \A S \in SUBSET Blocks, allow \in BOOLEAN : Edt!AcceptCandidate(S, allow) => DraftStep
<1> USE DEF EditInv
<1>0. /\ segment \in [Blocks -> SegRow] /\ \A b \in Blocks : segment[b].seq \in 0 .. MaxSeq
      /\ gen \in 0 .. MaxWork /\ planned \in [Blocks -> 0 .. MaxSeq] /\ resolved \subseteq IssueRow
      /\ sourceMoved \in BOOLEAN /\ MaxSeq \in Nat /\ MaxWork \in Nat
      /\ unit \in [Units -> {"none", "todo", "done", "failed"}]
  BY EditAssumptions DEF EditTypes, SegRow
<1>1. ASSUME NEW S \in SUBSET Blocks, NEW g \in Requested, Edt!CreateCandidate(S, g)
      PROVE  DraftStep
  <2>1. /\ cand' = [at |-> "running", base |-> [b \in S |-> segment[b].seq], glossary |-> g,
                    ended |-> {}, results |-> [b \in {} |-> NoText], allowed |-> FALSE,
                    saw |-> [b \in S |-> segment[b]]]
        /\ UNCHANGED <<segment, gen, report, reviewed, resolved, sourceMoved, planned, unit, sem>>
    BY <1>1 DEF Edt!CreateCandidate, Edt!candVars
  <2>2. SegmentsGrow /\ AllStand /\ EditTypes'
    BY <1>0, <2>1, NothingWritten
  <2>3. CandFits'
    <3>1. /\ [b \in S |-> segment[b].seq] \in Partial(Blocks, 0 .. MaxSeq)
          /\ [b \in S |-> segment[b]] \in Partial(Blocks, SegRow)
          /\ [b \in {} |-> NoText] \in Partial(Blocks, Texts)
      <4>1. [b \in S |-> segment[b].seq] \in [S -> 0 .. MaxSeq] /\ [b \in S |-> segment[b]] \in [S -> SegRow]
        BY <1>0
      <4>2. [b \in {} |-> NoText] \in [{} -> Texts] /\ {} \in SUBSET Blocks
        OBVIOUS
      <4> QED BY <4>1, <4>2, PartialFits
    <3>2. cand' \in CandRow
      BY <2>1, <3>1 DEF CandRow
    <3>3. DOMAIN cand'.base = S /\ DOMAIN cand'.saw = S
          /\ \A b \in S : cand'.base[b] = segment[b].seq /\ cand'.saw[b] = segment[b]
      BY <2>1
    <3>4. \A b \in DOMAIN cand'.base :
            /\ cand'.base[b] = cand'.saw[b].seq /\ cand'.base[b] <= segment'[b].seq
            /\ segment'[b].seq = cand'.base[b] => cand'.saw[b] = segment'[b]
      BY <1>0, <2>1, <3>3
    <3> QED BY <3>2, <3>3, <3>4 DEF CandFits, CandRow, SegRow, Partial
  <2>4. UnitsFit'
    BY <2>1, <2>2, ArrivedKeeps
  <2> QED BY <2>1, <2>2, <2>3, <2>4 DEF DraftStep, ReportStep
<1>2. ASSUME NEW b \in Blocks, NEW t \in Texts \cup {NoText}, cand # Edt!None, Edt!CandidateUnit(b, t)
      PROVE  DraftStep
  <2>1. UNCHANGED <<segment, gen, report, reviewed, resolved, sourceMoved, planned, unit, sem>>
    BY <1>2 DEF Edt!CandidateUnit, Edt!candVars
  <2>2. SegmentsGrow /\ AllStand /\ EditTypes'
    BY <1>0, <2>1, NothingWritten
  <2>3. CandFits'
    <3>1. cand \in CandRow
      BY <1>2 DEF CandFits
    <3> DEFINE results == IF t = NoText THEN cand.results
                          ELSE [c \in DOMAIN cand.results \cup {b} |-> IF c = b THEN t ELSE cand.results[c]]
               at1 == IF cand.ended \cup {b} = DOMAIN cand.base THEN "ready" ELSE cand.at
    <3>2. cand' = [cand EXCEPT !.ended = cand.ended \cup {b}, !.results = results, !.at = at1]
      BY <1>2 DEF Edt!CandidateUnit
    <3>3. results \in Partial(Blocks, Texts)
      <4>1. cand.results \in Partial(Blocks, Texts)
        BY <3>1 DEF CandRow
      <4>2. DOMAIN cand.results \subseteq Blocks /\ \A c \in DOMAIN cand.results : cand.results[c] \in Texts
        BY <4>1, PartialFits
      <4>3. CASE t = NoText
        BY <4>1, <4>3
      <4>4. CASE t # NoText
        <5>1. results \in [DOMAIN cand.results \cup {b} -> Texts] /\ DOMAIN cand.results \cup {b} \in SUBSET Blocks
          BY <4>2, <4>4
        <5> HIDE DEF results
        <5> QED BY <5>1, PartialFits
      <4> QED BY <4>3, <4>4
    <3>4. at1 \in {"running", "ready", "accepted"} /\ cand.ended \cup {b} \in SUBSET Blocks
      BY <3>1 DEF CandRow
    <3> HIDE DEF results, at1
    <3>5. cand' \in CandRow /\ cand'.base = cand.base /\ cand'.saw = cand.saw
      BY <3>1, <3>2, <3>3, <3>4 DEF CandRow
    <3> QED BY <1>2, <2>1, <3>5 DEF CandFits, CandRow, SegRow, Partial
  <2>4. UnitsFit'
    BY <2>1, <2>2, ArrivedKeeps
  <2> QED BY <2>1, <2>2, <2>3, <2>4 DEF DraftStep, ReportStep
<1>3. ASSUME NEW S \in SUBSET Blocks, NEW allow \in BOOLEAN, Edt!AcceptCandidate(S, allow)
      PROVE  DraftStep
  <2> DEFINE new(b) == [seq |-> segment[b].seq + 1, text |-> cand.results[b], by |-> "candidate",
                        glossary |-> cand.glossary]
             base == [b \in DOMAIN cand.base \ S |-> cand.base[b]]
             at1 == IF DOMAIN cand.base = S THEN "accepted" ELSE "ready"
  <2>1. /\ cand # Edt!None /\ S \subseteq DOMAIN cand.base \cap DOMAIN cand.results
        /\ \A b \in S : /\ segment[b].seq = cand.base[b] /\ (Edt!Reviewed(b) => allow) /\ segment[b].seq < MaxSeq
        /\ segment' = [b \in Blocks |-> IF b \notin S THEN segment[b] ELSE new(b)]
        /\ gen' = gen + Edt!Cardinality(S) /\ gen' + Edt!Started <= MaxWork /\ report' = Edt!None
        /\ UNCHANGED <<reviewed, resolved, sourceMoved, planned, unit, sem>>
    BY <1>3 DEF Edt!AcceptCandidate, Edt!BaseVersion
  <2>2. cand' = [cand EXCEPT !.base = base, !.allowed = allow, !.at = at1]
    BY <1>3 DEF Edt!AcceptCandidate
  <2>3. /\ cand \in CandRow /\ DOMAIN cand.base \subseteq DOMAIN cand.saw
        /\ \A b \in DOMAIN cand.base :
             /\ cand.base[b] = cand.saw[b].seq /\ cand.base[b] <= segment[b].seq
             /\ segment[b].seq = cand.base[b] => cand.saw[b] = segment[b]
    BY <2>1 DEF CandFits
  <2>4. ASSUME NEW b \in S
        PROVE  new(b) \in SegRow /\ new(b).seq = segment[b].seq + 1 /\ new(b).by = "candidate"
    <3>1. cand.results[b] \in Texts
      <4>1. cand.results \in Partial(Blocks, Texts)
        BY <2>3 DEF CandRow
      <4> QED BY <2>1, <4>1, PartialFits
    <3>2. cand.glossary \in {Glossary} \cup Requested
      BY <2>3 DEF CandRow
    <3>3. segment[b].seq + 1 \in 0 .. MaxSeq
      BY <1>0, <2>1
    <3> QED BY <3>1, <3>2, <3>3 DEF SegRow
  <2> HIDE DEF new
  <2>5. SegmentsGrow
    BY <1>0, <2>1, <2>4 DEF SegmentsGrow
  <2>6. cand' \in CandRow /\ cand'.base = base /\ cand'.saw = cand.saw /\ cand'.allowed = allow
    <3>1. base \in Partial(Blocks, 0 .. MaxSeq)
      <4>1. cand.base \in Partial(Blocks, 0 .. MaxSeq)
        BY <2>3 DEF CandRow
      <4>2. DOMAIN cand.base \ S \in SUBSET Blocks /\ base \in [DOMAIN cand.base \ S -> 0 .. MaxSeq]
        <5>1. DOMAIN cand.base \subseteq Blocks /\ \A b \in DOMAIN cand.base : cand.base[b] \in 0 .. MaxSeq
          BY <4>1, PartialFits
        <5> QED BY <5>1
      <4> HIDE DEF base
      <4> QED BY <4>2, PartialFits
    <3>2. at1 \in {"running", "ready", "accepted"}
      OBVIOUS
    <3> HIDE DEF base, at1
    <3> QED BY <2>2, <2>3, <3>1, <3>2 DEF CandRow
  <2>7. CandFits'
    <3>1. DOMAIN cand'.base = DOMAIN cand.base \ S /\ \A b \in DOMAIN cand'.base : cand'.base[b] = cand.base[b]
      BY <2>6
    <3>2. \A b \in DOMAIN cand.base \ S : segment'[b] = segment[b]
      <4>1. DOMAIN cand.base \subseteq Blocks
        BY <2>3, PartialFits DEF CandRow
      <4> QED BY <2>1, <4>1
    <3> QED BY <2>3, <2>6, <3>1, <3>2 DEF CandFits, CandRow, SegRow, Partial
  <2>8. AllStand
    <3>1. ASSUME NEW b \in Blocks, segment'[b] # segment[b]
          PROVE  segment'[b].by = "candidate" /\ cand.saw[b] = segment[b] /\ (Edt!Reviewed(b) => cand'.allowed)
      <4>1. b \in S
        BY <2>1, <3>1
      <4> QED BY <2>1, <2>3, <2>4, <2>6, <4>1
    <3> QED BY <3>1 DEF AllStand, Stands
  <2>9. EditTypes'
    <3>1. gen' \in 0 .. MaxWork
      BY <1>0, <2>1, Started
    <3> QED BY <1>0, <2>1, <2>5, <3>1, TypesKeep
  <2>10. UnitsFit'
    BY <2>1, <2>5, ArrivedKeeps
  <2> QED BY <2>1, <2>5, <2>7, <2>8, <2>9, <2>10 DEF DraftStep, ReportStep
<1> QED BY <1>1, <1>2, <1>3

\* The semantic review, and another source of the document.
LEMMA ReviewsKeep ==
  ASSUME ContentAssumption, EditInv
  PROVE  /\ Edt!RequestReview => DraftStep
         /\ \A S \in SUBSET Blocks : Edt!PlanReview(S) => DraftStep
         /\ \A b \in Blocks, v \in {"clean", "finding", "failed"} : Edt!ReviewAnswered(b, v) => DraftStep
         /\ Edt!SourceMoves => DraftStep
<1> USE DEF EditInv
<1>0. segment \in [Blocks -> SegRow] /\ sourceMoved \in BOOLEAN /\ (sem # Edt!None => sem \in SemRow)
  BY DEF EditTypes
<1>1. ASSUME sem' = sem \/ sem' \in SemRow, sourceMoved' \in BOOLEAN, report' = Edt!None \/ report' = report,
             UNCHANGED <<segment, gen, reviewed, resolved, planned, unit, cand>>
      PROVE  DraftStep
  <2>1. SegmentsGrow /\ AllStand /\ EditTypes'
    BY <1>1, NothingWritten
  <2>2. CandFits' /\ UnitsFit'
    BY <1>1, <2>1, SeenKeeps, ArrivedKeeps
  <2> QED BY <1>1, <2>1, <2>2 DEF DraftStep, ReportStep
<1>2. ASSUME Edt!RequestReview
      PROVE  DraftStep
  <2>1. /\ [b \in {} |-> "none"] \in Partial(Blocks, SegRow)
        /\ [b \in {} |-> "none"] \in Partial(Blocks, {"none", "clean", "finding", "failed", "stale"})
    <3>1. [b \in {} |-> "none"] \in [{} -> SegRow] /\ {} \in SUBSET Blocks
          /\ [b \in {} |-> "none"] \in [{} -> {"none", "clean", "finding", "failed", "stale"}]
      OBVIOUS
    <3> QED BY <3>1, PartialFits
  <2>2. sem' \in SemRow
    BY <1>2, <2>1 DEF Edt!RequestReview, Edt!NoAnswers, SemRow
  <2> QED BY <1>0, <1>1, <1>2, <2>2 DEF Edt!RequestReview, Edt!semVars
<1>3. ASSUME NEW S \in SUBSET Blocks, Edt!PlanReview(S)
      PROVE  DraftStep
  <2>1. sem' \in SemRow
    <3>1. sem # Edt!None
      BY <1>3 DEF Edt!PlanReview, Edt!None
    <3>2. CASE \E b \in S : ~Edt!Present(b)
      BY <1>0, <1>3, <3>1, <3>2 DEF Edt!PlanReview, SemRow
    <3>3. CASE ~\E b \in S : ~Edt!Present(b)
      <4>1. [b \in S |-> segment[b]] \in [S -> SegRow]
            /\ [b \in S |-> "none"] \in [S -> {"none", "clean", "finding", "failed", "stale"}]
        BY <1>0
      <4>2. [b \in S |-> segment[b]] \in Partial(Blocks, SegRow)
            /\ [b \in S |-> "none"] \in Partial(Blocks, {"none", "clean", "finding", "failed", "stale"})
        BY <4>1, PartialFits
      <4> QED BY <1>3, <3>3, <4>2 DEF Edt!PlanReview, SemRow
    <3> QED BY <3>2, <3>3
  <2> QED BY <1>0, <1>1, <1>3, <2>1 DEF Edt!PlanReview, Edt!semVars
<1>4. ASSUME NEW b \in Blocks, NEW v \in {"clean", "finding", "failed"}, Edt!ReviewAnswered(b, v)
      PROVE  DraftStep
  <2> DEFINE answer == IF v # "failed" /\ ~Edt!SameText(b, sem.target[b]) THEN "stale" ELSE v
             at1 == IF \A c \in DOMAIN sem.target \ {b} : sem.answer[c] # "none" THEN "done" ELSE "running"
  <2>1. /\ sem.at = "running" /\ sem' = [sem EXCEPT !.answer[b] = answer, !.at = at1]
        /\ report' = IF answer \in {"clean", "finding"} THEN Edt!None ELSE report
        /\ UNCHANGED <<segment, gen, reviewed, resolved, sourceMoved, planned, unit, cand>>
    BY <1>4 DEF Edt!ReviewAnswered, Edt!semVars
  <2>2. sem \in SemRow
    BY <1>0, <2>1 DEF Edt!None
  <2>3. answer \in {"none", "clean", "finding", "failed", "stale"} /\ at1 \in {"pending", "running", "done", "failed"}
    OBVIOUS
  <2> HIDE DEF answer, at1
  <2>4. [sem.answer EXCEPT ![b] = answer] \in Partial(Blocks, {"none", "clean", "finding", "failed", "stale"})
    <3>1. PICK D \in SUBSET Blocks : sem.answer \in [D -> {"none", "clean", "finding", "failed", "stale"}]
      BY <2>2 DEF SemRow, Partial
    <3>2. [sem.answer EXCEPT ![b] = answer] \in [D -> {"none", "clean", "finding", "failed", "stale"}]
      BY <2>3, <3>1
    <3> QED BY <3>2, PartialFits
  <2>5. sem' \in SemRow
    BY <2>1, <2>2, <2>3, <2>4 DEF SemRow
  <2> QED BY <1>0, <1>1, <2>1, <2>5
<1>5. ASSUME Edt!SourceMoves
      PROVE  DraftStep
  BY <1>1, <1>5 DEF Edt!SourceMoves
<1> QED BY <1>2, <1>3, <1>4, <1>5

LEMMA EditStep ==
  ASSUME ContentAssumption, EditInv, [Edt!Next]_editVars
  PROVE  /\ EditInv'
         /\ UNCHANGED editVars \/ (AllStand /\ SealStep)
<1>1. ASSUME DraftStep, SealStep \/ UNCHANGED editVars
      PROVE  EditInv' /\ (UNCHANGED editVars \/ (AllStand /\ SealStep))
  <2>1. ReportFits'
    BY <1>1, ReportKeeps DEF DraftStep, EditInv
  <2> QED BY <1>1, <2>1 DEF DraftStep, EditInv
<1>2. CASE UNCHANGED editVars
  <2>1. SegmentsGrow /\ AllStand /\ EditTypes'
    BY <1>2, NothingWritten DEF EditInv, EditTypes, editVars
  <2>2. CandFits' /\ UnitsFit'
    BY <1>2, <2>1, SeenKeeps, ArrivedKeeps DEF EditInv, editVars
  <2>3. ReportStep
    BY <1>2 DEF ReportStep, editVars
  <2> QED BY <1>1, <1>2, <2>1, <2>2, <2>3 DEF DraftStep
<1>3. CASE sealed' = Edt!None
  <2>1. SealStep
    BY <1>3 DEF SealStep
  <2>2. ASSUME \/ \E b \in Blocks : Edt!ConfirmReview(b) \/ \E t \in Texts : Edt!EditSegment(b, t)
               \/ report # Edt!None /\ \E i \in report.issues.found : Edt!ResolveIssue(i)
               \/ Edt!Validate
        PROVE  DraftStep
    BY <2>2, UserKeeps, ChecksKeep
  <2>3. ASSUME Edt!PlanTasks \/ \E u \in Units : Edt!UnitStale(u)
        PROVE  DraftStep
    BY <2>3, UnitsKeep
  <2>4. ASSUME \/ \E S \in SUBSET Blocks : \/ \E g \in Requested : Edt!CreateCandidate(S, g)
                                           \/ \E allow \in BOOLEAN : Edt!AcceptCandidate(S, allow)
               \/ cand # Edt!None /\ \E b \in Blocks, t \in Texts \cup {NoText} : Edt!CandidateUnit(b, t)
        PROVE  DraftStep
    BY <2>4, CandidatesKeep
  <2>5. ASSUME \/ \E S \in SUBSET Blocks : Edt!PlanReview(S)
               \/ Edt!RequestReview \/ Edt!SourceMoves
               \/ \E b \in Blocks, v \in {"clean", "finding", "failed"} : Edt!ReviewAnswered(b, v)
        PROVE  DraftStep
    BY <2>5, ReviewsKeep
  <2>6. ASSUME \E seen \in BOOLEAN : Edt!SealDraft(seen)
        PROVE  DraftStep
    BY <2>6, ChecksKeep
  <2>7. ASSUME \E u \in Units, p \in BOOLEAN : Edt!UnitFails(u, p) \/ \E t \in Texts : Edt!CommitUnit(u, t, p)
        PROVE  DraftStep
    BY <2>7, UnitsKeep
  <2>8. DraftStep \/ UNCHANGED editVars
    BY <2>2, <2>3, <2>4, <2>5, <2>6, <2>7 DEF Edt!Next, Edt!editVars, editVars
  <2> QED BY <1>1, <1>2, <2>1, <2>8
<1>4. CASE sealed' # Edt!None
  <2>1. ASSUME \/ \E seen \in BOOLEAN : Edt!SealDraft(seen)
               \/ \E u \in Units, p \in BOOLEAN : Edt!UnitFails(u, p) \/ \E t \in Texts : Edt!CommitUnit(u, t, p)
        PROVE  DraftStep /\ SealStep
    BY <2>1, ChecksKeep, UnitsKeep
  <2>2. (DraftStep /\ SealStep) \/ UNCHANGED editVars
    BY <1>4, <2>1 DEF Edt!Next
  <2> QED BY <1>1, <1>2, <2>2
<1> QED BY <1>3, <1>4

LEMMA EditInvType == EditInv => Edt!TypeOK
<1> SUFFICES ASSUME EditInv PROVE Edt!TypeOK
  OBVIOUS
<1>1. ASSUME NEW b \in Blocks
      PROVE  segment[b].seq \in 0 .. MaxSeq /\ segment[b].text \in Texts \cup {NoText}
             /\ reviewed[b].seq <= segment[b].seq
  BY DEF EditInv, EditTypes, SegRow
<1> QED BY <1>1 DEF EditInv, EditTypes, IssueRow, Rules, Edt!TypeOK

\* What a revision says when it is sealed it says until the next step.
Truth == Edt!SealedTellsTheTruth

(* A revision lists exactly the issues a check would find in its texts,    *)
(* and calls human reviewed only what a user confirmed in this form        *)
(* (editorial/drafts.py), for any blocks, units, texts and jobs.           *)
THEOREM RevisionsTellTheTruth == Spec => []SealedTellsTheTruth
<1>1. Init => EditInv /\ Truth
  BY EditInit, ContentAssumption DEF Init, Edt!Init, Truth, Edt!SealedTellsTheTruth
<1>2. [Next]_vars => [Edt!Next]_editVars
  BY DEF Next, vars, editVars
<1>3. EditInv /\ Truth /\ [Next]_vars => EditInv' /\ Truth'
  <2> SUFFICES ASSUME EditInv, Truth, [Next]_vars PROVE EditInv' /\ Truth'
    OBVIOUS
  <2>1. EditInv' /\ (UNCHANGED editVars \/ SealStep)
    BY <1>2, EditStep, ContentAssumption
  <2>2. CASE UNCHANGED editVars
    <3>1. Edt!Issues' = Edt!Issues
      BY <2>2, SameIssues DEF editVars
    <3> QED BY <2>1, <2>2, <3>1 DEF Truth, Edt!SealedTellsTheTruth, editVars, Edt!None
  <2>3. CASE SealStep
    BY <2>1, <2>3 DEF SealStep, Truth, Edt!SealedTellsTheTruth, Edt!None
  <2> QED BY <2>1, <2>2, <2>3
<1>4. EditInv /\ Truth => SealedTellsTheTruth
  BY EditInvType DEF SealedTellsTheTruth, Truth
<1> QED BY <1>1, <1>3, <1>4, PTL DEF Spec

(* No machine writes over a person's work (translation/execution.py,       *)
(* api/candidates.py), whatever number of units and candidates are late.   *)
THEOREM PeoplesWorkStands == Spec => HumanWorkStands
<1>1. Init => EditInv
  BY EditInit, ContentAssumption DEF Init
<1>2. [Next]_vars => [Edt!Next]_editVars
  BY DEF Next, vars, editVars
<1>3. EditInv /\ [Next]_vars => EditInv'
  BY <1>2, EditStep, ContentAssumption
<1>4. EditInv /\ [Next]_vars =>
        [\A b \in Blocks : segment'[b] # segment[b] =>
           \/ segment'[b].by = "human"
           \/ segment'[b].by = "model" /\ ~Edt!Present(b)
           \/ /\ segment'[b].by = "candidate" /\ cand.saw[b] = segment[b]
              /\ Edt!Reviewed(b) => cand'.allowed]_(Edt!editVars)
  BY <1>2, EditStep, ContentAssumption DEF AllStand, Stands, editVars, Edt!editVars
<1> QED BY <1>1, <1>3, <1>4, PTL DEF Spec, HumanWorkStands, Edt!HumanWorkStands

(* A block all of whose units are committed has a text                     *)
(* (translation/execution.py), however many units it has and in whatever   *)
(* order they come back.                                                   *)
THEOREM BlocksArrive == Spec => []TranslatedBlocksArrive
<1>1. Init => EditInv
  BY EditInit, ContentAssumption DEF Init
<1>2. [Next]_vars => [Edt!Next]_editVars
  BY DEF Next, vars, editVars
<1>3. EditInv /\ [Next]_vars => EditInv'
  BY <1>2, EditStep, ContentAssumption
<1>4. EditInv => TranslatedBlocksArrive
  BY DEF EditInv, UnitsFit, TranslatedBlocksArrive
<1> QED BY <1>1, <1>3, <1>4, PTL DEF Spec
================================================================================
