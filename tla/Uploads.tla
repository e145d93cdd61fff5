-------------------------------- MODULE Uploads --------------------------------
(***************************************************************************)
(* From the chunks of an upload to the source file of a document, and back *)
(* to nothing when the last document that uses the file is cleaned up.     *)
(*                                                                         *)
(* Chunk files are written before their transaction commits and are        *)
(* immutable; equal contents share one source asset, so the cleanup of a   *)
(* document must look at every other document, at the drafts and revisions *)
(* of older files, and at uploads that nobody has imported yet.  A piece   *)
(* stands for the bytes of a chunk; contents are sequences of pieces.      *)
(***************************************************************************)
EXTENDS Naturals, Sequences

CONSTANTS
  Ups, Docs,
  Pieces, NoPiece,
  Size             \* Upload.byte_size of each upload, in pieces

UploadsAssumption == NoPiece \notin Pieces /\ Size \in [Ups -> Nat \ {0}]

VARIABLES
  upStatus, chunks,    \* Upload.status and Upload.chunks
  stored,              \* the chunk files
  acked,               \* the chunks that a client was told are received, until the upload is over (history)
  lapsed,              \* uploads whose 24 hours are over
  upFile, verified,    \* the assembled content; the asset an inspection found for it
  assets,              \* contents with a SourceAsset row and its file
  doc, docSource, docOlder   \* documents, their source, assets of their drafts and revisions

uploadVars == <<upStatus, chunks, stored, acked, lapsed, upFile, verified, assets, doc, docSource, docOlder>>
fileVars == <<upFile, verified, assets, doc, docSource, docOlder>>
docVars == <<doc, docSource, docOlder>>

NoFile == <<>>
Index(u) == 1 .. Size[u]
NoPieces(u) == [i \in Index(u) |-> NoPiece]

--------------------------------------------------------------------------------
(* PUT chunks/{index}.  answered is whether the client sees the answer.    *)
Tell(u, i, piece, answered) ==
  acked' = IF answered THEN [acked EXCEPT ![u][i] = piece] ELSE acked

AnyRepeat(u, i, piece) == i <= Len(chunks[u])   \* mutant: the content is not compared
Repeat(u, i, piece) == i <= Len(chunks[u]) /\ chunks[u][i] = piece

RepeatChunk(u, i, piece) ==
  /\ upStatus[u] \notin {"none", "deleted"} /\ u \notin lapsed
  /\ Repeat(u, i, piece)
  /\ Tell(u, i, piece, TRUE)
  /\ UNCHANGED <<upStatus, chunks, stored, lapsed, fileVars>>

(* The file may be there already, from a request that did not commit; then *)
(* only the same bytes are taken.                                          *)
PutChunk(u, piece, commits, answered) ==
  LET i == Len(chunks[u]) + 1 IN
  /\ upStatus[u] = "receiving" /\ u \notin lapsed /\ i \in Index(u)
  /\ stored[u][i] \in {NoPiece, piece}
  /\ stored' = [stored EXCEPT ![u][i] = piece]
  /\ IF commits THEN chunks' = [chunks EXCEPT ![u] = Append(@, piece)] /\ Tell(u, i, piece, answered)
                ELSE UNCHANGED <<chunks, acked>>
  /\ UNCHANGED <<upStatus, lapsed, fileVars>>

CreateUpload(u) ==
  /\ upStatus[u] = "none" /\ upStatus' = [upStatus EXCEPT ![u] = "receiving"]
  /\ UNCHANGED <<chunks, stored, acked, lapsed, fileVars>>

(* finalize reads the chunk files again and compares their digests with    *)
(* the rows and the whole with what the client expects.                    *)
Finalize(u) ==
  /\ upStatus[u] = "receiving" /\ u \notin lapsed /\ Len(chunks[u]) = Size[u]
  /\ \A i \in Index(u) : stored[u][i] = chunks[u][i]
  /\ upFile' = [upFile EXCEPT ![u] = [i \in Index(u) |-> stored[u][i]]]
  /\ upStatus' = [upStatus EXCEPT ![u] = "inspecting"]
  /\ UNCHANGED <<chunks, stored, acked, lapsed, verified, assets, docVars>>

(* The inspection finds the asset of that content or makes it; an invalid  *)
(* PDF leaves the upload as it is.                                         *)
Inspected(u) ==
  /\ upStatus[u] = "inspecting"
  /\ upStatus' = [upStatus EXCEPT ![u] = "verified"]
  /\ verified' = [verified EXCEPT ![u] = upFile[u]]
  /\ assets' = assets \cup {upFile[u]}
  /\ UNCHANGED <<chunks, stored, acked, lapsed, upFile, docVars>>

Lapse(u) ==
  /\ upStatus[u] # "none" /\ u \notin lapsed /\ lapsed' = lapsed \cup {u}
  /\ UNCHANGED <<upStatus, chunks, stored, acked, fileVars>>

(* retention: an expired upload is marked, its files are removed. *)
Expire(u) ==
  /\ u \in lapsed /\ upStatus[u] \notin {"none", "expired"}
  /\ upStatus' = [upStatus EXCEPT ![u] = "expired"]
  /\ stored' = [stored EXCEPT ![u] = NoPieces(u)]
  /\ upFile' = [upFile EXCEPT ![u] = NoFile]
  /\ acked' = [acked EXCEPT ![u] = NoPieces(u)]
  /\ UNCHANGED <<chunks, lapsed, verified, assets, docVars>>

--------------------------------------------------------------------------------
(* POST /imports: a new document, or another source for one.  older: the   *)
(* document has drafts or revisions of its source up to now.               *)
Import(u, d, older) ==
  /\ upStatus[u] = "verified" /\ doc[d] \in {"none", "live"}
  /\ doc' = [doc EXCEPT ![d] = "live"]
  /\ docSource' = [docSource EXCEPT ![d] = verified[u]]
  /\ docOlder' = IF older THEN [docOlder EXCEPT ![d] = @ \cup ({docSource[d]} \ {NoFile})] ELSE docOlder
  /\ UNCHANGED <<upStatus, chunks, stored, acked, lapsed, upFile, verified, assets>>

DeleteDocument(d) ==
  /\ doc[d] = "live" /\ doc' = [doc EXCEPT ![d] = "deleted"]
  /\ UNCHANGED <<upStatus, chunks, stored, acked, lapsed, upFile, verified, assets, docSource, docOlder>>

(* cleanup_document: its files go when no other document refers to them,   *)
(* and the uploads with such a file are over.                              *)
UsesSource(d, file) == docSource[d] = file   \* mutant: drafts and revisions are forgotten
Uses(d, file) == docSource[d] = file \/ file \in docOlder[d]

Unused(d) ==
  {file \in ({docSource[d]} \cup docOlder[d]) \ {NoFile} :
     \A other \in Docs \ {d} : ~Uses(other, file)}

Cleanup(d) ==
  LET over == {u \in Ups : verified[u] \in Unused(d)} IN
  /\ doc[d] = "deleted" /\ doc' = [doc EXCEPT ![d] = "cleaned"]
  /\ docSource' = [docSource EXCEPT ![d] = NoFile] /\ docOlder' = [docOlder EXCEPT ![d] = {}]
  /\ assets' = assets \ Unused(d)
  /\ upStatus' = [u \in Ups |-> IF u \in over THEN "deleted" ELSE upStatus[u]]
  /\ chunks' = [u \in Ups |-> IF u \in over THEN <<>> ELSE chunks[u]]
  /\ stored' = [u \in Ups |-> IF u \in over THEN NoPieces(u) ELSE stored[u]]
  /\ verified' = [u \in Ups |-> IF u \in over THEN NoFile ELSE verified[u]]
  /\ upFile' = [u \in Ups |-> IF u \in over THEN NoFile ELSE upFile[u]]
  /\ acked' = [u \in Ups |-> IF u \in over THEN NoPieces(u) ELSE acked[u]]
  /\ UNCHANGED lapsed

Init ==
  /\ upStatus = [u \in Ups |-> "none"] /\ chunks = [u \in Ups |-> <<>>]
  /\ stored = [u \in Ups |-> NoPieces(u)] /\ acked = stored /\ lapsed = {}
  /\ upFile = [u \in Ups |-> NoFile] /\ verified = [u \in Ups |-> NoFile] /\ assets = {}
  /\ doc = [d \in Docs |-> "none"] /\ docSource = [d \in Docs |-> NoFile] /\ docOlder = [d \in Docs |-> {}]

Next ==
  \/ \E u \in Ups :
       \/ CreateUpload(u) \/ Finalize(u) \/ Inspected(u) \/ Lapse(u) \/ Expire(u)
       \/ \E p \in Pieces : \/ \E i \in Index(u) : RepeatChunk(u, i, p)
                            \/ \E commits, answered \in BOOLEAN : PutChunk(u, p, commits, answered)
       \/ \E d \in Docs, older \in BOOLEAN : Import(u, d, older)
  \/ \E d \in Docs : DeleteDocument(d) \/ Cleanup(d)

Spec == Init /\ [][Next]_uploadVars

--------------------------------------------------------------------------------
(* Every variable has a value its column can hold. *)
TypeOK ==
  /\ upStatus \in [Ups -> {"none", "receiving", "inspecting", "verified", "expired", "deleted"}]
  /\ \A u \in Ups : stored[u] \in [Index(u) -> Pieces \cup {NoPiece}]
  /\ \A u \in Ups : Len(chunks[u]) <= Size[u]
  /\ doc \in [Docs -> {"none", "live", "deleted", "cleaned"}] /\ lapsed \subseteq Ups

(* Bytes that were accepted are kept: what is inspected consists of the    *)
(* chunks its client was told are received, whatever was sent again, lost  *)
(* or half done; and the files of a document and of an upload that can     *)
(* still be imported exist, whoever else is cleaned up (api/library.py:134,*)
(* privacy/__init__.py:105).                                               *)
AcceptedBytesAreKept ==
  /\ \A u \in Ups : upStatus[u] \in {"inspecting", "verified"} =>
       /\ \A i \in Index(u) : acked[u][i] \in {NoPiece, upFile[u][i]}
       /\ upStatus[u] = "verified" => verified[u] \in assets
  /\ \A d \in Docs : doc[d] = "live" => {docSource[d]} \cup docOlder[d] \subseteq assets
================================================================================
