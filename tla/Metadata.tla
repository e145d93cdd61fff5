-------------------------------- MODULE Metadata --------------------------------
(***************************************************************************)
(* Bibliographic metadata of source PDFs: lookups at Crossref and doi.org  *)
(* that run outside any transaction while uploads of the same PDF, manual  *)
(* DOIs, replaced sources, edited titles and deletions go on.              *)
(*                                                                         *)
(* A lookup is a job with one task; a worker takes it through a first      *)
(* transaction, the network, and a second transaction.  A worker whose     *)
(* lease was recovered fails its fence and writes nothing, so a recovered  *)
(* lookup is simply pending again.  A DOI stands for the whole record it   *)
(* resolves to, also for its title; a search for the title of an asset     *)
(* may find any DOI.                                                       *)
(***************************************************************************)
EXTENDS Naturals, FiniteSets

CONSTANTS
  Assets, Docs, DOIs, NoDoi,
  Searchable,     \* assets with a title that can be searched for
  SameDoc,        \* <<asset, DOI>> for which matches_paper finds evidence
  RetryLimit,     \* 3 attempts
  MaxLookups      \* bound: lookups ever enqueued

MetadataAssumption ==
  /\ NoDoi \notin DOIs /\ Searchable \subseteq Assets
  /\ SameDoc \subseteq Assets \X DOIs
  /\ RetryLimit \in Nat \ {0} /\ MaxLookups \in Nat

VARIABLES
  selected, manual,   \* doi_discovery of each asset: its DOI, and whether a user entered it
  metaGen, metaStatus, biblio,   \* SourceAsset: generation, status, DOI of the bibliography
  lookups,      \* jobs in order of creation
  cached,       \* MetadataCache rows that have not expired
  source, title, edited   \* Document: source_asset_id, title, title_user_edited

metaVars == <<selected, manual, metaGen, metaStatus, biblio, lookups, cached, source, title, edited>>
assetVars == <<selected, manual, metaGen, metaStatus, biblio>>
docVars == <<source, title, edited>>

NoDoc == "none"
Deleted == "deleted"
Filename == "filename"
UserTitle == "user"
Statuses == {"no_doi", "pending", "retrying", "succeeded", "not_found", "unverified", "failed"}
Jobs == 1 .. MaxLookups
Made == {j \in Jobs : lookups[j].at # "none"}
Live(j) == lookups[j].at \in {"pending", "asking", "answered"}

NoLookup == [at |-> "none"]
Ended == [at |-> "done"]
Lookup(a, d, g, doi, force) ==
  [at |-> "pending", asset |-> a, doc |-> d, gen |-> g, doi |-> doi, force |-> force,
   attempts |-> 0, status |-> "pending", value |-> NoDoi, retry |-> FALSE]

--------------------------------------------------------------------------------
(* enqueue_metadata for asset a whose discovery now selects doi.           *)
Same(a, doi) == {j \in Made : /\ Live(j) /\ lookups[j].asset = a
                              /\ lookups[j].gen = metaGen[a] /\ lookups[j].doi = doi}

Enqueue(a, d, doi, force) ==
  IF doi = NoDoi /\ a \notin Searchable
    THEN /\ metaStatus' = [metaStatus EXCEPT ![a] = "no_doi"]
         /\ UNCHANGED <<metaGen, lookups>>
  ELSE IF ~force /\ Same(a, doi) # {}
    THEN UNCHANGED <<metaGen, metaStatus, lookups>>
  ELSE \E j \in Jobs :
         /\ j = Cardinality(Made) + 1
         /\ lookups' = [lookups EXCEPT ![j] = Lookup(a, d, metaGen[a] + 1, doi, force)]
         /\ metaGen' = [metaGen EXCEPT ![a] = @ + 1]
         /\ metaStatus' = [metaStatus EXCEPT ![a] = "pending"]

(* The inspection of an upload ends: the PDF may be known already, with    *)
(* what earlier inspections, users or searches selected for it.            *)
Inspected(a, d, found) ==
  LET doi == IF selected[a] = NoDoi THEN found ELSE selected[a] IN
  /\ d \in Docs => source[d] = a
  /\ selected' = [selected EXCEPT ![a] = doi]
  /\ Enqueue(a, d, doi, FALSE)
  /\ UNCHANGED <<manual, biblio, cached, docVars>>

(* The parser reads a DOI that the inspection has not found. *)
ParserFinds(d, doi) ==
  LET a == source[d] IN
  /\ a # Deleted /\ selected[a] = NoDoi
  /\ selected' = [selected EXCEPT ![a] = doi]
  /\ Enqueue(a, d, doi, FALSE)
  /\ UNCHANGED <<manual, biblio, cached, docVars>>

(* POST metadata/refresh, with a DOI entered by the user or without *)
Refresh(d, doi) ==
  LET a == source[d] IN
  /\ a # Deleted
  /\ selected' = IF doi = NoDoi THEN selected ELSE [selected EXCEPT ![a] = doi]
  /\ manual' = IF doi = NoDoi THEN manual ELSE manual \cup {a}
  /\ Enqueue(a, d, selected'[a], TRUE)
  /\ UNCHANGED <<biblio, cached, docVars>>

--------------------------------------------------------------------------------
NeverSuperseded(j) == FALSE   \* mutant: the generation of the asset is not compared
Superseded(j) == metaGen[lookups[j].asset] # lookups[j].gen
SourceStale(j) == LET d == lookups[j].doc IN d # NoDoc /\ source[d] # lookups[j].asset

(* A job that waits again has no answer. *)
Again(r) == [r EXCEPT !.at = "pending", !.status = "pending", !.value = NoDoi, !.retry = FALSE]

JobStep(j, from, to) ==
  /\ lookups[j].at = from
  /\ lookups' = [lookups EXCEPT ![j] = IF to = "done" THEN Ended ELSE Again(@)]
  /\ UNCHANGED <<cached, docVars>>

(* A lookup that is superseded ends cancelled, one whose document has a    *)
(* new source (or is deleted) ends in an error; neither writes more.       *)
Abandon(j) ==
  /\ lookups[j].at \in {"pending", "answered"}
  /\ Superseded(j) \/ SourceStale(j)
  /\ JobStep(j, lookups[j].at, "done")
  /\ UNCHANGED assetVars

Result(j, status, value, retry) ==
  lookups' = [lookups EXCEPT ![j] =
    [lookups[j] EXCEPT !.at = "answered", !.attempts = @ + 1, !.status = status, !.value = value,
                       !.retry = retry]]

FromCache(j) == ~lookups[j].force /\ <<lookups[j].doi, "succeeded">> \in cached
MissCached(j) == ~lookups[j].force /\ <<lookups[j].doi, "not_found">> \in cached

Start(j) ==
  /\ lookups[j].at = "pending"
  /\ ~Superseded(j) /\ ~SourceStale(j)
  /\ IF FromCache(j) THEN Result(j, "succeeded", lookups[j].doi, FALSE)
     ELSE IF MissCached(j) THEN Result(j, "not_found", NoDoi, FALSE)
     ELSE lookups' = [lookups EXCEPT ![j] = [lookups[j] EXCEPT !.at = "asking", !.attempts = @ + 1]]
  /\ UNCHANGED <<assetVars, cached, docVars>>

(* lookup: Crossref, then doi.org; a temporary error of either ends it.    *)
Answers == {"found", "temporary", "not_found", "failed"}
Ask(crossref, doiOrg) ==
  IF crossref \in {"found", "temporary"} THEN crossref ELSE doiOrg

Answered(j, status, value, retry) ==
  /\ lookups[j].at = "asking"
  /\ lookups' = [lookups EXCEPT ![j] =
       [@ EXCEPT !.at = "answered", !.status = status, !.value = value, !.retry = retry]]
  /\ UNCHANGED <<assetVars, cached, docVars>>

Resolve(j) ==
  /\ lookups[j].at = "asking" /\ lookups[j].doi # NoDoi
  /\ \E c, o \in Answers :
       LET answer == Ask(c, o)
       IN CASE answer = "found" -> Answered(j, "succeeded", lookups[j].doi, FALSE)
            [] answer = "temporary" -> Answered(j, "failed", NoDoi, TRUE)
            [] OTHER -> Answered(j, answer, NoDoi, FALSE)

(* A search succeeds only if exactly one of its results matches; ambiguous *)
(* and unverified are one outcome here.                                    *)
Search(j) ==
  /\ lookups[j].at = "asking" /\ lookups[j].doi = NoDoi
  /\ \/ \E doi \in DOIs : <<lookups[j].asset, doi>> \in SameDoc /\ Answered(j, "succeeded", doi, FALSE)
     \/ \E s \in {"unverified", "not_found", "failed"} : Answered(j, s, NoDoi, FALSE)
     \/ Answered(j, "failed", NoDoi, TRUE)

(* A worker dies or its lease expires: another attempt, until the limit.   *)
LeaseLost(j) ==
  /\ lookups[j].at \in {"asking", "answered"}
  /\ JobStep(j, lookups[j].at, IF lookups[j].attempts < RetryLimit THEN "pending" ELSE "done")
  /\ UNCHANGED assetVars

Cancel(j) ==
  /\ Live(j) /\ JobStep(j, lookups[j].at, "done")
  /\ UNCHANGED assetVars

Retries(j) == lookups[j].retry /\ lookups[j].attempts < RetryLimit

RetryLater(j) ==
  /\ lookups[j].at = "answered"
  /\ ~Superseded(j) /\ ~SourceStale(j) /\ Retries(j)
  /\ JobStep(j, "answered", "pending")
  /\ metaStatus' = [metaStatus EXCEPT ![lookups[j].asset] = "retrying"]
  /\ UNCHANGED <<selected, manual, metaGen, biblio>>

Mismatch(a, doi) == a \notin manual /\ <<a, doi>> \notin SameDoc

FollowsAlways(d, a) == source[d] = a   \* mutant: the user's own title is not spared
Follows(d, a) == source[d] = a /\ ~edited[d]

(* The second transaction: cache, status, bibliography and titles.         *)
Complete(j) ==
  LET r == lookups[j]
      a == r.asset
      final == IF r.status = "succeeded" /\ Mismatch(a, r.value) THEN "unverified" ELSE r.status
      doi == IF r.value = NoDoi THEN r.doi ELSE r.value
  IN
  /\ r.at = "answered"
  /\ ~Superseded(j) /\ ~SourceStale(j) /\ ~Retries(j)
  /\ lookups' = [lookups EXCEPT ![j] = Ended]
  /\ cached' = IF doi # NoDoi /\ final \in {"succeeded", "not_found"}
                 THEN cached \cup {<<doi, final>>} ELSE cached
  /\ metaStatus' = [metaStatus EXCEPT ![a] = final]
  /\ IF final = "succeeded"
       THEN /\ selected' = IF r.doi = NoDoi THEN [selected EXCEPT ![a] = doi] ELSE selected
            /\ biblio' = [biblio EXCEPT ![a] = doi]
            /\ title' = [d \in Docs |-> IF Follows(d, a) THEN doi ELSE title[d]]
       ELSE UNCHANGED <<selected, biblio, title>>
  /\ UNCHANGED <<manual, metaGen, source, edited>>

CacheExpires(row) ==
  /\ row \in cached /\ cached' = cached \ {row}
  /\ UNCHANGED <<assetVars, lookups, docVars>>

--------------------------------------------------------------------------------
(* apply_title for a document whose title is not the user's *)
TitleOf(a) == IF metaStatus[a] = "succeeded" THEN biblio[a] ELSE Filename

Fenced(d) == {j \in Made : Live(j) /\ lookups[j].doc = d}
Unbound(a) == {j \in Made : Live(j) /\ lookups[j].asset = a /\ lookups[j].doc = NoDoc}

(* POST /imports over the document: its unfinished jobs are cancelled, and *)
(* what the inspection of the new upload has enqueued now belongs to it.   *)
ReplaceSource(d, a) ==
  /\ source[d] # Deleted
  /\ source' = [source EXCEPT ![d] = a]
  /\ title' = IF edited[d] THEN title ELSE [title EXCEPT ![d] = TitleOf(a)]
  /\ \E bound \in SUBSET Unbound(a) :
       lookups' = [j \in Jobs |-> IF j \in Fenced(d) THEN Ended
                                  ELSE IF j \in bound THEN [lookups[j] EXCEPT !.doc = d]
                                  ELSE lookups[j]]
  /\ UNCHANGED <<assetVars, cached, edited>>

EditTitle(d) ==
  /\ source[d] # Deleted
  /\ title' = [title EXCEPT ![d] = UserTitle]
  /\ edited' = [edited EXCEPT ![d] = TRUE]
  /\ UNCHANGED <<assetVars, lookups, cached, source>>

(* Deletion fences the jobs of the document and clears its names.          *)
Delete(d) ==
  /\ source[d] # Deleted
  /\ source' = [source EXCEPT ![d] = Deleted]
  /\ title' = [title EXCEPT ![d] = Deleted]
  /\ lookups' = [j \in Jobs |-> IF j \in Fenced(d) THEN Ended ELSE lookups[j]]
  /\ UNCHANGED <<assetVars, cached, edited>>

Init ==
  /\ selected = [a \in Assets |-> NoDoi] /\ manual = {}
  /\ metaGen = [a \in Assets |-> 0]
  /\ metaStatus = [a \in Assets |-> "no_doi"]
  /\ biblio = [a \in Assets |-> NoDoi]
  /\ lookups = [j \in Jobs |-> NoLookup]
  /\ cached = {}
  /\ source \in [Docs -> Assets]
  /\ title = [d \in Docs |-> Filename] /\ edited = [d \in Docs |-> FALSE]

Next ==
  \/ \E a \in Assets, d \in Docs \cup {NoDoc}, found \in DOIs \cup {NoDoi} : Inspected(a, d, found)
  \/ \E d \in Docs : \/ \E doi \in DOIs : ParserFinds(d, doi)
                     \/ \E doi \in DOIs \cup {NoDoi} : Refresh(d, doi)
                     \/ \E a \in Assets : ReplaceSource(d, a)
                     \/ EditTitle(d) \/ Delete(d)
  \/ \E j \in Made : \/ Abandon(j) \/ Start(j) \/ Resolve(j) \/ Search(j) \/ LeaseLost(j)
                     \/ Cancel(j) \/ RetryLater(j) \/ Complete(j)
  \/ \E row \in cached : CacheExpires(row)

Spec == Init /\ [][Next]_metaVars

--------------------------------------------------------------------------------
(* Every variable has a value its column can hold. *)
TypeOK ==
  /\ selected \in [Assets -> DOIs \cup {NoDoi}] /\ manual \subseteq Assets
  /\ metaGen \in [Assets -> 0 .. MaxLookups] /\ metaStatus \in [Assets -> Statuses]
  /\ biblio \in [Assets -> DOIs \cup {NoDoi}]
  /\ \A j \in Made : lookups[j] = Ended \/ (Live(j) /\ lookups[j].attempts \in 0 .. RetryLimit)
  /\ cached \subseteq DOIs \X {"succeeded", "not_found"}
  /\ source \in [Docs -> Assets \cup {Deleted}] /\ edited \in [Docs -> BOOLEAN]

(* A late answer never describes another paper: when an asset says that    *)
(* its lookup succeeded, the bibliography is that of the DOI selected now, *)
(* whatever the user entered, the parser read or a repeated upload asked   *)
(* for while the network was slow (metadata/execution.py:82).  And a title *)
(* that came from metadata is that of the document's present source, while *)
(* the user's own title stays, across replaced sources, late answers and   *)
(* documents that share a PDF (metadata/execution.py:113).                 *)
MetadataIsOfTheSource ==
  /\ \A a \in Assets : metaStatus[a] = "succeeded" => biblio[a] = selected[a] /\ biblio[a] # NoDoi
  /\ \A d \in Docs : source[d] # Deleted =>
       IF edited[d] THEN title[d] = UserTitle ELSE title[d] \in {Filename, biblio[source[d]]}
================================================================================
