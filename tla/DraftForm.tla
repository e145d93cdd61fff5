------------------------------ MODULE DraftForm ------------------------------
(***************************************************************************)
(* The editing page of a draft in the web client, against a server on      *)
(* which other tabs and jobs write the same draft.  Edits are kept in the  *)
(* page until a save of them is acknowledged; a save sends the dirty       *)
(* segments one after the other, each with the version it was begun on.    *)
(*                                                                         *)
(* A request whose connection breaks may have been executed, may still be  *)
(* executed later, or never; its answer is lost.  The source of a draft    *)
(* does not change.  Messages to the user are left out.                    *)
(***************************************************************************)
EXTENDS Naturals, FiniteSets

CONSTANTS
  Blocks,          \* translatable segments of the draft
  Mine, Theirs,    \* what the user writes and what others write
  Empty,           \* a segment without translation
  MaxGen,          \* bound: generations of the draft
  MaxLate          \* bound: late requests at a time

DraftFormAssumption == Empty \notin Mine \cup Theirs /\ MaxGen \in Nat /\ MaxLate \in Nat
Texts == Mine \cup Theirs \cup {Empty}

VARIABLES
  server,   \* the draft on the server: generation, segments
  page,     \* the draft shown, the local edits, a GET under way
  saving,   \* the save under way
  late,     \* requests without an answer that the server may still execute
  typed     \* history: what the user has written and neither dropped nor got saved

formVars == <<server, page, saving, late, typed>>

NoEdit == [text |-> Empty, base |-> Empty, reason |-> FALSE, version |-> 0]
NoInput == [text |-> Empty, reason |-> FALSE]
Snapshot(s) == [gen |-> s.gen, seg |-> s.seg]
Idle == [at |-> "idle"]

--------------------------------------------------------------------------------
(* editIsDirty, initialEdit *)
Dirty(e) == e.text # e.base \/ e.reason
Initial(b) ==
  LET s == page.shown.seg[b]
  IN [text |-> s.text, base |-> s.text, reason |-> FALSE, version |-> s.version]
EditFor(b) == IF Dirty(page.edits[b]) THEN page.edits[b] ELSE Initial(b)
DirtyBlocks == {b \in Blocks: Dirty(page.edits[b])}
Valid(e) == e.reason /\ e.text # Empty

(* The text or the reason of a segment is changed; not while saving. *)
Change(b, e) ==
  /\ saving = Idle /\ e # EditFor(b)
  /\ page' = [page EXCEPT !.edits[b] = e]
  /\ typed' = [typed EXCEPT ![b] = IF Dirty(e) THEN [text |-> e.text, reason |-> e.reason] ELSE NoInput]
  /\ UNCHANGED <<server, saving, late>>
ChangeText(b, text) == Change(b, [EditFor(b) EXCEPT !.text = text])
GiveReason(b) == Change(b, [EditFor(b) EXCEPT !.reason = TRUE])

(* The server has another version; the user has compared it with his text. *)
Conflict(b) == Dirty(page.edits[b]) /\ page.edits[b].version # page.shown.seg[b].version
Rebase(b) ==
  LET mine == page.edits[b]
      e == [Initial(b) EXCEPT !.text = mine.text, !.reason = mine.reason]
  IN /\ saving = Idle /\ Conflict(b)
     /\ page' = [page EXCEPT !.edits[b] = e]
     /\ typed' = IF Dirty(e) THEN typed ELSE [typed EXCEPT ![b] = NoInput]   \* the server has it
     /\ UNCHANGED <<server, saving, late>>

(* The leave dialog: give the changes up, and go or stay. *)
Discard(leave) ==
  /\ saving = Idle
  /\ page' = [page EXCEPT !.edits = [b \in Blocks |-> NoEdit], !.left = leave]
  /\ typed' = [b \in Blocks |-> NoInput]
  /\ UNCHANGED <<server, saving, late>>

--------------------------------------------------------------------------------
Request(b, latest) ==
  [block |-> b, gen |-> latest.gen, text |-> page.edits[b].text,
   version |-> page.edits[b].version, base |-> page.edits[b].base]
Send(b, rest, latest, leave) ==
  saving' = [at |-> "sent", call |-> Request(b, latest), rest |-> rest \ {b}, leave |-> leave]

(* All dirty segments, or one.  Without a reason or text nothing is sent.  *)
Save(pending, leave) ==
  /\ saving = Idle /\ pending # {} /\ pending \subseteq DirtyBlocks
  /\ pending = DirtyBlocks \/ (Cardinality(pending) = 1 /\ ~leave)
  /\ \A b \in pending: Valid(page.edits[b])
  /\ \E b \in pending: Send(b, pending, page.shown, leave)
  /\ UNCHANGED <<server, page, late, typed>>

(* patch_segment: If-Match and base_segment_version. *)
Accepts(call) == call.gen = server.gen /\ call.version = server.seg[call.block].version
Written(b, text) ==
  [server EXCEPT !.gen = @ + 1, !.seg[b] = [version |-> @.version + 1, text |-> text]]
Execute(call) ==
  /\ server.gen < MaxGen
  /\ server' = [Written(call.block, call.text) EXCEPT
                  !.unseen = @ \/ server.seg[call.block].text # call.base]

ServerPatches ==
  /\ saving.at = "sent"
  /\ IF Accepts(saving.call)
       THEN /\ Execute(saving.call)
            /\ saving' = [at |-> "accepted", call |-> saving.call, rest |-> saving.rest,
                          leave |-> saving.leave, draft |-> Snapshot(server')]
       ELSE UNCHANGED server /\ saving' = [at |-> "failed"]
  /\ UNCHANGED <<page, late, typed>>

(* mutant: whatever was being edited is taken for saved *)
ForgetAll(b) == [c \in Blocks |-> NoEdit]
Acknowledge(b) == [page.edits EXCEPT ![b] = NoEdit]

Acknowledged ==
  LET b == saving.call.block IN
  /\ saving.at = "accepted"
  /\ page' = [page EXCEPT !.edits = Acknowledge(b), !.shown = saving.draft,
                          !.left = saving.leave /\ saving.rest = {}]
  /\ typed' = [typed EXCEPT ![b] = NoInput]
  /\ IF saving.rest = {} THEN saving' = Idle
     ELSE \E c \in saving.rest: Send(c, saving.rest, saving.draft, saving.leave)
  /\ UNCHANGED <<server, late>>

(* The connection breaks before or after the server has executed it. *)
ConnectionBreaks ==
  /\ saving.at \in {"sent", "accepted"}
  /\ Cardinality(late) < MaxLate
  /\ late' = IF saving.at = "sent" THEN late \cup {saving.call} ELSE late
  /\ saving' = [at |-> "failed"]
  /\ UNCHANGED <<server, page, typed>>

LateRequest ==
  \E call \in late:
    /\ late' = late \ {call}
    /\ IF Accepts(call) THEN Execute(call) ELSE UNCHANGED server
    /\ UNCHANGED <<page, saving, typed>>

(* mutant: the edits move on to the versions that were read *)
RefreshedAndRebased(draft) ==
  [page EXCEPT !.shown = draft, !.edits = [b \in Blocks |-> [@[b] EXCEPT !.version = draft.seg[b].version]]]
(* After a failure the draft is read for comparison; no edit changes. *)
Refreshed(draft) == [page EXCEPT !.shown = draft]
ReadAfterFailure(works) ==
  /\ saving.at = "failed" /\ saving' = Idle
  /\ page' = IF works THEN Refreshed(Snapshot(server)) ELSE page
  /\ UNCHANGED <<server, late, typed>>

--------------------------------------------------------------------------------
(* useResource: a reload; one that is asked for again drops the first.  It *)
(* may be answered before a save and arrive after it.                      *)
Reload ==
  /\ saving = Idle /\ page' = [page EXCEPT !.read = [at |-> "asked"]]
  /\ UNCHANGED <<server, saving, late, typed>>
ServerReads ==
  /\ page.read.at = "asked" /\ page' = [page EXCEPT !.read = [at |-> "answered", draft |-> Snapshot(server)]]
  /\ UNCHANGED <<server, saving, late, typed>>
ReadArrives ==
  /\ page.read.at = "answered" /\ page' = [page EXCEPT !.shown = page.read.draft, !.read = Idle]
  /\ UNCHANGED <<server, saving, late, typed>>

(* Another tab, a candidate that is accepted, a unit that is committed. *)
OtherWrites(b, text) ==
  /\ server.gen < MaxGen /\ server' = Written(b, text)
  /\ UNCHANGED <<page, saving, late, typed>>

Init ==
  LET seg == [b \in Blocks |-> [version |-> 0, text |-> Empty]] IN
  /\ server = [gen |-> 0, seg |-> seg, unseen |-> FALSE]
  /\ page = [shown |-> [gen |-> 0, seg |-> seg], edits |-> [b \in Blocks |-> NoEdit], read |-> Idle, left |-> FALSE]
  /\ saving = Idle /\ late = {} /\ typed = [b \in Blocks |-> NoInput]

Next ==
  \/ LateRequest
  \/ /\ ~page.left
     /\ \/ \E b \in Blocks, t \in Theirs: OtherWrites(b, t)
        \/ \E b \in Blocks: Rebase(b) \/ GiveReason(b) \/ \E t \in Mine: ChangeText(b, t)
        \/ \E leave \in BOOLEAN: Discard(leave) \/ \E pending \in SUBSET Blocks: Save(pending, leave)
        \/ ServerPatches \/ Acknowledged \/ ConnectionBreaks
        \/ \E works \in BOOLEAN: ReadAfterFailure(works)
        \/ Reload \/ ServerReads \/ ReadArrives

Spec == Init /\ [][Next]_formVars

--------------------------------------------------------------------------------
TypeOK ==
  /\ server.gen \in 0 .. MaxGen
  /\ \A b \in Blocks: page.edits[b].text \in Texts /\ page.shown.seg[b].text \in Texts
  /\ saving.at \in {"idle", "sent", "accepted", "failed"}
  /\ page.read.at \in {"idle", "asked", "answered"}

(* What the user writes stays in the page until the server has it or he    *)
(* gives it up, whatever fails and whatever arrives late; the page is not  *)
(* left with it ("Local edits outlive filtering/collapsing; only an        *)
(* acknowledged PATCH clears them", editor-state.ts:24).                   *)
InputsStay ==
  \A b \in Blocks: typed[b] # NoInput =>
    ~page.left /\ page.edits[b].text = typed[b].text /\ page.edits[b].reason = typed[b].reason

(* No request of the page, not even a late one, replaces a text other than *)
(* the one the user has seen as the base of his edit.                      *)
OnlySeenIsReplaced == ~server.unseen
================================================================================
