---------------------------- MODULE WebClient_proofs ----------------------------
(***************************************************************************)
(* Proofs about Services, for any pages, segments, texts, forms and        *)
(* bounds: what the editing page, the settings page and the guard of the   *)
(* address hold while others write, connections break, requests arrive     *)
(* late and the user goes through the history.                             *)
(***************************************************************************)
EXTENDS Services_proofs, Integers

--------------------------------------------------------------------------------
(* The editing page of a draft.                                            *)

Snap == [gen : Nat, seg : [Blocks -> [version : Nat, text : Drf!Texts]]]
EditRow == [text : Drf!Texts, base : Drf!Texts, reason : BOOLEAN, version : Nat]
Call == [block : Blocks, gen : Nat, text : Drf!Texts, version : Nat, base : Drf!Texts]
Sent == [at : {"sent"}, call : Call, rest : SUBSET Blocks, leave : BOOLEAN]
Accepted == [at : {"accepted"}, call : Call, rest : SUBSET Blocks, leave : BOOLEAN, draft : Snap]
Asked == [at : {"asked"}]
Answered == [at : {"answered"}, draft : Snap]
Failed == [at |-> "failed"]

PageTypes ==
  /\ server \in [gen : 0 .. MaxGen, seg : [Blocks -> [version : Nat, text : Drf!Texts]], unseen : BOOLEAN]
  /\ page \in [shown : Snap, edits : [Blocks -> EditRow], read : {Drf!Idle} \cup Asked \cup Answered, left : BOOLEAN]
  /\ saving \in {Drf!Idle, Failed} \cup Sent \cup Accepted
  /\ late \subseteq Call
  /\ typed \in [Blocks -> [text : Drf!Texts, reason : BOOLEAN]]

\* A version that someone has read stands for one text: the server may have
\* gone on, but while it has not, the text it has is the one that was read.
Genuine(b, version, text) ==
  /\ version <= server.seg[b].version
  /\ version = server.seg[b].version => text = server.seg[b].text
GenuineDraft(d) == \A b \in Blocks : Genuine(b, d.seg[b].version, d.seg[b].text)
GenuineCall(c) == Genuine(c.block, c.version, c.base)

BasesAreReal ==
  /\ \A b \in Blocks : Genuine(b, 0, Empty)
  /\ GenuineDraft(page.shown)
  /\ page.read.at = "answered" => GenuineDraft(page.read.draft)
  /\ saving.at = "accepted" => GenuineDraft(saving.draft)
  /\ \A b \in Blocks : Genuine(b, page.edits[b].version, page.edits[b].base)
  /\ saving.at = "sent" => GenuineCall(saving.call)
  /\ \A c \in late : GenuineCall(c)

\* What the user typed is an edit that differs from its base; a save before
\* leaving the page is of all of these; a page that was left holds none.
TypedIsEdited ==
  /\ \A b \in Blocks : typed[b] # Drf!NoInput =>
       /\ Drf!Dirty(page.edits[b])
       /\ page.edits[b].text = typed[b].text /\ page.edits[b].reason = typed[b].reason
  /\ saving.at \in {"sent", "accepted"} /\ saving.leave =>
       \A b \in Blocks : typed[b] # Drf!NoInput => b \in saving.rest \cup {saving.call.block}
  /\ page.left => \A b \in Blocks : typed[b] = Drf!NoInput

PageInv == PageTypes /\ BasesAreReal /\ TypedIsEdited /\ Drf!OnlySeenIsReplaced

LEMMA DraftConstants ==
  ServicesAssumption => MaxGen \in Nat /\ Mine \subseteq Drf!Texts /\ Theirs \subseteq Drf!Texts /\ Empty \in Drf!Texts
  BY DEF ServicesAssumption, Drf!DraftFormAssumption, Drf!Texts

LEMMA PageInit == ServicesAssumption /\ Drf!Init => PageInv
<1> SUFFICES ASSUME ServicesAssumption, Drf!Init PROVE PageInv
  OBVIOUS
<1> USE DraftConstants DEF Drf!Init
<1>1. PageTypes
  BY DEF PageTypes, Snap, EditRow, Drf!NoEdit, Drf!NoInput, Drf!Idle
<1>2. BasesAreReal
  BY DEF BasesAreReal, GenuineDraft, Genuine, Drf!Idle, Drf!NoEdit
<1>3. TypedIsEdited
  BY DEF TypedIsEdited, Drf!Idle
<1> QED BY <1>1, <1>2, <1>3 DEF PageInv, Drf!OnlySeenIsReplaced

\* What the server may do: nothing, or write new versions of segments.
Grows ==
  \A b \in Blocks : server'.seg[b] = server.seg[b] \/ server'.seg[b].version = server.seg[b].version + 1

StillGenuine(b, v, t) == v <= server'.seg[b].version /\ (v = server'.seg[b].version => t = server'.seg[b].text)
StillGenuineDraft(d) == \A b \in Blocks : StillGenuine(b, d.seg[b].version, d.seg[b].text)

LEMMA GenuineStays ==
  ASSUME PageTypes, Grows, NEW b \in Blocks, NEW v \in Nat, NEW t, Genuine(b, v, t)
  PROVE  StillGenuine(b, v, t)
  BY DEF PageTypes, Grows, Genuine, StillGenuine

LEMMA DraftsStay ==
  ASSUME PageTypes, Grows, NEW d \in Snap, GenuineDraft(d)
  PROVE  StillGenuineDraft(d)
<1> SUFFICES ASSUME NEW b \in Blocks PROVE StillGenuine(b, d.seg[b].version, d.seg[b].text)
  BY DEF StillGenuineDraft
<1>1. d.seg[b].version \in Nat /\ Genuine(b, d.seg[b].version, d.seg[b].text)
  BY DEF Snap, GenuineDraft
<1> QED BY <1>1, GenuineStays

LEMMA BasesStay ==
  ASSUME PageTypes, BasesAreReal, Grows
  PROVE  /\ \A b \in Blocks : StillGenuine(b, 0, Empty)
         /\ StillGenuineDraft(page.shown)
         /\ page.read.at = "answered" => StillGenuineDraft(page.read.draft)
         /\ saving.at = "accepted" => StillGenuineDraft(saving.draft)
         /\ \A b \in Blocks : StillGenuine(b, page.edits[b].version, page.edits[b].base)
         /\ saving.at = "sent" => StillGenuine(saving.call.block, saving.call.version, saving.call.base)
         /\ \A c \in late : StillGenuine(c.block, c.version, c.base)
<1>1. page.shown \in Snap /\ GenuineDraft(page.shown)
  BY DEF PageTypes, BasesAreReal
<1>2. page.read.at = "answered" => page.read.draft \in Snap /\ GenuineDraft(page.read.draft)
  BY DEF PageTypes, BasesAreReal, Answered, Asked, Drf!Idle
<1>3. saving.at = "accepted" => saving.draft \in Snap /\ GenuineDraft(saving.draft)
  BY DEF PageTypes, BasesAreReal, Sent, Accepted, Failed, Drf!Idle
<1>4. \A b \in Blocks : page.edits[b].version \in Nat /\ Genuine(b, page.edits[b].version, page.edits[b].base)
  BY DEF PageTypes, BasesAreReal, EditRow
<1>5. saving.at = "sent" => saving.call \in Call /\ GenuineCall(saving.call)
  BY DEF PageTypes, BasesAreReal, Sent, Accepted, Failed, Drf!Idle
<1>6. \A c \in late : c \in Call /\ GenuineCall(c)
  BY DEF PageTypes, BasesAreReal
<1>8. \A b \in Blocks : StillGenuine(b, 0, Empty)
  BY GenuineStays DEF BasesAreReal
<1>7. \A c \in Call : GenuineCall(c) => StillGenuine(c.block, c.version, c.base)
  BY GenuineStays DEF Call, GenuineCall
<1> QED BY <1>1, <1>2, <1>3, <1>4, <1>5, <1>6, <1>7, <1>8, GenuineStays, DraftsStay

\* What the next state needs, said of the next server.
LEMMA BasesNext ==
  ASSUME \A b \in Blocks : StillGenuine(b, 0, Empty),
         StillGenuineDraft(page'.shown),
         page'.read.at = "answered" => StillGenuineDraft(page'.read.draft),
         saving'.at = "accepted" => StillGenuineDraft(saving'.draft),
         \A b \in Blocks : StillGenuine(b, page'.edits[b].version, page'.edits[b].base),
         saving'.at = "sent" => StillGenuine(saving'.call.block, saving'.call.version, saving'.call.base),
         \A c \in late' : StillGenuine(c.block, c.version, c.base)
  PROVE  BasesAreReal'
  BY DEF BasesAreReal, GenuineDraft, GenuineCall, Genuine, StillGenuine, StillGenuineDraft

LEMMA SnapshotIsGenuine ==
  ASSUME PageTypes, MaxGen \in Nat
  PROVE  Drf!Snapshot(server) \in Snap /\ GenuineDraft(Drf!Snapshot(server))
  BY DEF PageTypes, Drf!Snapshot, Snap, GenuineDraft, Genuine

LEMMA WrittenGrows ==
  ASSUME PageTypes, MaxGen \in Nat, NEW b \in Blocks, NEW t \in Drf!Texts, server.gen < MaxGen
  PROVE  /\ Drf!Written(b, t) \in [gen : 0 .. MaxGen, seg : [Blocks -> [version : Nat, text : Drf!Texts]], unseen : BOOLEAN]
         /\ Drf!Written(b, t).unseen = server.unseen
         /\ \A c \in Blocks : \/ Drf!Written(b, t).seg[c] = server.seg[c]
                              \/ Drf!Written(b, t).seg[c].version = server.seg[c].version + 1
<1> DEFINE new == [server.seg EXCEPT ![b] = [version |-> server.seg[b].version + 1, text |-> t]]
<1>1. server = [gen |-> server.gen, seg |-> server.seg, unseen |-> server.unseen]
  BY DEF PageTypes
<1>2. Drf!Written(b, t) = [server EXCEPT !.gen = server.gen + 1, !.seg = new]
  BY DEF Drf!Written
<1>3. Drf!Written(b, t) = [gen |-> server.gen + 1, seg |-> new, unseen |-> server.unseen]
  <2> HIDE DEF new
  <2> QED BY <1>1, <1>2
<1>4. new \in [Blocks -> [version : Nat, text : Drf!Texts]]
  BY DEF PageTypes
<1>5. \A c \in Blocks : new[c] = server.seg[c] \/ new[c].version = server.seg[c].version + 1
  BY DEF PageTypes
<1>6. server.gen + 1 \in 0 .. MaxGen /\ server.unseen \in BOOLEAN
  BY DEF PageTypes
<1> HIDE DEF new
<1> QED BY <1>3, <1>4, <1>5, <1>6

LEMMA ExecuteGrows ==
  ASSUME PageTypes, MaxGen \in Nat, NEW c \in Call, GenuineCall(c), Drf!Accepts(c), Drf!Execute(c)
  PROVE  /\ server' \in [gen : 0 .. MaxGen, seg : [Blocks -> [version : Nat, text : Drf!Texts]], unseen : BOOLEAN]
         /\ Grows /\ server'.unseen = server.unseen
<1> DEFINE w == Drf!Written(c.block, c.text)
<1>1. c.block \in Blocks /\ c.text \in Drf!Texts /\ server.gen < MaxGen
  BY DEF Call, Drf!Execute
<1>2. /\ w \in [gen : 0 .. MaxGen, seg : [Blocks -> [version : Nat, text : Drf!Texts]], unseen : BOOLEAN]
      /\ w.unseen = server.unseen
      /\ \A d \in Blocks : w.seg[d] = server.seg[d] \/ w.seg[d].version = server.seg[d].version + 1
  BY <1>1, WrittenGrows
<1>3. server.seg[c.block].text = c.base
  BY DEF GenuineCall, Genuine, Drf!Accepts
<1>4. server' = [w EXCEPT !.unseen = w.unseen \/ FALSE]
  BY <1>3 DEF Drf!Execute
<1>5. w.unseen \in BOOLEAN /\ server' = w
  <2> HIDE DEF w
  <2> QED BY <1>2, <1>4
<1> HIDE DEF w
<1> QED BY <1>2, <1>5 DEF Grows

\* Steps of the page, the server at rest.
LEMMA EditForIsGenuine ==
  ASSUME ServicesAssumption, PageInv, NEW b \in Blocks
  PROVE  /\ Drf!EditFor(b) \in EditRow /\ Genuine(b, Drf!EditFor(b).version, Drf!EditFor(b).base)
         /\ Drf!Initial(b) \in EditRow /\ Genuine(b, Drf!Initial(b).version, Drf!Initial(b).base)
<1>1. page.edits[b] \in EditRow /\ Genuine(b, page.edits[b].version, page.edits[b].base)
  BY DEF PageInv, PageTypes, BasesAreReal
<1>2. page.shown.seg[b] \in [version : Nat, text : Drf!Texts] /\ Genuine(b, page.shown.seg[b].version, page.shown.seg[b].text)
  BY DEF PageInv, PageTypes, BasesAreReal, Snap, GenuineDraft
<1>3. Drf!Initial(b) \in EditRow /\ Genuine(b, Drf!Initial(b).version, Drf!Initial(b).base)
  BY <1>2 DEF Drf!Initial, EditRow
<1> QED BY <1>1, <1>3 DEF Drf!EditFor

\* An edit of one segment, given what becomes of the history.
LEMMA EditKeeps ==
  ASSUME ServicesAssumption, PageInv, ~page.left, NEW b \in Blocks,
         NEW e \in EditRow, Genuine(b, e.version, e.base),
         saving = Drf!Idle, page' = [page EXCEPT !.edits[b] = e], UNCHANGED <<server, saving, late>>,
         NEW i \in [text : Drf!Texts, reason : BOOLEAN], typed' = [typed EXCEPT ![b] = i],
         i # Drf!NoInput => Drf!Dirty(e) /\ e.text = i.text /\ e.reason = i.reason
  PROVE  PageInv'
<1>1. /\ page'.shown = page.shown /\ page'.read = page.read /\ page'.left = page.left
      /\ page'.edits = [page.edits EXCEPT ![b] = e]
      /\ page' \in [shown : Snap, edits : [Blocks -> EditRow], read : {Drf!Idle} \cup Asked \cup Answered, left : BOOLEAN]
  BY DEF PageInv, PageTypes
<1>2. PageTypes'
  BY <1>1 DEF PageInv, PageTypes
<1>3. Grows
  BY DEF Grows
<1>4. PageTypes /\ BasesAreReal
  BY DEF PageInv
<1>5. StillGenuine(b, e.version, e.base)
  BY <1>3, <1>4, GenuineStays DEF EditRow
<1>6. \A c \in Blocks : page'.edits[c] = IF c = b THEN e ELSE page.edits[c]
  BY <1>1, <1>4 DEF PageTypes
<1>7. BasesAreReal'
  BY <1>1, <1>3, <1>4, <1>5, <1>6, BasesStay, BasesNext
<1>8. \A c \in Blocks : typed'[c] = IF c = b THEN i ELSE typed[c]
  BY <1>4 DEF PageTypes
<1>9. TypedIsEdited'
  BY <1>1, <1>6, <1>8 DEF PageInv, TypedIsEdited, Drf!Idle
<1> QED BY <1>2, <1>7, <1>9 DEF PageInv, Drf!OnlySeenIsReplaced

LEMMA ChangeStep ==
  ASSUME ServicesAssumption, PageInv, ~page.left, NEW b \in Blocks,
         Drf!GiveReason(b) \/ \E t \in Mine : Drf!ChangeText(b, t)
  PROVE  PageInv'
<1>1. PICK e \in EditRow : Drf!Change(b, e) /\ Genuine(b, e.version, e.base)
  <2>1. CASE Drf!GiveReason(b)
    <3> DEFINE old == Drf!EditFor(b)
               e == [old EXCEPT !.reason = TRUE]
    <3>1. Drf!Change(b, e)
      BY <2>1 DEF Drf!GiveReason
    <3>2. old \in EditRow /\ Genuine(b, old.version, old.base)
      BY EditForIsGenuine
    <3>3. e \in EditRow /\ Genuine(b, e.version, e.base)
      <4> HIDE DEF old
      <4> QED BY <3>2 DEF EditRow
    <3> HIDE DEF e
    <3> QED BY <3>1, <3>3
  <2>2. CASE \E t \in Mine : Drf!ChangeText(b, t)
    <3>1. PICK t \in Mine : Drf!ChangeText(b, t)
      BY <2>2
    <3>2. t \in Drf!Texts
      BY DEF Drf!Texts
    <3> QED BY <3>1, <3>2, EditForIsGenuine DEF Drf!ChangeText, EditRow
  <2> QED BY <2>1, <2>2
<1> DEFINE i == IF Drf!Dirty(e) THEN [text |-> e.text, reason |-> e.reason] ELSE Drf!NoInput
<1>2. i \in [text : Drf!Texts, reason : BOOLEAN] /\ (i # Drf!NoInput => Drf!Dirty(e) /\ e.text = i.text /\ e.reason = i.reason)
  BY DraftConstants DEF Drf!NoInput, EditRow
<1>3. typed' = [typed EXCEPT ![b] = i] /\ saving = Drf!Idle /\ page' = [page EXCEPT !.edits[b] = e]
      /\ UNCHANGED <<server, saving, late>>
  BY <1>1 DEF Drf!Change
<1> HIDE DEF i
<1> QED BY <1>1, <1>2, <1>3, EditKeeps

LEMMA RebaseStep ==
  ASSUME ServicesAssumption, PageInv, ~page.left, NEW b \in Blocks, Drf!Rebase(b)
  PROVE  PageInv'
<1> DEFINE mine == page.edits[b]
           e == [Drf!Initial(b) EXCEPT !.text = mine.text, !.reason = mine.reason]
           i == IF Drf!Dirty(e) THEN typed[b] ELSE Drf!NoInput
<1>1. mine \in EditRow /\ typed[b] \in [text : Drf!Texts, reason : BOOLEAN]
  BY DEF PageInv, PageTypes
<1>2. e \in EditRow /\ Genuine(b, e.version, e.base) /\ e.text = mine.text /\ e.reason = mine.reason
  <2> HIDE DEF mine
  <2> QED BY <1>1, EditForIsGenuine DEF EditRow
<1>3. i \in [text : Drf!Texts, reason : BOOLEAN] /\ (i # Drf!NoInput => Drf!Dirty(e) /\ e.text = i.text /\ e.reason = i.reason)
  BY <1>1, <1>2, DraftConstants DEF Drf!NoInput, PageInv, TypedIsEdited
<1>4. typed' = IF Drf!Dirty(e) THEN typed ELSE [typed EXCEPT ![b] = Drf!NoInput]
  BY DEF Drf!Rebase
<1>5. typed' = [typed EXCEPT ![b] = i]
  BY <1>4 DEF PageInv, PageTypes
<1>6. saving = Drf!Idle /\ page' = [page EXCEPT !.edits[b] = e] /\ UNCHANGED <<server, saving, late>>
  BY DEF Drf!Rebase
<1> HIDE DEF i, e
<1> QED BY <1>2, <1>3, <1>5, <1>6, EditKeeps

LEMMA DiscardStep ==
  ASSUME ServicesAssumption, PageInv, NEW leave \in BOOLEAN, Drf!Discard(leave)
  PROVE  PageInv'
<1>1. /\ page'.shown = page.shown /\ page'.read = page.read /\ page'.left = leave
      /\ page'.edits = [b \in Blocks |-> Drf!NoEdit]
      /\ page' \in [shown : Snap, edits : [Blocks -> EditRow], read : {Drf!Idle} \cup Asked \cup Answered, left : BOOLEAN]
  BY DraftConstants DEF PageInv, PageTypes, Drf!Discard, EditRow, Drf!NoEdit
<1>2. saving' = Drf!Idle /\ server' = server /\ late' = late /\ typed' = [b \in Blocks |-> Drf!NoInput]
  BY DEF Drf!Discard
<1>3. PageTypes'
  BY <1>1, <1>2, DraftConstants DEF PageInv, PageTypes, Drf!NoInput
<1>4. Grows /\ PageTypes /\ BasesAreReal
  BY <1>2 DEF Grows, PageInv
<1>5. \A b \in Blocks : StillGenuine(b, page'.edits[b].version, page'.edits[b].base)
  BY <1>1, <1>4, BasesStay DEF Drf!NoEdit
<1>6. BasesAreReal'
  BY <1>1, <1>2, <1>4, <1>5, BasesStay, BasesNext DEF Drf!Idle
<1>7. TypedIsEdited'
  BY <1>1, <1>2 DEF TypedIsEdited, Drf!Idle
<1> QED BY <1>2, <1>3, <1>6, <1>7 DEF PageInv, Drf!OnlySeenIsReplaced

\* A page that only shows another draft, or waits for one.
LEMMA ShowKeeps ==
  ASSUME ServicesAssumption, PageInv, UNCHANGED <<server, late, typed>>,
         page' \in [shown : Snap, edits : [Blocks -> EditRow], read : {Drf!Idle} \cup Asked \cup Answered, left : BOOLEAN],
         page'.edits = page.edits, page'.left = page.left,
         GenuineDraft(page'.shown), page'.read.at = "answered" => GenuineDraft(page'.read.draft),
         saving' \in {saving, Drf!Idle}
  PROVE  PageInv'
<1>1. PageTypes'
  BY DEF PageInv, PageTypes
<1>2. Grows /\ PageTypes /\ BasesAreReal
  BY DEF Grows, PageInv
<1>3. StillGenuineDraft(page'.shown) /\ (page'.read.at = "answered" => StillGenuineDraft(page'.read.draft))
  BY DEF GenuineDraft, Genuine, StillGenuineDraft, StillGenuine
<1>4. BasesAreReal'
  BY <1>2, <1>3, BasesStay, BasesNext DEF Drf!Idle
<1>5. TypedIsEdited'
  BY DEF PageInv, TypedIsEdited, Drf!Idle
<1> QED BY <1>1, <1>4, <1>5 DEF PageInv, Drf!OnlySeenIsReplaced

LEMMA ReadStep ==
  ASSUME ServicesAssumption, PageInv,
         \/ \E works \in BOOLEAN : Drf!ReadAfterFailure(works)
         \/ Drf!Reload \/ Drf!ServerReads \/ Drf!ReadArrives
  PROVE  PageInv'
<1> DEFINE now == Drf!Snapshot(server)
           Pages == [shown : Snap, edits : [Blocks -> EditRow], read : {Drf!Idle} \cup Asked \cup Answered, left : BOOLEAN]
<1>1. page \in Pages /\ GenuineDraft(page.shown) /\ (page.read.at = "answered" => GenuineDraft(page.read.draft) /\ page.read.draft \in Snap)
  BY DEF PageInv, PageTypes, BasesAreReal, Asked, Answered, Drf!Idle
<1>2. now \in Snap /\ GenuineDraft(now)
  BY DraftConstants, SnapshotIsGenuine DEF PageInv
<1> HIDE DEF now
<1>3. CASE \E works \in BOOLEAN : Drf!ReadAfterFailure(works)
  <2>1. UNCHANGED <<server, late, typed>> /\ saving' = Drf!Idle /\ page' \in {page, [page EXCEPT !.shown = now]}
    BY <1>3 DEF Drf!ReadAfterFailure, Drf!Refreshed, now
  <2> QED BY <1>1, <1>2, <2>1, ShowKeeps
<1>4. CASE Drf!Reload
  <2>1. UNCHANGED <<server, late, typed, saving>> /\ page' = [page EXCEPT !.read = [at |-> "asked"]]
    BY <1>4 DEF Drf!Reload
  <2>2. page' \in Pages /\ page'.read.at = "asked"
    BY <1>1, <2>1 DEF Asked
  <2> QED BY <1>1, <2>1, <2>2, ShowKeeps
<1>5. CASE Drf!ServerReads
  <2>1. UNCHANGED <<server, late, typed, saving>> /\ page' = [page EXCEPT !.read = [at |-> "answered", draft |-> now]]
    BY <1>5 DEF Drf!ServerReads, now
  <2>2. page' \in Pages /\ page'.read.draft = now
    BY <1>1, <1>2, <2>1 DEF Answered
  <2> QED BY <1>1, <1>2, <2>1, <2>2, ShowKeeps
<1>6. CASE Drf!ReadArrives
  <2>1. /\ UNCHANGED <<server, late, typed, saving>> /\ page.read.at = "answered"
        /\ page' = [page EXCEPT !.shown = page.read.draft, !.read = Drf!Idle]
    BY <1>6 DEF Drf!ReadArrives
  <2>2. page' \in Pages /\ page'.read.at = "idle"
    BY <1>1, <2>1 DEF Drf!Idle
  <2> QED BY <1>1, <2>1, <2>2, ShowKeeps
<1> QED BY <1>3, <1>4, <1>5, <1>6

\* Steps of the server and of a save.
LEMMA OtherWritesStep ==
  ASSUME ServicesAssumption, PageInv, NEW b \in Blocks, NEW t \in Theirs, Drf!OtherWrites(b, t)
  PROVE  PageInv'
<1>1. UNCHANGED <<page, saving, late, typed>> /\ server' = Drf!Written(b, t) /\ server.gen < MaxGen /\ t \in Drf!Texts
  BY DraftConstants DEF Drf!OtherWrites
<1>2. PageTypes /\ BasesAreReal /\ MaxGen \in Nat
  BY DraftConstants DEF PageInv
<1>3. /\ server' \in [gen : 0 .. MaxGen, seg : [Blocks -> [version : Nat, text : Drf!Texts]], unseen : BOOLEAN]
      /\ server'.unseen = server.unseen /\ Grows
  BY <1>1, <1>2, WrittenGrows DEF Grows
<1>4. PageTypes'
  BY <1>1, <1>2, <1>3 DEF PageTypes
<1>5. BasesAreReal'
  BY <1>1, <1>2, <1>3, BasesStay, BasesNext
<1>6. TypedIsEdited'
  BY <1>1 DEF PageInv, TypedIsEdited
<1> QED BY <1>3, <1>4, <1>5, <1>6 DEF PageInv, Drf!OnlySeenIsReplaced

LEMMA LateStep ==
  ASSUME ServicesAssumption, PageInv, Drf!LateRequest
  PROVE  PageInv'
<1>1. PICK call \in late :
        /\ late' = late \ {call}
        /\ IF Drf!Accepts(call) THEN Drf!Execute(call) ELSE UNCHANGED server
        /\ UNCHANGED <<page, saving, typed>>
  BY DEF Drf!LateRequest
<1>2. PageTypes /\ BasesAreReal /\ MaxGen \in Nat /\ call \in Call /\ GenuineCall(call)
  BY DraftConstants DEF PageInv, PageTypes, BasesAreReal
<1>3. /\ server' \in [gen : 0 .. MaxGen, seg : [Blocks -> [version : Nat, text : Drf!Texts]], unseen : BOOLEAN]
      /\ server'.unseen = server.unseen /\ Grows
  <2>1. CASE Drf!Accepts(call)
    BY <1>1, <1>2, <2>1, ExecuteGrows
  <2>2. CASE ~Drf!Accepts(call)
    BY <1>1, <1>2, <2>2 DEF PageTypes, Grows
  <2> QED BY <2>1, <2>2
<1>7. UNCHANGED <<page, saving, typed>> /\ late' \subseteq late
  BY <1>1
<1>4. PageTypes'
  BY <1>7, <1>2, <1>3 DEF PageTypes
<1>5. BasesAreReal'
  BY <1>7, <1>2, <1>3, BasesStay, BasesNext
<1>6. TypedIsEdited'
  BY <1>7 DEF PageInv, TypedIsEdited
<1> QED BY <1>3, <1>4, <1>5, <1>6 DEF PageInv, Drf!OnlySeenIsReplaced

LEMMA RequestIsGenuine ==
  ASSUME ServicesAssumption, PageInv, NEW b \in Blocks, NEW d \in Snap
  PROVE  Drf!Request(b, d) \in Call /\ GenuineCall(Drf!Request(b, d)) /\ Drf!Request(b, d).block = b
<1>1. page.edits[b] \in EditRow /\ Genuine(b, page.edits[b].version, page.edits[b].base)
  BY DEF PageInv, PageTypes, BasesAreReal
<1>2. d.gen \in Nat
  BY DEF Snap
<1> QED BY <1>1, <1>2 DEF Drf!Request, Call, EditRow, GenuineCall

LEMMA SaveIsSent ==
  ASSUME ServicesAssumption, PageInv, ~page.left, NEW leave \in BOOLEAN, NEW pending \in SUBSET Blocks,
         Drf!Save(pending, leave)
  PROVE  PageInv'
<1>1. PICK b \in pending : Drf!Send(b, pending, page.shown, leave)
  BY DEF Drf!Save
<1>2. UNCHANGED <<server, page, late, typed>> /\ (leave => pending = Drf!DirtyBlocks)
  BY DEF Drf!Save
<1>3. PageTypes /\ BasesAreReal /\ b \in Blocks /\ page.shown \in Snap
  BY DEF PageInv, PageTypes
<1> DEFINE call == Drf!Request(b, page.shown)
<1>4. saving' = [at |-> "sent", call |-> call, rest |-> pending \ {b}, leave |-> leave]
  BY <1>1 DEF Drf!Send
<1>5. call \in Call /\ GenuineCall(call) /\ call.block = b
  BY <1>3, RequestIsGenuine
<1> HIDE DEF call
<1>6. PageTypes'
  BY <1>2, <1>3, <1>4, <1>5 DEF PageTypes, Sent
<1>7. Grows
  BY <1>2 DEF Grows
<1>8. StillGenuine(call.block, call.version, call.base)
  BY <1>2, <1>5 DEF GenuineCall, Genuine, StillGenuine
<1>9. BasesAreReal'
  BY <1>2, <1>3, <1>4, <1>7, <1>8, BasesStay, BasesNext
<1>10. leave => \A c \in Blocks : typed[c] # Drf!NoInput => c \in pending
  BY <1>2 DEF PageInv, TypedIsEdited, Drf!DirtyBlocks
<1>11. TypedIsEdited'
  BY <1>2, <1>4, <1>5, <1>10 DEF PageInv, TypedIsEdited
<1> QED BY <1>2, <1>6, <1>9, <1>11 DEF PageInv, Drf!OnlySeenIsReplaced

LEMMA SavingKinds ==
  ASSUME PageTypes
  PROVE  /\ saving.at = "sent" => saving \in Sent /\ saving.call \in Call
         /\ saving.at = "accepted" => saving \in Accepted /\ saving.call \in Call /\ saving.draft \in Snap
  BY DEF PageTypes, Sent, Accepted, Failed, Drf!Idle

LEMMA PatchStep ==
  ASSUME ServicesAssumption, PageInv, Drf!ServerPatches
  PROVE  PageInv'
<1>1. PageTypes /\ BasesAreReal /\ MaxGen \in Nat /\ saving.at = "sent" /\ UNCHANGED <<page, late, typed>>
  BY DraftConstants DEF PageInv, Drf!ServerPatches
<1>2. saving \in Sent /\ saving.call \in Call /\ GenuineCall(saving.call)
  BY <1>1, SavingKinds DEF BasesAreReal
<1>3. CASE Drf!Accepts(saving.call)
  <2>1. Drf!Execute(saving.call)
    BY <1>3 DEF Drf!ServerPatches
  <2>2. saving' = [at |-> "accepted", call |-> saving.call, rest |-> saving.rest,
                   leave |-> saving.leave, draft |-> Drf!Snapshot(server')]
    BY <1>3 DEF Drf!ServerPatches
  <2>3. /\ server' \in [gen : 0 .. MaxGen, seg : [Blocks -> [version : Nat, text : Drf!Texts]], unseen : BOOLEAN]
        /\ server'.unseen = server.unseen /\ Grows
    BY <1>1, <1>2, <1>3, <2>1, ExecuteGrows
  <2>4. Drf!Snapshot(server') \in Snap /\ StillGenuineDraft(Drf!Snapshot(server'))
    BY <1>1, <2>3 DEF Drf!Snapshot, Snap, StillGenuineDraft, StillGenuine
  <2>5. PageTypes'
    BY <1>1, <1>2, <2>2, <2>3, <2>4 DEF PageTypes, Sent, Accepted
  <2>6. BasesAreReal'
    BY <1>1, <2>2, <2>3, <2>4, BasesStay, BasesNext
  <2>7. TypedIsEdited'
    BY <1>1, <2>2 DEF PageInv, TypedIsEdited
  <2> QED BY <2>3, <2>5, <2>6, <2>7 DEF PageInv, Drf!OnlySeenIsReplaced
<1>4. CASE ~Drf!Accepts(saving.call)
  <2>1. UNCHANGED server /\ saving' = Failed /\ Grows
    BY <1>4 DEF Drf!ServerPatches, Failed, Grows
  <2>2. PageTypes'
    BY <1>1, <2>1 DEF PageTypes
  <2>3. BasesAreReal'
    BY <1>1, <2>1, BasesStay, BasesNext DEF Failed
  <2>4. TypedIsEdited'
    BY <1>1, <2>1 DEF PageInv, TypedIsEdited, Failed
  <2> QED BY <2>1, <2>2, <2>3, <2>4 DEF PageInv, Drf!OnlySeenIsReplaced
<1> QED BY <1>3, <1>4

LEMMA BreakStep ==
  ASSUME ServicesAssumption, PageInv, Drf!ConnectionBreaks
  PROVE  PageInv'
<1>1. PageTypes /\ BasesAreReal /\ UNCHANGED <<server, page, typed>> /\ Grows /\ saving' = Failed
  BY DEF PageInv, Drf!ConnectionBreaks, Grows, Failed
<1>2. late' \subseteq late \cup {c \in Call : saving.at = "sent" /\ c = saving.call}
  BY <1>1, SavingKinds DEF Drf!ConnectionBreaks
<1>3. PageTypes'
  BY <1>1, <1>2 DEF PageTypes
<1>4. BasesAreReal'
  BY <1>1, <1>2, BasesStay, BasesNext DEF Failed
<1>5. TypedIsEdited'
  BY <1>1 DEF PageInv, TypedIsEdited, Failed
<1> QED BY <1>1, <1>3, <1>4, <1>5 DEF PageInv, Drf!OnlySeenIsReplaced

LEMMA AcknowledgedStep ==
  ASSUME ServicesAssumption, PageInv, ~page.left, Drf!Acknowledged
  PROVE  PageInv'
<1> DEFINE b == saving.call.block
           Pages == [shown : Snap, edits : [Blocks -> EditRow], read : {Drf!Idle} \cup Asked \cup Answered, left : BOOLEAN]
<1>1. PageTypes /\ BasesAreReal /\ saving \in Accepted /\ saving.at = "accepted" /\ UNCHANGED <<server, late>> /\ Grows
  BY SavingKinds DEF PageInv, Drf!Acknowledged, Grows
<1>2. b \in Blocks /\ saving.draft \in Snap /\ saving.rest \subseteq Blocks /\ saving.leave \in BOOLEAN /\ page \in Pages
  BY <1>1 DEF Accepted, Call, PageTypes
<1>3. /\ page' = [page EXCEPT !.edits = [page.edits EXCEPT ![b] = Drf!NoEdit], !.shown = saving.draft,
                             !.left = (saving.leave /\ saving.rest = {})]
      /\ typed' = [typed EXCEPT ![b] = Drf!NoInput]
      /\ IF saving.rest = {} THEN saving' = Drf!Idle
         ELSE \E c \in saving.rest : Drf!Send(c, saving.rest, saving.draft, saving.leave)
  BY DEF Drf!Acknowledged, Drf!Acknowledge
<1>4. Drf!NoEdit \in EditRow /\ Drf!NoInput \in [text : Drf!Texts, reason : BOOLEAN]
  BY DraftConstants DEF EditRow, Drf!NoEdit, Drf!NoInput
<1> HIDE DEF b
<1>5. /\ page' \in Pages /\ page'.shown = saving.draft /\ page'.read = page.read
      /\ page'.left = (saving.leave /\ saving.rest = {})
      /\ \A c \in Blocks : page'.edits[c] = IF c = b THEN Drf!NoEdit ELSE page.edits[c]
  BY <1>2, <1>3, <1>4
<1>6. /\ typed' \in [Blocks -> [text : Drf!Texts, reason : BOOLEAN]]
      /\ \A c \in Blocks : typed'[c] = IF c = b THEN Drf!NoInput ELSE typed[c]
  BY <1>1, <1>2, <1>3, <1>4 DEF PageTypes
<1>7. /\ saving' \in {Drf!Idle} \cup Sent
      /\ saving'.at = "sent" => /\ GenuineCall(saving'.call) /\ saving'.leave = saving.leave
                                /\ saving.rest = saving'.rest \cup {saving'.call.block}
      /\ saving'.at # "accepted"
  <2>1. CASE saving.rest = {}
    BY <1>3, <2>1 DEF Drf!Idle
  <2>2. CASE saving.rest # {}
    <3>1. PICK c \in saving.rest : Drf!Send(c, saving.rest, saving.draft, saving.leave)
      BY <1>3, <2>2
    <3> DEFINE call == Drf!Request(c, saving.draft)
    <3>2. saving' = [at |-> "sent", call |-> call, rest |-> saving.rest \ {c}, leave |-> saving.leave]
      BY <3>1 DEF Drf!Send
    <3>3. call \in Call /\ GenuineCall(call) /\ call.block = c
      BY <1>2, RequestIsGenuine
    <3> HIDE DEF call
    <3> QED BY <1>2, <3>2, <3>3 DEF Sent
  <2> QED BY <2>1, <2>2
<1>8. PageTypes'
  BY <1>1, <1>5, <1>6, <1>7 DEF PageTypes
<1>9. saving'.at = "sent" => StillGenuine(saving'.call.block, saving'.call.version, saving'.call.base)
  BY <1>1, <1>7 DEF GenuineCall, Genuine, StillGenuine
<1>10. \A c \in Blocks : StillGenuine(c, page'.edits[c].version, page'.edits[c].base)
  BY <1>1, <1>5, BasesStay DEF Drf!NoEdit
<1>11. BasesAreReal'
  BY <1>1, <1>5, <1>7, <1>9, <1>10, BasesStay, BasesNext
<1>12. saving.leave => \A c \in Blocks : typed[c] # Drf!NoInput => c \in saving.rest \cup {b}
  BY <1>1 DEF PageInv, TypedIsEdited, b
<1>13. \A c \in Blocks : typed'[c] # Drf!NoInput =>
         /\ Drf!Dirty(page'.edits[c])
         /\ page'.edits[c].text = typed'[c].text /\ page'.edits[c].reason = typed'[c].reason
  BY <1>5, <1>6 DEF PageInv, TypedIsEdited
<1>14. saving'.at \in {"sent", "accepted"} /\ saving'.leave =>
         \A c \in Blocks : typed'[c] # Drf!NoInput => c \in saving'.rest \cup {saving'.call.block}
  BY <1>6, <1>7, <1>12
<1>15. page'.left => \A c \in Blocks : typed'[c] = Drf!NoInput
  BY <1>5, <1>6, <1>12
<1>16. TypedIsEdited'
  BY <1>13, <1>14, <1>15 DEF TypedIsEdited
<1> QED BY <1>1, <1>8, <1>11, <1>16 DEF PageInv, Drf!OnlySeenIsReplaced

LEMMA PageNext ==
  ASSUME ServicesAssumption, PageInv, Drf!Next \/ UNCHANGED formVars
  PROVE  PageInv'
<1>1. CASE UNCHANGED formVars
  BY <1>1 DEF formVars, PageInv, PageTypes, BasesAreReal, GenuineDraft, GenuineCall, Genuine, TypedIsEdited, Drf!OnlySeenIsReplaced
<1>2. CASE Drf!LateRequest
  BY <1>2, LateStep
<1>3. CASE /\ ~page.left
           /\ \/ \E b \in Blocks, t \in Theirs: Drf!OtherWrites(b, t)
              \/ \E b \in Blocks: Drf!Rebase(b) \/ Drf!GiveReason(b) \/ \E t \in Mine: Drf!ChangeText(b, t)
              \/ \E leave \in BOOLEAN: Drf!Discard(leave) \/ \E pending \in SUBSET Blocks: Drf!Save(pending, leave)
              \/ Drf!ServerPatches \/ Drf!Acknowledged \/ Drf!ConnectionBreaks
              \/ \E works \in BOOLEAN: Drf!ReadAfterFailure(works)
              \/ Drf!Reload \/ Drf!ServerReads \/ Drf!ReadArrives
  BY <1>3, OtherWritesStep, RebaseStep, ChangeStep, DiscardStep, SaveIsSent, PatchStep, AcknowledgedStep, BreakStep, ReadStep
<1> QED BY <1>1, <1>2, <1>3 DEF Drf!Next

LEMMA PageGuards == ASSUME PageInv PROVE EditsSurvive
<1>1. Drf!TypeOK
  BY DEF PageInv, PageTypes, Drf!TypeOK, EditRow, Snap, Sent, Accepted, Asked, Answered, Failed, Drf!Idle
<1>2. Drf!InputsStay
  BY DEF PageInv, TypedIsEdited, Drf!InputsStay
<1> QED BY <1>1, <1>2 DEF PageInv, EditsSurvive

(* Edits of a draft survive (web/editor-state.ts): what the user has typed *)
(* stays in the page until the server has it or he gives it up, and what a *)
(* request replaces is the text its user saw, for any segments, texts,     *)
(* conflicts, lost answers and late requests.                              *)
THEOREM EditsOutliveFailures == Spec => []EditsSurvive
<1>1. Init => PageInv
  BY PageInit, ServicesAssumption DEF Init
<1>2. PageInv /\ [Next]_vars => PageInv'
  <2> SUFFICES ASSUME PageInv, [Next]_vars PROVE PageInv'
    OBVIOUS
  <2>1. Drf!Next \/ UNCHANGED formVars
    BY DEF Next, vars, webVars
  <2> QED BY <2>1, PageNext, ServicesAssumption
<1>3. PageInv => EditsSurvive
  BY PageGuards
<1> QED BY <1>1, <1>2, <1>3, PTL DEF Spec

--------------------------------------------------------------------------------
(* The settings page.                                                      *)

TypedKey == {Set!NoneTyped} \cup (Protocols \X Endpoints)
Address == Endpoints \cup {Set!Unset}
Config == [gen : Nat, protocol : Protocols, saved : [Protocols -> [endpoint : Address, keyed : BOOLEAN]]]
PutCall == [at : {"sent"}, gen : Nat, protocol : Protocols, endpoint : Endpoints, key : TypedKey, clear : BOOLEAN]
PutDone == [at : {"accepted"}, row : Config]
PutCalls == {Set!NoCall, [at |-> "refused"], [at |-> "reading"]} \cup PutCall \cup PutDone
LatestRead == {Set!NoCall} \cup [at : {"read"}, row : Config]

SettingsTypes ==
  /\ stored = [prefs |-> stored.prefs, service |-> stored.service] /\ stored.service \in Config
  /\ prefs = [shown |-> prefs.shown, latest |-> prefs.latest, edits |-> prefs.edits, call |-> prefs.call,
              failed |-> prefs.failed, read |-> prefs.read]
  /\ prefs.edits \in [Fields -> Values \cup {Set!Unset}]
  /\ service \in [base : Config, protocol : Protocols, endpoint : Endpoints, key : TypedKey, clear : BOOLEAN,
                  drafts : [Protocols -> [endpoint : Address, key : TypedKey, clear : BOOLEAN]],
                  call : PutCalls, refresh : BOOLEAN, latest : LatestRead]
  /\ leaving \in [at : {"no", "asked", "next", "left"} \cup Set!AllForms, rest : Seq(Set!AllForms)]
  /\ inputs \in [field : [Fields -> Values \cup {Set!Unset}], endpoint : [Protocols -> Address], acts : 0 .. MaxActs]

\* A row that was read is older than the stored one, or the same, and has
\* settings for its own protocol; an accepted save changed only those of
\* the protocol in the form.
Real(row) ==
  /\ row.saved[row.protocol].endpoint \in Endpoints
  /\ row.gen <= stored.service.gen
  /\ row.gen = stored.service.gen => row = stored.service
RowsAreReal ==
  /\ Real(stored.service) /\ Real(service.base)
  /\ service.latest # Set!NoCall => Real(service.latest.row)
  /\ service.call.at = "sent" => service.call.gen = service.base.gen /\ service.call.protocol = service.protocol
  /\ service.call.at = "accepted" =>
       /\ Real(service.call.row) /\ service.call.row.protocol = service.protocol
       /\ \A p \in Protocols \ {service.protocol} : service.call.row.saved[p] = service.base.saved[p]

\* A key stays beside the protocol and the endpoint it was typed for.
KeysFit ==
  /\ service.key # Set!NoneTyped => service.key = <<service.protocol, service.endpoint>>
  /\ \A p \in Protocols : service.drafts[p] # Set!NoDraft =>
       /\ service.drafts[p].endpoint \in Endpoints
       /\ service.drafts[p].key # Set!NoneTyped => service.drafts[p].key = <<p, service.drafts[p].endpoint>>
  /\ service.call.at = "sent" /\ service.call.key # Set!NoneTyped =>
       service.call.key = <<service.call.protocol, service.call.endpoint>>

\* What was typed is an input, and differs from what the page shows as saved.
FieldsKept == \A f \in Fields : inputs.field[f] # Set!Unset =>
  prefs.edits[f] = inputs.field[f] /\ inputs.field[f] # prefs.shown.value[f]
EndpointsKept == \A p \in Protocols : inputs.endpoint[p] # Set!Unset =>
  Set!ServiceInput(p) = inputs.endpoint[p] /\ inputs.endpoint[p] # Set!Default(p)

\* While the page saves before it is left, what is not saved yet has its turn.
Leaving == leaving.at \in {"next"} \cup Set!AllForms
Waits(s) == s = leaving.at \/ \E i \in 1 .. Len(leaving.rest) : leaving.rest[i] = s
TurnsCome ==
  /\ Leaving => \A f \in Fields : inputs.field[f] # Set!Unset => Waits(FormOf[f])
  /\ Leaving => \A p \in Protocols : inputs.endpoint[p] # Set!Unset => Waits("service")
  /\ leaving.at = "service" => \A p \in Protocols \ {service.protocol} : inputs.endpoint[p] = Set!Unset
  /\ leaving.at = "left" => (\A f \in Fields : inputs.field[f] = Set!Unset) /\ (\A p \in Protocols : inputs.endpoint[p] = Set!Unset)

SettingsInv == SettingsTypes /\ RowsAreReal /\ KeysFit /\ FieldsKept /\ EndpointsKept /\ TurnsCome

LEMMA SettingsConstants ==
  ServicesAssumption =>
    /\ Forms \cap {"service", "no", "asked", "next", "left"} = {} /\ Set!Unset \notin Values \cup Endpoints
    /\ FormOf \in [Fields -> Forms] /\ {Order[i] : i \in DOMAIN Order} = Set!AllForms /\ Order \in Seq(Set!AllForms)
    /\ MaxActs \in Nat /\ Endpoints # {} /\ Protocols # {}
    /\ (CHOOSE e \in Endpoints : TRUE) \in Endpoints
<1> SUFFICES ASSUME ServicesAssumption PROVE
    /\ Forms \cap {"service", "no", "asked", "next", "left"} = {} /\ Set!Unset \notin Values \cup Endpoints
    /\ FormOf \in [Fields -> Forms] /\ {Order[i] : i \in DOMAIN Order} = Set!AllForms /\ Order \in Seq(Set!AllForms)
    /\ MaxActs \in Nat /\ Endpoints # {} /\ Protocols # {}
    /\ (CHOOSE e \in Endpoints : TRUE) \in Endpoints
  OBVIOUS
<1>1. Endpoints # {}
  BY DEF ServicesAssumption, Set!SettingsAssumption
<1>2. (CHOOSE e \in Endpoints : TRUE) \in Endpoints
  BY <1>1
<1> QED BY <1>1, <1>2 DEF ServicesAssumption, Set!SettingsAssumption, Set!Unset, Set!ToSet, Set!AllForms

LEMMA SettingsInit == ServicesAssumption /\ Set!Init => SettingsInv
<1> SUFFICES ASSUME ServicesAssumption, Set!Init PROVE SettingsInv
  OBVIOUS
<1>1. PICK v \in Values, p \in Protocols, e \in Endpoints :
        LET row == [gen |-> 0, value |-> [f \in Fields |-> v]]
            config == [gen |-> 0, protocol |-> p,
                       saved |-> [q \in Protocols |-> [endpoint |-> IF q = p THEN e ELSE Set!Unset, keyed |-> q = p]]]
        IN /\ stored = [prefs |-> row, service |-> config]
           /\ prefs = [shown |-> row, latest |-> row, edits |-> [f \in Fields |-> Set!Unset],
                       call |-> [s \in Forms |-> Set!NoCall], failed |-> {}, read |-> Set!NoCall]
           /\ service = [base |-> config, protocol |-> p, endpoint |-> e, key |-> Set!NoneTyped, clear |-> FALSE,
                         drafts |-> [q \in Protocols |-> Set!NoDraft], call |-> Set!NoCall, refresh |-> FALSE,
                         latest |-> Set!NoCall]
           /\ leaving = [at |-> "no", rest |-> <<>>]
           /\ inputs = [field |-> [f \in Fields |-> Set!Unset], endpoint |-> [q \in Protocols |-> Set!Unset], acts |-> 0]
  BY DEF Set!Init
<1> DEFINE config == [gen |-> 0, protocol |-> p,
                      saved |-> [q \in Protocols |-> [endpoint |-> IF q = p THEN e ELSE Set!Unset, keyed |-> q = p]]]
<1>2. config \in Config /\ config.saved[config.protocol].endpoint \in Endpoints
  BY DEF Config, Address
<1>3. /\ stored.service = config /\ service.base = config /\ service.latest = Set!NoCall /\ service.call = Set!NoCall
      /\ service.key = Set!NoneTyped /\ service.drafts = [q \in Protocols |-> Set!NoDraft]
  BY <1>1
<1> HIDE DEF config
<1>4. SettingsTypes
  <2>1. stored = [prefs |-> stored.prefs, service |-> stored.service] /\ stored.service \in Config
    BY <1>1, <1>2, <1>3
  <2>2. /\ prefs = [shown |-> prefs.shown, latest |-> prefs.latest, edits |-> prefs.edits, call |-> prefs.call,
                    failed |-> prefs.failed, read |-> prefs.read]
        /\ prefs.edits \in [Fields -> Values \cup {Set!Unset}]
    BY <1>1
  <2>3. service = [base |-> config, protocol |-> p, endpoint |-> e, key |-> Set!NoneTyped, clear |-> FALSE,
                   drafts |-> [q \in Protocols |-> Set!NoDraft], call |-> Set!NoCall, refresh |-> FALSE,
                   latest |-> Set!NoCall]
    BY <1>1 DEF config
  <2>4. Set!NoDraft \in [endpoint : Address, key : TypedKey, clear : BOOLEAN]
    BY DEF Set!NoDraft, Address, TypedKey
  <2>5. service \in [base : Config, protocol : Protocols, endpoint : Endpoints, key : TypedKey, clear : BOOLEAN,
                  drafts : [Protocols -> [endpoint : Address, key : TypedKey, clear : BOOLEAN]],
                  call : PutCalls, refresh : BOOLEAN, latest : LatestRead]
    BY <1>2, <2>3, <2>4 DEF TypedKey, PutCalls, LatestRead
  <2>6. leaving \in [at : {"no", "asked", "next", "left"} \cup Set!AllForms, rest : Seq(Set!AllForms)]
    BY <1>1
  <2>7. inputs \in [field : [Fields -> Values \cup {Set!Unset}], endpoint : [Protocols -> Address], acts : 0 .. MaxActs]
    BY <1>1, SettingsConstants DEF Address
  <2> QED BY <2>1, <2>2, <2>5, <2>6, <2>7 DEF SettingsTypes
<1>5. RowsAreReal
  <2>1. Real(config)
    BY <1>2, <1>3 DEF Real, Config
  <2> QED BY <1>3, <2>1 DEF RowsAreReal, Set!NoCall
<1>6. KeysFit
  BY <1>3 DEF KeysFit, Set!NoDraft, Set!NoCall
<1>7. FieldsKept /\ EndpointsKept /\ TurnsCome
  BY <1>1, SettingsConstants DEF FieldsKept, EndpointsKept, TurnsCome, Leaving, Set!AllForms
<1> QED BY <1>4, <1>5, <1>6, <1>7 DEF SettingsInv

\* The calls and rows that appear while the page saves and reads.
LEMMA CallsTyped ==
  ASSUME SettingsTypes
  PROVE  /\ service.call.at = "sent" => service.call \in PutCall
         /\ service.call.at = "accepted" => service.call \in PutDone /\ service.call.row \in Config
         /\ service.latest # Set!NoCall => service.latest.row \in Config
         /\ \A p \in Protocols : Set!DefaultIn(service.base, p) \in Endpoints \/ Endpoints = {}
         /\ stored.service \in Config /\ service.base \in Config
<1>1. service.call \in PutCalls /\ service.latest \in LatestRead /\ service.base \in Config /\ stored.service \in Config
  BY DEF SettingsTypes
<1>2. service.call.at = "sent" => service.call \in PutCall
  BY <1>1 DEF PutCalls, PutCall, PutDone, Set!NoCall
<1>3. service.call.at = "accepted" => service.call \in PutDone /\ service.call.row \in Config
  BY <1>1 DEF PutCalls, PutCall, PutDone, Set!NoCall
<1>4. service.latest # Set!NoCall => service.latest.row \in Config
  BY <1>1 DEF LatestRead
<1>5. ASSUME NEW p \in Protocols PROVE Set!DefaultIn(service.base, p) \in Endpoints \/ Endpoints = {}
  <2>1. service.base.saved[p].endpoint \in Endpoints \cup {Set!Unset}
    BY <1>1 DEF Config, Address
  <2> QED BY <2>1 DEF Set!DefaultIn
<1> QED BY <1>1, <1>2, <1>3, <1>4, <1>5

\* What becomes of the form of the service.
ServiceRecord == [base : Config, protocol : Protocols, endpoint : Endpoints, key : TypedKey, clear : BOOLEAN,
                  drafts : [Protocols -> [endpoint : Address, key : TypedKey, clear : BOOLEAN]],
                  call : PutCalls, refresh : BOOLEAN, latest : LatestRead]

LEMMA ServiceStays == ServicesAssumption /\ SettingsTypes /\ RowsAreReal /\ KeysFit /\ (Set!Next \/ UNCHANGED settingsVars) => service' \in ServiceRecord
<1> SUFFICES ASSUME ServicesAssumption, SettingsTypes, RowsAreReal, KeysFit, Set!Next \/ UNCHANGED settingsVars PROVE service' \in ServiceRecord
  OBVIOUS
<1>0. service \in ServiceRecord
  BY DEF SettingsTypes, ServiceRecord
<1>1. Set!NoDraft \in [endpoint : Address, key : TypedKey, clear : BOOLEAN] /\ Set!NoneTyped \in TypedKey /\ Set!NoCall \in PutCalls /\ Set!NoCall \in LatestRead
  BY DEF Set!NoDraft, Address, TypedKey, PutCalls, LatestRead
<1>2. CASE UNCHANGED service
  BY <1>0, <1>2
<1>3. ASSUME NEW e \in Endpoints, Set!TypeEndpoint(e) PROVE service' \in ServiceRecord
  BY <1>0, <1>1, <1>3 DEF Set!TypeEndpoint, Set!Addressed, ServiceRecord
<1>4. CASE Set!TypeKey
  BY <1>0, <1>4 DEF Set!TypeKey, ServiceRecord, TypedKey
<1>5. CASE Set!TickClear
  BY <1>0, <1>1, <1>5 DEF Set!TickClear, ServiceRecord
<1>6. ASSUME NEW p \in Protocols, Set!SwitchProtocol(p) PROVE service' \in ServiceRecord
  <2> DEFINE d == service.drafts[p]
             e == IF d = Set!NoDraft THEN Set!Default(p) ELSE d.endpoint
             old == [endpoint |-> service.endpoint, key |-> service.key, clear |-> service.clear]
  <2>1. service' = [service EXCEPT !.drafts[service.protocol] = old, !.protocol = p,
                      !.endpoint = e, !.key = d.key, !.clear = d.clear]
    BY <1>6 DEF Set!SwitchProtocol, Set!Switched
  <2>2. old \in [endpoint : Address, key : TypedKey, clear : BOOLEAN] /\ d \in [endpoint : Address, key : TypedKey, clear : BOOLEAN]
    BY <1>0 DEF ServiceRecord, Address
  <2>3. e \in Endpoints
    <3>1. Set!Default(p) \in Endpoints
      BY CallsTyped, SettingsConstants DEF Set!Default
    <3> QED BY <3>1 DEF KeysFit
  <2> HIDE DEF old, e, d
  <2> QED BY <1>0, <2>1, <2>2, <2>3 DEF ServiceRecord
<1>7. ASSUME Set!SendService PROVE service' \in ServiceRecord
  <2> DEFINE call == [at |-> "sent", gen |-> service.base.gen, protocol |-> service.protocol,
                      endpoint |-> service.endpoint, key |-> service.key, clear |-> service.clear]
             kept == [endpoint |-> service.endpoint, key |-> Set!NoneTyped, clear |-> service.clear]
  <2>1. call \in PutCalls
    BY <1>0 DEF ServiceRecord, PutCalls, PutCall, Config
  <2>2. kept \in [endpoint : Address, key : TypedKey, clear : BOOLEAN]
    BY <1>0, <1>1 DEF ServiceRecord, Address
  <2>3. service' = [service EXCEPT !.call = call, !.key = Set!NoneTyped, !.drafts[service.protocol] = kept]
    BY <1>7 DEF Set!SendService
  <2> HIDE DEF call, kept
  <2> QED BY <1>0, <1>1, <2>1, <2>2, <2>3 DEF ServiceRecord
<1>8. CASE Set!ServerPuts
  <2> DEFINE call == service.call
             had == stored.service.saved[call.protocol]
             row == [gen |-> stored.service.gen + 1, protocol |-> call.protocol,
                     saved |-> [stored.service.saved EXCEPT ![call.protocol] =
                       [endpoint |-> call.endpoint,
                        keyed |-> call.key # Set!NoneTyped \/ (had.keyed /\ had.endpoint = call.endpoint /\ ~call.clear)]]]
  <2>1. \/ service' = [service EXCEPT !.call = [at |-> "refused"]]
        \/ service' = [service EXCEPT !.call = [at |-> "accepted", row |-> row]]
    BY <1>8 DEF Set!ServerPuts
  <2>2. call \in PutCall /\ stored.service \in Config
    BY <1>8, CallsTyped DEF Set!ServerPuts
  <2>3. row \in Config
    BY <2>2 DEF Config, PutCall, Address
  <2> HIDE DEF row
  <2>4. [at |-> "refused"] \in PutCalls /\ [at |-> "accepted", row |-> row] \in PutCalls
    BY <2>3 DEF PutCalls, PutDone
  <2> QED BY <1>0, <2>1, <2>4 DEF ServiceRecord
<1>9. ASSUME NEW row \in Config, row.saved[row.protocol].endpoint \in Endpoints,
             NEW drafts \in [Protocols -> [endpoint : Address, key : TypedKey, clear : BOOLEAN]],
             service' = Set!Applied(row, drafts)
      PROVE  service' \in ServiceRecord
  BY <1>0, <1>1, <1>9 DEF Set!Applied, ServiceRecord, Config
<1>10. CASE Set!ServiceSaved
  <2> DEFINE row == service.call.row
             drafts == [service.drafts EXCEPT ![service.protocol] = Set!NoDraft]
  <2>1. row \in Config /\ row.saved[row.protocol].endpoint \in Endpoints
    BY <1>10, CallsTyped DEF Set!ServiceSaved, RowsAreReal, Real
  <2>2. drafts \in [Protocols -> [endpoint : Address, key : TypedKey, clear : BOOLEAN]]
    BY <1>0, <1>1 DEF ServiceRecord
  <2>3. service' = Set!Applied(row, drafts)
    BY <1>10 DEF Set!ServiceSaved
  <2> HIDE DEF row, drafts
  <2> QED BY <1>9, <2>1, <2>2, <2>3
<1>11. CASE Set!ServiceFailed
  BY <1>0, <1>1, <1>11 DEF Set!ServiceFailed, ServiceRecord
<1>12. Set!WithoutKeys(service.drafts) \in [Protocols -> [endpoint : Address, key : TypedKey, clear : BOOLEAN]]
  BY <1>0, <1>1 DEF Set!WithoutKeys, ServiceRecord
<1>13. CASE Set!ReadLatest
  <2>1. [at |-> "reading"] \in PutCalls
    BY DEF PutCalls
  <2> QED BY <1>0, <1>1, <1>12, <1>13, <2>1 DEF Set!ReadLatest, ServiceRecord
<1>14. ASSUME NEW works \in BOOLEAN, Set!LatestArrives(works) PROVE service' \in ServiceRecord
  <2>1. [at |-> "read", row |-> stored.service] \in LatestRead
    BY CallsTyped DEF LatestRead
  <2> HIDE DEF LatestRead
  <2> QED BY <1>0, <1>1, <1>14, <2>1 DEF Set!LatestArrives, ServiceRecord
<1>15. ASSUME NEW keep \in BOOLEAN, Set!UseLatest(keep) PROVE service' \in ServiceRecord
  <2> DEFINE row == service.latest.row
  <2>1. row \in Config /\ row.saved[row.protocol].endpoint \in Endpoints
    BY <1>15, CallsTyped DEF Set!UseLatest, RowsAreReal, Real
  <2>2. service' = IF keep THEN Set!AppliedKeeping(row) ELSE Set!Applied(row, [p \in Protocols |-> Set!NoDraft])
    BY <1>15 DEF Set!UseLatest
  <2> HIDE DEF row
  <2>3. CASE keep
    BY <1>0, <1>1, <1>12, <2>1, <2>2, <2>3 DEF Set!AppliedKeeping, ServiceRecord
  <2>4. CASE ~keep
    <3>1. [p \in Protocols |-> Set!NoDraft] \in [Protocols -> [endpoint : Address, key : TypedKey, clear : BOOLEAN]]
      BY <1>1
    <3> QED BY <1>9, <2>1, <2>2, <2>4, <3>1
  <2> QED BY <2>3, <2>4
<1>16. CASE Set!DiscardAll
  <2>1. service' = service \/ service' = Set!Applied(service.base, [p \in Protocols |-> Set!NoDraft])
    BY <1>16 DEF Set!DiscardAll
  <2>2. service.base \in Config /\ service.base.saved[service.base.protocol].endpoint \in Endpoints
    BY <1>0 DEF RowsAreReal, Real, ServiceRecord
  <2>3. [p \in Protocols |-> Set!NoDraft] \in [Protocols -> [endpoint : Address, key : TypedKey, clear : BOOLEAN]]
    BY <1>1
  <2> QED BY <1>0, <1>9, <2>1, <2>2, <2>3
<1>17. CASE Set!SaveService
  BY <1>7, <1>17 DEF Set!SaveService
<1>18. CASE Set!NextForm
  BY <1>0, <1>7, <1>18 DEF Set!NextForm
<1>19. ASSUME Set!Next PROVE service' \in ServiceRecord
  BY <1>2, <1>3, <1>4, <1>5, <1>6, <1>8, <1>10, <1>11, <1>13, <1>14, <1>15, <1>16, <1>17, <1>18, <1>19
     DEF Set!Next, Set!EditField, Set!OtherPatches, Set!SaveForm, Set!ServerPatches, Set!FormSaved, Set!FormFailed,
         Set!RefreshForm, Set!PreferencesRead, Set!PreferencesArrive, Set!OtherPuts, Set!RequestLeave, Set!Stay, Set!SaveAll
<1> QED BY <1>2, <1>19 DEF settingsVars

\* The form the loop of saveAll comes to is the first of the rest that is dirty.
LEMMA FirstDirty ==
  ASSUME leaving.rest \in Seq(Set!AllForms)
  PROVE  LET i == Set!SelectInSeq(leaving.rest, Set!Dirty)
         IN /\ i \in 0 .. Len(leaving.rest)
            /\ i = 0 => \A k \in 1 .. Len(leaving.rest) : ~ Set!Dirty(leaving.rest[k])
            /\ i > 0 => Set!Dirty(leaving.rest[i]) /\ \A k \in 1 .. Len(leaving.rest) : k < i => ~ Set!Dirty(leaving.rest[k])
<1> DEFINE T == {k \in 1 .. Len(leaving.rest) : Set!Dirty(leaving.rest[k])}
           i == Set!SelectInSeq(leaving.rest, Set!Dirty)
<1>1. i = IF T # {} THEN Set!Min(T) ELSE 0
  BY DEF Set!SelectInSeq
<1>2. T \subseteq Nat /\ Len(leaving.rest) \in Nat
  OBVIOUS
<1>3. T # {} => Set!Min(T) \in T /\ \A k \in T : Set!Min(T) <= k
  <2> HIDE DEF T
  <2> QED BY <1>2, LeastNatural DEF Set!Min
<1>4. CASE T = {}
  BY <1>1, <1>2, <1>4
<1>5. CASE T # {}
  <2>1. i \in T /\ \A k \in T : i <= k
    BY <1>1, <1>3, <1>5
  <2> HIDE DEF i
  <2>2. i \in 1 .. Len(leaving.rest) /\ Set!Dirty(leaving.rest[i])
    BY <2>1
  <2>3. ASSUME NEW k \in 1 .. Len(leaving.rest), k < i PROVE ~ Set!Dirty(leaving.rest[k])
    BY <2>1, <2>2, <2>3
  <2>4. /\ i \in 0 .. Len(leaving.rest)
        /\ i = 0 => \A k \in 1 .. Len(leaving.rest) : ~ Set!Dirty(leaving.rest[k])
        /\ i > 0 => Set!Dirty(leaving.rest[i]) /\ \A k \in 1 .. Len(leaving.rest) : k < i => ~ Set!Dirty(leaving.rest[k])
    <3> HIDE DEF T
    <3> QED BY <1>2, <2>2, <2>3
  <2> QED BY <2>4 DEF i
<1> QED BY <1>4, <1>5

\* Going on to the next form: where the dialog is then.
Reached(i) == leaving' = [at |-> leaving.rest[i], rest |-> SubSeq(leaving.rest, i + 1, Len(leaving.rest))]

LEMMA NextFormSteps ==
  ASSUME SettingsTypes, Set!NextForm
  PROVE  /\ leaving.at = "next" /\ UNCHANGED <<stored, inputs>>
         /\ \/ /\ leaving' = [at |-> "left", rest |-> <<>>] /\ UNCHANGED <<prefs, service>>
               /\ \A k \in 1 .. Len(leaving.rest) : ~ Set!Dirty(leaving.rest[k])
            \/ leaving' = [at |-> "asked", rest |-> <<>>] /\ UNCHANGED <<prefs, service>>
            \/ \E i \in 1 .. Len(leaving.rest) :
                 /\ Reached(i) /\ Set!CanSave(leaving.rest[i])
                 /\ \A k \in 1 .. Len(leaving.rest) : k < i => ~ Set!Dirty(leaving.rest[k])
                 /\ IF leaving.rest[i] = "service" THEN Set!SendService /\ UNCHANGED prefs
                    ELSE Set!SendForm(leaving.rest[i]) /\ UNCHANGED service
<1> DEFINE i == Set!SelectInSeq(leaving.rest, Set!Dirty)
<1>1. leaving.rest \in Seq(Set!AllForms) /\ Len(leaving.rest) \in Nat
  BY DEF SettingsTypes
<1>2. /\ i \in 0 .. Len(leaving.rest)
      /\ i = 0 => \A k \in 1 .. Len(leaving.rest) : ~ Set!Dirty(leaving.rest[k])
      /\ i > 0 => Set!Dirty(leaving.rest[i]) /\ \A k \in 1 .. Len(leaving.rest) : k < i => ~ Set!Dirty(leaving.rest[k])
  BY <1>1, FirstDirty
<1>3. /\ leaving.at = "next" /\ UNCHANGED <<stored, inputs>>
      /\ \/ i = 0 /\ Set!Leave("left") /\ UNCHANGED <<prefs, service>>
         \/ i > 0 /\ ~ Set!CanSave(leaving.rest[i]) /\ Set!Leave("asked") /\ UNCHANGED <<prefs, service>>
         \/ /\ i > 0 /\ Set!CanSave(leaving.rest[i]) /\ Reached(i)
            /\ IF leaving.rest[i] = "service" THEN Set!SendService /\ UNCHANGED prefs
               ELSE Set!SendForm(leaving.rest[i]) /\ UNCHANGED service
  BY DEF Set!NextForm, Reached
<1> HIDE DEF i
<1>4. i > 0 => i \in 1 .. Len(leaving.rest)
  BY <1>1, <1>2
<1> QED BY <1>2, <1>3, <1>4 DEF Set!Leave

LEMMA RestTyped ==
  ServicesAssumption /\ SettingsTypes /\ (Set!Next \/ UNCHANGED settingsVars) =>
    /\ stored' = [prefs |-> stored'.prefs, service |-> stored'.service] /\ stored'.service \in Config
    /\ prefs' = [shown |-> prefs'.shown, latest |-> prefs'.latest, edits |-> prefs'.edits, call |-> prefs'.call,
                 failed |-> prefs'.failed, read |-> prefs'.read]
    /\ prefs'.edits \in [Fields -> Values \cup {Set!Unset}]
    /\ leaving' \in [at : {"no", "asked", "next", "left"} \cup Set!AllForms, rest : Seq(Set!AllForms)]
    /\ inputs' \in [field : [Fields -> Values \cup {Set!Unset}], endpoint : [Protocols -> Address], acts : 0 .. MaxActs]
<1> DEFINE StoredOK == stored' = [prefs |-> stored'.prefs, service |-> stored'.service] /\ stored'.service \in Config
           PrefsOK == /\ prefs' = [shown |-> prefs'.shown, latest |-> prefs'.latest, edits |-> prefs'.edits,
                                   call |-> prefs'.call, failed |-> prefs'.failed, read |-> prefs'.read]
                      /\ prefs'.edits \in [Fields -> Values \cup {Set!Unset}]
           LeavingOK == leaving' \in [at : {"no", "asked", "next", "left"} \cup Set!AllForms, rest : Seq(Set!AllForms)]
           InputsOK == inputs' \in [field : [Fields -> Values \cup {Set!Unset}], endpoint : [Protocols -> Address], acts : 0 .. MaxActs]
<1> SUFFICES ASSUME ServicesAssumption, SettingsTypes, Set!Next \/ UNCHANGED settingsVars
             PROVE  StoredOK /\ PrefsOK /\ LeavingOK /\ InputsOK
  OBVIOUS
<1>0. /\ stored = [prefs |-> stored.prefs, service |-> stored.service] /\ stored.service \in Config
      /\ prefs = [shown |-> prefs.shown, latest |-> prefs.latest, edits |-> prefs.edits, call |-> prefs.call,
                  failed |-> prefs.failed, read |-> prefs.read]
      /\ prefs.edits \in [Fields -> Values \cup {Set!Unset}]
      /\ service \in ServiceRecord
      /\ leaving \in [at : {"no", "asked", "next", "left"} \cup Set!AllForms, rest : Seq(Set!AllForms)]
      /\ inputs \in [field : [Fields -> Values \cup {Set!Unset}], endpoint : [Protocols -> Address], acts : 0 .. MaxActs]
  BY DEF SettingsTypes, ServiceRecord
<1>1. /\ UNCHANGED stored => StoredOK
      /\ UNCHANGED prefs => PrefsOK
      /\ UNCHANGED leaving => LeavingOK
      /\ UNCHANGED inputs => InputsOK
  BY <1>0
<1>2. ASSUME NEW row, NEW field, field \in [Fields -> Values \cup {Set!Unset}]
      PROVE  Set!Still(field, row) \in [Fields -> Values \cup {Set!Unset}]
  BY <1>2 DEF Set!Still
<1>31. ASSUME Set!Acts PROVE inputs.acts + 1 \in 0 .. MaxActs
  BY <1>0, <1>31, SettingsConstants DEF Set!Acts
<1>4. ASSUME inputs' = [inputs EXCEPT !.acts = @ + 1], Set!Acts PROVE InputsOK
  BY <1>0, <1>31, <1>4
<1>5. ASSUME NEW s \in Forms \cup {"service"}, NEW ok \in BOOLEAN, leaving' = Set!Continued(s, ok) PROVE LeavingOK
  BY <1>0, <1>5 DEF Set!Continued, Set!AllForms
<1>6. ASSUME NEW at \in {"no", "asked", "left"}, Set!Leave(at) PROVE LeavingOK
  BY <1>6 DEF Set!Leave
<1>7. ASSUME NEW f \in Fields, NEW v \in Values, Set!EditField(f, v) PROVE StoredOK /\ PrefsOK /\ LeavingOK /\ InputsOK
  <2>1. prefs' = [prefs EXCEPT !.edits[f] = v]
    BY <1>7 DEF Set!EditField
  <2>2. PrefsOK
    BY <1>0, <2>1
  <2>3. inputs' = [inputs EXCEPT !.acts = @ + 1, !.field[f] = IF v = prefs.shown.value[f] THEN Set!Unset ELSE v] /\ Set!Acts
    BY <1>7 DEF Set!EditField
  <2>4. [inputs.field EXCEPT ![f] = IF v = prefs.shown.value[f] THEN Set!Unset ELSE v] \in [Fields -> Values \cup {Set!Unset}]
    BY <1>0
  <2>5. InputsOK
    BY <1>0, <1>31, <2>3, <2>4
  <2> QED BY <1>1, <1>7, <2>2, <2>5 DEF Set!EditField
<1>8. ASSUME NEW f \in Fields, NEW v \in Values, Set!OtherPatches(f, v) PROVE StoredOK /\ PrefsOK /\ LeavingOK /\ InputsOK
  <2>1. StoredOK
    BY <1>0, <1>8 DEF Set!OtherPatches
  <2> QED BY <1>1, <1>8, <2>1 DEF Set!OtherPatches
<1>9. ASSUME NEW s \in Forms, Set!SendForm(s) PROVE PrefsOK
  BY <1>0, <1>9 DEF Set!SendForm
<1>10. ASSUME NEW s \in Forms, Set!SaveForm(s) PROVE StoredOK /\ PrefsOK /\ LeavingOK /\ InputsOK
  BY <1>1, <1>9, <1>10 DEF Set!SaveForm
<1>11. ASSUME NEW s \in Forms, Set!ServerPatches(s) PROVE StoredOK /\ PrefsOK /\ LeavingOK /\ InputsOK
  <2> DEFINE call == prefs.call[s]
             row == [gen |-> stored.prefs.gen + 1, value |-> Set!@@(call.value, stored.prefs.value)]
  <2>1. \/ UNCHANGED stored
        \/ \E r : stored' = [stored EXCEPT !.prefs = r]
    BY <1>11 DEF Set!ServerPatches
  <2>2. \E c : prefs' = [prefs EXCEPT !.call[s] = c]
    BY <1>11 DEF Set!ServerPatches
  <2>3. StoredOK /\ PrefsOK
    BY <1>0, <2>1, <2>2
  <2> QED BY <1>1, <1>11, <2>3 DEF Set!ServerPatches
<1>12. ASSUME NEW s \in Forms, Set!FormSaved(s) PROVE StoredOK /\ PrefsOK /\ LeavingOK /\ InputsOK
  <2> DEFINE row == prefs.call[s].row
             edits == [f \in Fields |-> IF f \in Set!Own(s) THEN Set!Unset ELSE prefs.edits[f]]
             field == [f \in Fields |-> IF f \in Set!Own(s) THEN Set!Unset ELSE inputs.field[f]]
  <2>1. edits \in [Fields -> Values \cup {Set!Unset}] /\ field \in [Fields -> Values \cup {Set!Unset}]
    BY <1>0
  <2>2. prefs' = [[prefs EXCEPT !.shown = row, !.latest = IF row.gen >= @.gen THEN row ELSE @]
                   EXCEPT !.latest = row, !.call[s] = Set!NoCall, !.edits = edits]
    BY <1>0, <1>12 DEF Set!FormSaved, Set!Rendered
  <2>3. inputs' = [inputs EXCEPT !.field = Set!Still(field, row)]
    BY <1>12 DEF Set!FormSaved
  <2> HIDE DEF row, edits, field
  <2>4. PrefsOK /\ InputsOK
    BY <1>0, <1>2, <2>1, <2>2, <2>3
  <2> QED BY <1>1, <1>5, <1>12, <2>4 DEF Set!FormSaved
<1>13. ASSUME NEW s \in Forms, Set!FormFailed(s) PROVE StoredOK /\ PrefsOK /\ LeavingOK /\ InputsOK
  <2>1. PrefsOK
    BY <1>0, <1>13 DEF Set!FormFailed
  <2> QED BY <1>1, <1>5, <1>13, <2>1 DEF Set!FormFailed
<1>14. ASSUME NEW s \in Forms, Set!RefreshForm(s) PROVE StoredOK /\ PrefsOK /\ LeavingOK /\ InputsOK
  <2>1. PrefsOK
    BY <1>0, <1>14 DEF Set!RefreshForm
  <2> QED BY <1>1, <1>4, <1>14, <2>1 DEF Set!RefreshForm
<1>15. ASSUME Set!PreferencesRead PROVE StoredOK /\ PrefsOK /\ LeavingOK /\ InputsOK
  <2>1. PrefsOK
    BY <1>0, <1>15 DEF Set!PreferencesRead
  <2> QED BY <1>1, <1>15, <2>1 DEF Set!PreferencesRead
<1>16. ASSUME Set!PreferencesArrive PROVE StoredOK /\ PrefsOK /\ LeavingOK /\ InputsOK
  <2>1. PrefsOK
    BY <1>0, <1>16 DEF Set!PreferencesArrive, Set!Rendered
  <2>2. inputs' = [inputs EXCEPT !.field = Set!Still(inputs.field, prefs.read.row)]
    BY <1>0, <1>16 DEF Set!PreferencesArrive
  <2>3. Set!Still(inputs.field, prefs.read.row) \in [Fields -> Values \cup {Set!Unset}]
    BY <1>0, <1>2
  <2>4. InputsOK
    BY <1>0, <2>2, <2>3
  <2> QED BY <1>1, <1>16, <2>1, <2>4 DEF Set!PreferencesArrive
<1>17. ASSUME NEW e \in Endpoints, Set!TypeEndpoint(e) PROVE StoredOK /\ PrefsOK /\ LeavingOK /\ InputsOK
  <2>1. inputs' = [inputs EXCEPT !.acts = @ + 1, !.endpoint[service.protocol] = IF e = Set!Default(service.protocol) THEN Set!Unset ELSE e] /\ Set!Acts
    BY <1>17 DEF Set!TypeEndpoint
  <2>3. [inputs.endpoint EXCEPT ![service.protocol] = IF e = Set!Default(service.protocol) THEN Set!Unset ELSE e] \in [Protocols -> Address]
    BY <1>0 DEF Address, ServiceRecord
  <2>2. InputsOK
    BY <1>0, <1>31, <2>1, <2>3
  <2> QED BY <1>1, <1>17, <2>2 DEF Set!TypeEndpoint
<1>18. ASSUME NEW p \in Protocols, NEW e \in Endpoints, Set!OtherPuts(p, e) PROVE StoredOK /\ PrefsOK /\ LeavingOK /\ InputsOK
  <2>1. stored' = [stored EXCEPT !.service = [gen |-> stored.service.gen + 1, protocol |-> p,
                  saved |-> [stored.service.saved EXCEPT ![p] = [endpoint |-> e, keyed |-> TRUE]]]]
    BY <1>0, <1>18 DEF Set!OtherPuts
  <2>2. [gen |-> stored.service.gen + 1, protocol |-> p,
         saved |-> [stored.service.saved EXCEPT ![p] = [endpoint |-> e, keyed |-> TRUE]]] \in Config
    BY <1>0 DEF Config, Address
  <2>3. StoredOK
    BY <1>0, <2>1, <2>2
  <2> QED BY <1>1, <1>18, <2>3 DEF Set!OtherPuts
<1>19. ASSUME Set!Types, UNCHANGED <<stored, prefs, leaving>> PROVE StoredOK /\ PrefsOK /\ LeavingOK /\ InputsOK
  BY <1>1, <1>4, <1>19 DEF Set!Types
<1>20. ASSUME Set!ServerPuts PROVE StoredOK /\ PrefsOK /\ LeavingOK /\ InputsOK
  <2> DEFINE call == service.call
             had == stored.service.saved[call.protocol]
             row == [gen |-> stored.service.gen + 1, protocol |-> call.protocol,
                     saved |-> [stored.service.saved EXCEPT ![call.protocol] =
                       [endpoint |-> call.endpoint,
                        keyed |-> call.key # Set!NoneTyped \/ (had.keyed /\ had.endpoint = call.endpoint /\ ~call.clear)]]]
  <2>1. UNCHANGED stored \/ stored' = [stored EXCEPT !.service = row]
    BY <1>20 DEF Set!ServerPuts
  <2>2. call \in PutCall
    BY <1>20, CallsTyped DEF Set!ServerPuts
  <2>3. row \in Config
    BY <1>0, <2>2 DEF Config, PutCall, Address
  <2> HIDE DEF row
  <2>4. StoredOK
    BY <1>0, <2>1, <2>3
  <2> QED BY <1>1, <1>20, <2>4 DEF Set!ServerPuts
<1>21. ASSUME Set!ServiceSaved PROVE StoredOK /\ PrefsOK /\ LeavingOK /\ InputsOK
  <2>1. InputsOK
    BY <1>0, <1>21 DEF Set!ServiceSaved, Address
  <2> QED BY <1>1, <1>5, <1>21, <2>1 DEF Set!ServiceSaved
<1>22. ASSUME Set!ServiceFailed PROVE StoredOK /\ PrefsOK /\ LeavingOK /\ InputsOK
  BY <1>1, <1>5, <1>22 DEF Set!ServiceFailed
<1>23. ASSUME NEW keep \in BOOLEAN, Set!UseLatest(keep) PROVE StoredOK /\ PrefsOK /\ LeavingOK /\ InputsOK
  <2> DEFINE remaining == [p \in Protocols |-> IF keep /\ inputs.endpoint[p] # Set!DefaultIn(service.latest.row, p) THEN inputs.endpoint[p] ELSE Set!Unset]
  <2>1. inputs' = [inputs EXCEPT !.endpoint = remaining]
    BY <1>0, <1>23 DEF Set!UseLatest
  <2>2. remaining \in [Protocols -> Address]
    BY <1>0 DEF Address
  <2> HIDE DEF remaining
  <2>3. InputsOK
    BY <1>0, <2>1, <2>2
  <2> QED BY <1>1, <1>23, <2>3 DEF Set!UseLatest
<1>24. ASSUME Set!DiscardAll PROVE StoredOK /\ PrefsOK /\ LeavingOK /\ InputsOK
  <2>1. PrefsOK
    BY <1>0, <1>24 DEF Set!DiscardAll
  <2>2. InputsOK
    BY <1>0, <1>24 DEF Set!DiscardAll, Address
  <2> QED BY <1>1, <1>6, <1>24, <2>1, <2>2 DEF Set!DiscardAll
<1>25. ASSUME Set!SaveAll PROVE StoredOK /\ PrefsOK /\ LeavingOK /\ InputsOK
  BY <1>1, <1>25, SettingsConstants DEF Set!SaveAll
<1>26. ASSUME Set!NextForm PROVE StoredOK /\ PrefsOK /\ LeavingOK /\ InputsOK
  <2>1. ASSUME NEW i \in 1 .. Len(leaving.rest), Reached(i) PROVE LeavingOK
    <3>1. leaving.rest \in Seq(Set!AllForms) /\ leaving.rest[i] \in Set!AllForms
      BY <1>0
    <3>2. SubSeq(leaving.rest, i + 1, Len(leaving.rest)) \in Seq(Set!AllForms)
      BY <3>1
    <3> QED BY <2>1, <3>1, <3>2 DEF Reached
  <2>2. ASSUME NEW s, s \in Set!AllForms, IF s = "service" THEN Set!SendService /\ UNCHANGED prefs ELSE Set!SendForm(s) /\ UNCHANGED service PROVE PrefsOK
    BY <1>1, <1>9, <2>2 DEF Set!AllForms
  <2>3. LeavingOK /\ PrefsOK
    <3>1. \A i \in 1 .. Len(leaving.rest) : leaving.rest[i] \in Set!AllForms
      BY <1>0
    <3>2. [at |-> "left", rest |-> <<>>] \in [at : {"no", "asked", "next", "left"} \cup Set!AllForms, rest : Seq(Set!AllForms)]
      OBVIOUS
    <3>3. [at |-> "asked", rest |-> <<>>] \in [at : {"no", "asked", "next", "left"} \cup Set!AllForms, rest : Seq(Set!AllForms)]
      OBVIOUS
    <3> QED BY <1>1, <1>26, <2>1, <2>2, <3>1, <3>2, <3>3, NextFormSteps
  <2> QED BY <1>1, <1>26, <2>3, NextFormSteps
<1>30. ASSUME Set!Next PROVE StoredOK /\ PrefsOK /\ LeavingOK /\ InputsOK
  BY <1>1, <1>6, <1>7, <1>8, <1>10, <1>11, <1>12, <1>13, <1>14, <1>15, <1>16, <1>17, <1>18, <1>19, <1>20,
     <1>21, <1>22, <1>23, <1>24, <1>25, <1>26, <1>30
     DEF Set!Next, Set!TypeKey, Set!TickClear, Set!SwitchProtocol, Set!ReadLatest, Set!LatestArrives, Set!SaveService, Set!RequestLeave, Set!Stay
<1> QED BY <1>1, <1>30 DEF settingsVars

--------------------------------------------------------------------------------
(* What each step does to the rows and to the keys.                        *)

\* The address proposed for a protocol is an endpoint.
LEMMA DefaultIsAnEndpoint ==
  ASSUME ServicesAssumption, NEW row \in Config, NEW p \in Protocols PROVE Set!DefaultIn(row, p) \in Endpoints
  BY SettingsConstants DEF Set!DefaultIn, Config, Address

\* The form of the service, in every step of the page.
Untouched == service'.drafts = service.drafts /\ service'.protocol = service.protocol /\ service'.endpoint = service.endpoint

LEMMA RowsStayReal ==
  ServicesAssumption /\ SettingsTypes /\ RowsAreReal /\ (Set!Next \/ UNCHANGED settingsVars) => RowsAreReal'
<1> SUFFICES ASSUME ServicesAssumption, SettingsTypes, RowsAreReal, Set!Next \/ UNCHANGED settingsVars PROVE RowsAreReal'
  OBVIOUS
<1>0. /\ service \in ServiceRecord /\ stored.service \in Config /\ service.base \in Config
      /\ stored = [prefs |-> stored.prefs, service |-> stored.service]
      /\ service.call.at = "sent" => service.call \in PutCall
      /\ service.call.at = "accepted" => service.call.row \in Config
      /\ service.latest # Set!NoCall => service.latest.row \in Config
  BY CallsTyped DEF SettingsTypes, ServiceRecord
<1>1. ASSUME UNCHANGED stored, service'.base = service.base, service'.latest = service.latest,
             \/ service'.call = service.call /\ service'.protocol = service.protocol
             \/ service'.call.at \notin {"sent", "accepted"}
      PROVE  RowsAreReal'
  BY <1>1 DEF RowsAreReal, Real
<1>2. CASE UNCHANGED <<stored, service>>
  BY <1>1, <1>2
<1>3. ASSUME stored'.service = stored.service, UNCHANGED service PROVE RowsAreReal'
  BY <1>3 DEF RowsAreReal, Real
<1>4. ASSUME NEW f \in Fields, NEW v \in Values, Set!OtherPatches(f, v) PROVE RowsAreReal'
  BY <1>0, <1>3, <1>4 DEF Set!OtherPatches
<1>5. ASSUME NEW s \in Forms, Set!ServerPatches(s) PROVE RowsAreReal'
  BY <1>0, <1>3, <1>5 DEF Set!ServerPatches
<1>6. ASSUME NEW p \in Protocols, NEW e \in Endpoints, Set!OtherPuts(p, e) PROVE RowsAreReal'
  <2> DEFINE row == [gen |-> stored.service.gen + 1, protocol |-> p,
                     saved |-> [stored.service.saved EXCEPT ![p] = [endpoint |-> e, keyed |-> TRUE]]]
  <2>1. stored'.service = row /\ UNCHANGED service
    BY <1>0, <1>6 DEF Set!OtherPuts
  <2>2. row.gen = stored.service.gen + 1 /\ row.saved[row.protocol].endpoint \in Endpoints /\ stored.service.gen \in Nat
    BY <1>0 DEF Config
  <2> HIDE DEF row
  <2>3. ASSUME NEW r \in Config, Real(r) PROVE Real(r)'
    <3>1. r.gen \in Nat
      BY DEF Config
    <3> QED BY <2>1, <2>2, <2>3, <3>1 DEF Real
  <2>4. Real(service.base)' /\ (service.latest # Set!NoCall => Real(service.latest.row)')
        /\ (service.call.at = "accepted" => Real(service.call.row)')
    BY <1>0, <2>1, <2>3 DEF RowsAreReal, Real
  <2>5. Real(stored.service)'
    BY <2>1, <2>2 DEF Real
  <2> QED BY <2>1, <2>4, <2>5 DEF RowsAreReal
<1>7. ASSUME NEW e \in Endpoints, Set!TypeEndpoint(e) PROVE RowsAreReal'
  BY <1>0, <1>1, <1>7 DEF Set!TypeEndpoint, Set!Addressed, ServiceRecord
<1>8. CASE Set!TypeKey
  BY <1>0, <1>1, <1>8 DEF Set!TypeKey, ServiceRecord
<1>9. CASE Set!TickClear
  BY <1>0, <1>1, <1>9 DEF Set!TickClear, ServiceRecord
<1>10. ASSUME NEW p \in Protocols, Set!SwitchProtocol(p) PROVE RowsAreReal'
  BY <1>0, <1>1, <1>10 DEF Set!SwitchProtocol, Set!Switched, Set!Types, Set!NoCall, ServiceRecord
<1>11. ASSUME Set!SendService, UNCHANGED stored PROVE RowsAreReal'
  <2>1. /\ service'.base = service.base /\ service'.latest = service.latest /\ service'.protocol = service.protocol
        /\ service'.call.at = "sent" /\ service'.call.gen = service.base.gen /\ service'.call.protocol = service.protocol
    BY <1>0, <1>11 DEF Set!SendService, ServiceRecord
  <2> QED BY <1>11, <2>1 DEF RowsAreReal, Real
<1>12. CASE Set!ServerPuts
  <2> DEFINE call == service.call
             had == stored.service.saved[call.protocol]
             row == [gen |-> stored.service.gen + 1, protocol |-> call.protocol,
                     saved |-> [stored.service.saved EXCEPT ![call.protocol] =
                       [endpoint |-> call.endpoint,
                        keyed |-> call.key # Set!NoneTyped \/ (had.keyed /\ had.endpoint = call.endpoint /\ ~call.clear)]]]
  <2>1. \/ service' = [service EXCEPT !.call = [at |-> "refused"]] /\ UNCHANGED stored
        \/ /\ service' = [service EXCEPT !.call = [at |-> "accepted", row |-> row]]
           /\ call.gen = stored.service.gen /\ stored' = [stored EXCEPT !.service = row]
    BY <1>12 DEF Set!ServerPuts
  <2>2. call \in PutCall /\ call.gen = service.base.gen /\ call.protocol = service.protocol
    BY <1>0, <1>12 DEF Set!ServerPuts, RowsAreReal
  <2>3. CASE service' = [service EXCEPT !.call = [at |-> "refused"]] /\ UNCHANGED stored
    BY <1>0, <1>1, <2>3 DEF ServiceRecord
  <2>4. ASSUME service' = [service EXCEPT !.call = [at |-> "accepted", row |-> row]],
               call.gen = stored.service.gen, stored' = [stored EXCEPT !.service = row]
        PROVE  RowsAreReal'
    <3>1. service.base = stored.service
      BY <2>2, <2>4 DEF RowsAreReal, Real
    <3>2. /\ row.gen = stored.service.gen + 1 /\ row.protocol = service.protocol /\ stored.service.gen \in Nat
          /\ row.saved[row.protocol].endpoint \in Endpoints
          /\ \A p \in Protocols \ {service.protocol} : row.saved[p] = stored.service.saved[p]
      BY <1>0, <2>2 DEF Config, PutCall
    <3>3. /\ service'.base = service.base /\ service'.latest = service.latest /\ service'.protocol = service.protocol
          /\ service'.call = [at |-> "accepted", row |-> row] /\ stored'.service = row
      BY <1>0, <2>4 DEF ServiceRecord
    <3> HIDE DEF row
    <3>4. ASSUME NEW r \in Config, Real(r) PROVE Real(r)'
      <4>1. r.gen \in Nat
        BY DEF Config
      <4> QED BY <3>2, <3>3, <3>4, <4>1 DEF Real
    <3>5. Real(service.base)' /\ (service.latest # Set!NoCall => Real(service.latest.row)')
      BY <1>0, <3>4, <3>3 DEF RowsAreReal, Real
    <3>6. Real(stored.service)'
      BY <3>2, <3>3 DEF Real
    <3>7. Real(service.call.row)'
      BY <3>2, <3>3 DEF Real
    <3> QED BY <3>1, <3>2, <3>3, <3>5, <3>6, <3>7 DEF RowsAreReal
  <2> QED BY <2>1, <2>3, <2>4
<1>13. ASSUME NEW row \in Config, Real(row), NEW drafts, service' = Set!Applied(row, drafts), UNCHANGED stored PROVE RowsAreReal'
  <2>1. service'.base = row /\ service'.latest = Set!NoCall /\ service'.call = Set!NoCall
    BY <1>0, <1>13 DEF Set!Applied, ServiceRecord
  <2> QED BY <1>13, <2>1 DEF RowsAreReal, Real, Set!NoCall
<1>14. CASE Set!ServiceSaved
  BY <1>0, <1>13, <1>14 DEF Set!ServiceSaved, RowsAreReal
<1>15. CASE Set!ServiceFailed
  BY <1>0, <1>1, <1>15 DEF Set!ServiceFailed, ServiceRecord, Set!NoCall
<1>16. CASE Set!ReadLatest
  BY <1>0, <1>1, <1>16 DEF Set!ReadLatest, ServiceRecord
<1>17. ASSUME NEW works \in BOOLEAN, Set!LatestArrives(works) PROVE RowsAreReal'
  <2>1. service'.base = service.base /\ service'.call = Set!NoCall /\ UNCHANGED stored
        /\ (service'.latest = service.latest \/ service'.latest = [at |-> "read", row |-> stored.service])
    BY <1>0, <1>17 DEF Set!LatestArrives, ServiceRecord
  <2> QED BY <2>1 DEF RowsAreReal, Real, Set!NoCall
<1>18. ASSUME NEW keep \in BOOLEAN, Set!UseLatest(keep) PROVE RowsAreReal'
  <2> DEFINE row == service.latest.row
  <2>1. row \in Config /\ Real(row) /\ UNCHANGED stored /\ service.call = Set!NoCall
    BY <1>0, <1>18 DEF Set!UseLatest, RowsAreReal
  <2>2. service' = IF keep THEN Set!AppliedKeeping(row) ELSE Set!Applied(row, [p \in Protocols |-> Set!NoDraft])
    BY <1>18 DEF Set!UseLatest
  <2> HIDE DEF row
  <2>3. CASE keep
    <3>1. service'.base = row /\ service'.latest = Set!NoCall /\ service'.call = Set!NoCall
      BY <1>0, <2>1, <2>2, <2>3 DEF Set!AppliedKeeping, ServiceRecord
    <3> QED BY <2>1, <3>1 DEF RowsAreReal, Real, Set!NoCall
  <2> QED BY <1>13, <2>1, <2>2, <2>3
<1>19. CASE Set!DiscardAll
  <2>1. service' = service \/ service' = Set!Applied(service.base, [p \in Protocols |-> Set!NoDraft])
    BY <1>19 DEF Set!DiscardAll
  <2>2. UNCHANGED stored /\ Real(service.base)
    BY <1>19 DEF Set!DiscardAll, RowsAreReal
  <2> QED BY <1>0, <1>2, <1>13, <2>1, <2>2
<1>20. CASE Set!SaveService
  BY <1>11, <1>20 DEF Set!SaveService
<1>21. CASE Set!NextForm
  BY <1>2, <1>11, <1>21, NextFormSteps
<1>30. ASSUME Set!Next PROVE RowsAreReal'
  BY <1>2, <1>4, <1>5, <1>6, <1>7, <1>8, <1>9, <1>10, <1>12, <1>14, <1>15, <1>16, <1>17, <1>18, <1>19, <1>20, <1>21, <1>30
     DEF Set!Next, Set!EditField, Set!SaveForm, Set!FormSaved, Set!FormFailed,
         Set!RefreshForm, Set!PreferencesRead, Set!PreferencesArrive, Set!RequestLeave, Set!Stay, Set!SaveAll
<1> QED BY <1>2, <1>30 DEF settingsVars

LEMMA KeysStayFit ==
  ServicesAssumption /\ SettingsTypes /\ RowsAreReal /\ KeysFit /\ (Set!Next \/ UNCHANGED settingsVars) => KeysFit'
<1> SUFFICES ASSUME ServicesAssumption, SettingsTypes, RowsAreReal, KeysFit, Set!Next \/ UNCHANGED settingsVars PROVE KeysFit'
  OBVIOUS
<1> DEFINE Fit(p, d) == d # Set!NoDraft =>
             d.endpoint \in Endpoints /\ (d.key # Set!NoneTyped => d.key = <<p, d.endpoint>>)
           FormFits == service'.key # Set!NoneTyped => service'.key = <<service'.protocol, service'.endpoint>>
           DraftsFit == \A p \in Protocols : Fit(p, service'.drafts[p])
           CallFits == service'.call.at = "sent" /\ service'.call.key # Set!NoneTyped =>
                         service'.call.key = <<service'.call.protocol, service'.call.endpoint>>
<1>0. /\ service \in ServiceRecord
      /\ service.key # Set!NoneTyped => service.key = <<service.protocol, service.endpoint>>
      /\ \A p \in Protocols : Fit(p, service.drafts[p])
      /\ service.call.at = "sent" /\ service.call.key # Set!NoneTyped =>
           service.call.key = <<service.call.protocol, service.call.endpoint>>
  BY DEF SettingsTypes, ServiceRecord, KeysFit
<1>1. FormFits /\ DraftsFit /\ CallFits => KeysFit'
  BY DEF KeysFit
<1>2. CASE UNCHANGED service
  BY <1>0, <1>1, <1>2
<1>3. /\ service'.key = Set!NoneTyped => FormFits
      /\ service'.drafts = service.drafts => DraftsFit
      /\ service'.call = service.call \/ service'.call.at # "sent" => CallFits
  BY <1>0
<1>4. Set!NoDraft.key = Set!NoneTyped /\ Set!NoCall.at # "sent" /\ \A p : Fit(p, Set!NoDraft)
  BY DEF Set!NoDraft, Set!NoCall
<1>5. ASSUME NEW p \in Protocols, NEW d, d \in [endpoint : Address, key : TypedKey, clear : BOOLEAN],
             d.key = Set!NoneTyped, d.endpoint \in Endpoints
      PROVE  Fit(p, d)
  BY <1>5
<1>6. \A p \in Protocols : Fit(p, Set!WithoutKeys(service.drafts)[p])
  <2> SUFFICES ASSUME NEW p \in Protocols PROVE Fit(p, Set!WithoutKeys(service.drafts)[p])
    OBVIOUS
  <2>1. service.drafts[p] \in [endpoint : Address, key : TypedKey, clear : BOOLEAN] /\ Fit(p, service.drafts[p])
    BY <1>0 DEF ServiceRecord
  <2>2. Set!WithoutKeys(service.drafts)[p] = [service.drafts[p] EXCEPT !.key = Set!NoneTyped]
    BY DEF Set!WithoutKeys
  <2>3. CASE service.drafts[p] = Set!NoDraft
    BY <1>4, <2>2, <2>3 DEF Set!NoDraft
  <2>4. CASE service.drafts[p] # Set!NoDraft
    BY <2>1, <2>2, <2>4
  <2> QED BY <2>3, <2>4
<1> HIDE DEF Fit, FormFits, DraftsFit, CallFits
<1>7. ASSUME NEW e \in Endpoints, Set!TypeEndpoint(e) PROVE KeysFit'
  <2>1. service'.key = Set!NoneTyped /\ service'.drafts = service.drafts /\ service'.call = service.call
    BY <1>0, <1>7 DEF Set!TypeEndpoint, Set!Addressed, ServiceRecord
  <2> QED BY <1>1, <1>3, <2>1
<1>8. CASE Set!TypeKey
  <2>1. service'.key = <<service.protocol, service.endpoint>> /\ service'.drafts = service.drafts /\ service'.call = service.call
        /\ service'.protocol = service.protocol /\ service'.endpoint = service.endpoint
    BY <1>0, <1>8 DEF Set!TypeKey, ServiceRecord
  <2> QED BY <1>1, <1>3, <2>1 DEF FormFits
<1>9. CASE Set!TickClear
  <2>1. service'.key = Set!NoneTyped /\ service'.drafts = service.drafts /\ service'.call = service.call
    BY <1>0, <1>9 DEF Set!TickClear, ServiceRecord
  <2> QED BY <1>1, <1>3, <2>1
<1>10. ASSUME NEW p \in Protocols, Set!SwitchProtocol(p) PROVE KeysFit'
  <2> DEFINE d == service.drafts[p]
             e == IF d = Set!NoDraft THEN Set!Default(p) ELSE d.endpoint
             old == [endpoint |-> service.endpoint, key |-> service.key, clear |-> service.clear]
  <2>1. service' = [service EXCEPT !.drafts[service.protocol] = old, !.protocol = p,
                      !.endpoint = e, !.key = d.key, !.clear = d.clear]
    BY <1>10 DEF Set!SwitchProtocol, Set!Switched
  <2>2. service'.drafts = [service.drafts EXCEPT ![service.protocol] = old] /\ service'.protocol = p
        /\ service'.endpoint = e /\ service'.key = d.key /\ service'.call = service.call
    BY <1>0, <2>1 DEF ServiceRecord
  <2>3. Fit(service.protocol, old)
    BY <1>0 DEF Fit, ServiceRecord
  <2>4. DraftsFit
    <3> HIDE DEF old
    <3> QED BY <1>0, <2>2, <2>3 DEF DraftsFit, ServiceRecord
  <2>5. FormFits
    <3>1. CASE d = Set!NoDraft
      BY <1>4, <2>2, <3>1 DEF FormFits
    <3>2. CASE d # Set!NoDraft
      BY <1>0, <2>2, <3>2 DEF FormFits, Fit
    <3> QED BY <3>1, <3>2
  <2> QED BY <1>1, <1>3, <2>2, <2>4, <2>5
<1>11. ASSUME Set!SendService PROVE KeysFit'
  <2> DEFINE call == [at |-> "sent", gen |-> service.base.gen, protocol |-> service.protocol,
                      endpoint |-> service.endpoint, key |-> service.key, clear |-> service.clear]
             kept == [endpoint |-> service.endpoint, key |-> Set!NoneTyped, clear |-> service.clear]
  <2>1. service'.call = call /\ service'.key = Set!NoneTyped /\ service'.drafts = [service.drafts EXCEPT ![service.protocol] = kept]
    BY <1>0, <1>11 DEF Set!SendService, ServiceRecord
  <2>2. CallFits
    BY <1>0, <2>1 DEF CallFits
  <2>3. Fit(service.protocol, kept)
    BY <1>0 DEF Fit, ServiceRecord
  <2>4. DraftsFit
    <3> HIDE DEF kept
    <3> QED BY <1>0, <2>1, <2>3 DEF DraftsFit, ServiceRecord
  <2> QED BY <1>1, <1>3, <2>1, <2>2, <2>4
<1>12. CASE Set!ServerPuts
  <2>1. \E c : service' = [service EXCEPT !.call = c] /\ c.at # "sent"
    <3>1. \/ service' = [service EXCEPT !.call = [at |-> "refused"]]
          \/ \E r : service' = [service EXCEPT !.call = [at |-> "accepted", row |-> r]]
      BY <1>12 DEF Set!ServerPuts
    <3>2. \A r : [at |-> "accepted", row |-> r].at # "sent"
      OBVIOUS
    <3>3. [at |-> "refused"].at # "sent"
      OBVIOUS
    <3>4. CASE service' = [service EXCEPT !.call = [at |-> "refused"]]
      BY <3>3, <3>4
    <3>5. ASSUME NEW r, service' = [service EXCEPT !.call = [at |-> "accepted", row |-> r]]
          PROVE  \E c : service' = [service EXCEPT !.call = c] /\ c.at # "sent"
      <4> DEFINE c == [at |-> "accepted", row |-> r]
      <4>1. service' = [service EXCEPT !.call = c] /\ c.at # "sent"
        BY <3>2, <3>5
      <4> QED BY <4>1
    <3> QED BY <3>1, <3>4, <3>5
  <2>2. service'.call.at # "sent" /\ service'.drafts = service.drafts /\ service'.key = service.key
        /\ service'.protocol = service.protocol /\ service'.endpoint = service.endpoint
    BY <1>0, <2>1 DEF ServiceRecord
  <2> QED BY <1>0, <1>1, <1>3, <2>2 DEF FormFits
<1>13. ASSUME NEW row, NEW drafts, service' = Set!Applied(row, drafts), \A p \in Protocols : Fit(p, drafts[p]) PROVE KeysFit'
  <2>1. service'.key = Set!NoneTyped /\ service'.call = Set!NoCall /\ service'.drafts = drafts
    BY <1>0, <1>13 DEF Set!Applied, ServiceRecord
  <2> QED BY <1>1, <1>3, <1>4, <1>13, <2>1 DEF DraftsFit
<1>14. CASE Set!ServiceSaved
  <2> DEFINE drafts == [service.drafts EXCEPT ![service.protocol] = Set!NoDraft]
  <2>1. \A p \in Protocols : Fit(p, drafts[p])
    BY <1>0, <1>4 DEF ServiceRecord
  <2>2. service' = Set!Applied(service.call.row, drafts)
    BY <1>14 DEF Set!ServiceSaved
  <2> HIDE DEF drafts
  <2> QED BY <1>13, <2>1, <2>2
<1>15. CASE Set!ServiceFailed
  <2>1. service'.call = Set!NoCall /\ service'.drafts = service.drafts /\ service'.key = service.key
        /\ service'.protocol = service.protocol /\ service'.endpoint = service.endpoint
    BY <1>0, <1>15 DEF Set!ServiceFailed, ServiceRecord
  <2> QED BY <1>0, <1>1, <1>3, <1>4, <2>1 DEF FormFits
<1>16. CASE Set!ReadLatest
  <2>1. service'.call.at # "sent" /\ service'.drafts = Set!WithoutKeys(service.drafts) /\ service'.key = Set!NoneTyped
    BY <1>0, <1>16 DEF Set!ReadLatest, ServiceRecord
  <2> QED BY <1>1, <1>3, <1>6, <2>1 DEF DraftsFit
<1>17. ASSUME NEW works \in BOOLEAN, Set!LatestArrives(works) PROVE KeysFit'
  <2>1. service'.call = Set!NoCall /\ service'.drafts = service.drafts /\ service'.key = service.key
        /\ service'.protocol = service.protocol /\ service'.endpoint = service.endpoint
    BY <1>0, <1>17 DEF Set!LatestArrives, ServiceRecord
  <2> QED BY <1>0, <1>1, <1>3, <1>4, <2>1 DEF FormFits
<1>18. \A p \in Protocols : Fit(p, [q \in Protocols |-> Set!NoDraft][p])
  BY <1>4
<1>19. ASSUME NEW keep \in BOOLEAN, Set!UseLatest(keep) PROVE KeysFit'
  <2> DEFINE row == service.latest.row
  <2>1. service' = IF keep THEN Set!AppliedKeeping(row) ELSE Set!Applied(row, [p \in Protocols |-> Set!NoDraft])
    BY <1>19 DEF Set!UseLatest
  <2> HIDE DEF row
  <2>2. CASE keep
    <3>1. service'.key = Set!NoneTyped /\ service'.call = service.call /\ service'.drafts = Set!WithoutKeys(service.drafts)
      BY <1>0, <2>1, <2>2 DEF Set!AppliedKeeping, ServiceRecord
    <3> QED BY <1>1, <1>3, <1>6, <3>1 DEF DraftsFit
  <2> QED BY <1>13, <1>18, <2>1, <2>2
<1>20. CASE Set!DiscardAll
  BY <1>2, <1>13, <1>18, <1>20 DEF Set!DiscardAll
<1>21. CASE Set!SaveService
  BY <1>11, <1>21 DEF Set!SaveService
<1>22. CASE Set!NextForm
  BY <1>2, <1>11, <1>22, NextFormSteps
<1>30. ASSUME Set!Next PROVE KeysFit'
  BY <1>2, <1>7, <1>8, <1>9, <1>10, <1>12, <1>14, <1>15, <1>16, <1>17, <1>19, <1>20, <1>21, <1>22, <1>30
     DEF Set!Next, Set!EditField, Set!OtherPatches, Set!SaveForm, Set!ServerPatches, Set!FormSaved, Set!FormFailed,
         Set!RefreshForm, Set!PreferencesRead, Set!PreferencesArrive, Set!OtherPuts, Set!RequestLeave, Set!Stay, Set!SaveAll
<1> QED BY <1>2, <1>30 DEF settingsVars

--------------------------------------------------------------------------------
(* What was typed stays an input.                                          *)

LEMMA FieldsStayKept ==
  ServicesAssumption /\ SettingsTypes /\ FieldsKept /\ (Set!Next \/ UNCHANGED settingsVars) => FieldsKept'
<1> SUFFICES ASSUME ServicesAssumption, SettingsTypes, FieldsKept, Set!Next \/ UNCHANGED settingsVars PROVE FieldsKept'
  OBVIOUS
<1>0. /\ prefs = [shown |-> prefs.shown, latest |-> prefs.latest, edits |-> prefs.edits, call |-> prefs.call,
                  failed |-> prefs.failed, read |-> prefs.read]
      /\ prefs.edits \in [Fields -> Values \cup {Set!Unset}]
      /\ inputs \in [field : [Fields -> Values \cup {Set!Unset}], endpoint : [Protocols -> Address], acts : 0 .. MaxActs]
  BY DEF SettingsTypes
<1>1. ASSUME prefs'.edits = prefs.edits, prefs'.shown = prefs.shown, inputs'.field = inputs.field PROVE FieldsKept'
  BY <1>1 DEF FieldsKept
<1>2. CASE UNCHANGED <<prefs, inputs>>
  BY <1>1, <1>2
<1>3. ASSUME UNCHANGED prefs, inputs'.field = inputs.field PROVE FieldsKept'
  BY <1>1, <1>3
<1>4. ASSUME NEW f \in Fields, NEW v \in Values, Set!EditField(f, v) PROVE FieldsKept'
  <2>1. /\ prefs'.shown = prefs.shown /\ prefs'.edits = [prefs.edits EXCEPT ![f] = v]
        /\ inputs'.field = [inputs.field EXCEPT ![f] = IF v = prefs.shown.value[f] THEN Set!Unset ELSE v]
    BY <1>0, <1>4 DEF Set!EditField
  <2> QED BY <1>0, <2>1 DEF FieldsKept
<1>5. ASSUME NEW s, Set!SendForm(s), UNCHANGED inputs PROVE FieldsKept'
  BY <1>0, <1>1, <1>5 DEF Set!SendForm
<1>6. ASSUME NEW s \in Forms, Set!ServerPatches(s) PROVE FieldsKept'
  <2>1. \E c : prefs' = [prefs EXCEPT !.call[s] = c]
    BY <1>6 DEF Set!ServerPatches
  <2> QED BY <1>0, <1>1, <1>6, <2>1 DEF Set!ServerPatches
<1>7. ASSUME NEW s \in Forms, Set!FormSaved(s) PROVE FieldsKept'
  <2> DEFINE row == prefs.call[s].row
             edits == [f \in Fields |-> IF f \in Set!Own(s) THEN Set!Unset ELSE prefs.edits[f]]
             field == [f \in Fields |-> IF f \in Set!Own(s) THEN Set!Unset ELSE inputs.field[f]]
  <2>1. prefs' = [[prefs EXCEPT !.shown = row, !.latest = IF row.gen >= @.gen THEN row ELSE @]
                   EXCEPT !.latest = row, !.call[s] = Set!NoCall, !.edits = edits]
    BY <1>0, <1>7 DEF Set!FormSaved, Set!Rendered
  <2>2. prefs'.shown = row /\ prefs'.edits = edits
    <3> HIDE DEF row, edits
    <3> QED BY <1>0, <2>1
  <2>3. inputs'.field = Set!Still(field, row)
    BY <1>0, <1>7 DEF Set!FormSaved
  <2> QED BY <1>0, <2>2, <2>3 DEF FieldsKept, Set!Still
<1>8. ASSUME NEW s \in Forms, Set!FormFailed(s) PROVE FieldsKept'
  BY <1>0, <1>1, <1>8 DEF Set!FormFailed
<1>9. ASSUME NEW s \in Forms, Set!RefreshForm(s) PROVE FieldsKept'
  BY <1>0, <1>1, <1>9 DEF Set!RefreshForm
<1>10. CASE Set!PreferencesRead
  BY <1>0, <1>1, <1>10 DEF Set!PreferencesRead
<1>11. CASE Set!PreferencesArrive
  <2>1. prefs'.shown = prefs.read.row /\ prefs'.edits = prefs.edits /\ inputs'.field = Set!Still(inputs.field, prefs.read.row)
    BY <1>0, <1>11 DEF Set!PreferencesArrive, Set!Rendered
  <2> QED BY <1>0, <2>1 DEF FieldsKept, Set!Still
<1>12. CASE Set!DiscardAll
  <2>1. inputs'.field = [f \in Fields |-> Set!Unset]
    BY <1>0, <1>12 DEF Set!DiscardAll
  <2> QED BY <2>1 DEF FieldsKept
<1>14. ASSUME NEW s \in Forms, Set!SaveForm(s) PROVE FieldsKept'
  BY <1>5, <1>14 DEF Set!SaveForm
<1>15. CASE Set!NextForm
  BY <1>2, <1>5, <1>15, NextFormSteps
<1>16. CASE Set!Types /\ UNCHANGED prefs
  BY <1>0, <1>3, <1>16 DEF Set!Types
<1>17. ASSUME NEW e \in Endpoints, Set!TypeEndpoint(e) PROVE FieldsKept'
  BY <1>0, <1>3, <1>17 DEF Set!TypeEndpoint
<1>18. CASE Set!ServiceSaved
  BY <1>0, <1>3, <1>18 DEF Set!ServiceSaved
<1>19. ASSUME NEW keep \in BOOLEAN, Set!UseLatest(keep) PROVE FieldsKept'
  BY <1>0, <1>3, <1>19 DEF Set!UseLatest
<1>30. ASSUME Set!Next PROVE FieldsKept'
  BY <1>2, <1>4, <1>6, <1>7, <1>8, <1>9, <1>10, <1>11, <1>12, <1>14, <1>15, <1>16, <1>17, <1>18, <1>19, <1>30
     DEF Set!Next, Set!OtherPatches, Set!TypeKey, Set!TickClear, Set!SwitchProtocol, Set!SaveService, Set!ServerPuts,
         Set!ServiceFailed, Set!ReadLatest, Set!LatestArrives,
         Set!OtherPuts, Set!RequestLeave, Set!Stay, Set!SaveAll
<1> QED BY <1>2, <1>30 DEF settingsVars

LEMMA EndpointsStayKept ==
  ServicesAssumption /\ SettingsTypes /\ RowsAreReal /\ EndpointsKept /\ (Set!Next \/ UNCHANGED settingsVars) => EndpointsKept'
<1> SUFFICES ASSUME ServicesAssumption, SettingsTypes, RowsAreReal, EndpointsKept, Set!Next \/ UNCHANGED settingsVars PROVE EndpointsKept'
  OBVIOUS
<1> DEFINE Kept(p) == inputs'.endpoint[p] # Set!Unset =>
             /\ IF p = service'.protocol THEN service'.endpoint = inputs'.endpoint[p]
                ELSE service'.drafts[p].endpoint = inputs'.endpoint[p]
             /\ inputs'.endpoint[p] # Set!DefaultIn(service'.base, p)
<1>0. /\ service \in ServiceRecord /\ service.base \in Config
      /\ inputs \in [field : [Fields -> Values \cup {Set!Unset}], endpoint : [Protocols -> Address], acts : 0 .. MaxActs]
      /\ service.call.at = "accepted" => service.call.row \in Config
  BY CallsTyped DEF SettingsTypes, ServiceRecord
<1>1. (\A p \in Protocols : Kept(p)) => EndpointsKept'
  BY DEF EndpointsKept, Set!ServiceInput, Set!Default, Set!DefaultIn
<1>2. ASSUME NEW p \in Protocols, inputs.endpoint[p] # Set!Unset
      PROVE  /\ IF p = service.protocol THEN service.endpoint = inputs.endpoint[p]
                ELSE service.drafts[p].endpoint = inputs.endpoint[p]
             /\ inputs.endpoint[p] # Set!DefaultIn(service.base, p)
  BY <1>2 DEF EndpointsKept, Set!ServiceInput, Set!Default
<1>3. ASSUME inputs'.endpoint = inputs.endpoint, service'.base = service.base, service'.protocol = service.protocol,
             service'.endpoint = service.endpoint,
             \A p \in Protocols \ {service.protocol} : service'.drafts[p].endpoint = service.drafts[p].endpoint
      PROVE  EndpointsKept'
  <2> SUFFICES ASSUME NEW p \in Protocols PROVE Kept(p)
    BY <1>1
  <2> QED BY <1>2, <1>3
<1>4. CASE UNCHANGED <<service, inputs>>
  BY <1>3, <1>4
<1>5. ASSUME UNCHANGED service, inputs'.endpoint = inputs.endpoint PROVE EndpointsKept'
  BY <1>3, <1>5
<1>6. CASE Set!Acts /\ inputs' = [inputs EXCEPT !.acts = @ + 1] /\ UNCHANGED service
  BY <1>0, <1>5, <1>6
<1>7. ASSUME NEW e \in Endpoints, Set!TypeEndpoint(e) PROVE EndpointsKept'
  <2>1. /\ service'.base = service.base /\ service'.protocol = service.protocol /\ service'.endpoint = e
        /\ service'.drafts = service.drafts /\ service.protocol \in Protocols
        /\ inputs'.endpoint = [inputs.endpoint EXCEPT ![service.protocol] =
                                 IF e = Set!DefaultIn(service.base, service.protocol) THEN Set!Unset ELSE e]
    BY <1>0, <1>7 DEF Set!TypeEndpoint, Set!Addressed, Set!Default, ServiceRecord
  <2> SUFFICES ASSUME NEW p \in Protocols PROVE Kept(p)
    BY <1>1
  <2>2. inputs.endpoint \in [Protocols -> Address]
    BY <1>0
  <2> QED BY <1>2, <2>1, <2>2
<1>8. CASE Set!TypeKey
  BY <1>0, <1>3, <1>8 DEF Set!TypeKey, Set!Types, ServiceRecord
<1>9. CASE Set!TickClear
  BY <1>0, <1>3, <1>9 DEF Set!TickClear, Set!Types, ServiceRecord
<1>10. ASSUME NEW q \in Protocols, Set!SwitchProtocol(q) PROVE EndpointsKept'
  <2> DEFINE d == service.drafts[q]
             e == IF d = Set!NoDraft THEN Set!Default(q) ELSE d.endpoint
             old == [endpoint |-> service.endpoint, key |-> service.key, clear |-> service.clear]
  <2>1. service' = [service EXCEPT !.drafts[service.protocol] = old, !.protocol = q,
                      !.endpoint = e, !.key = d.key, !.clear = d.clear]
    BY <1>10 DEF Set!SwitchProtocol, Set!Switched
  <2>2. /\ service'.base = service.base /\ service'.protocol = q /\ service'.endpoint = e
        /\ service'.drafts = [service.drafts EXCEPT ![service.protocol] = old]
        /\ inputs'.endpoint = inputs.endpoint /\ q # service.protocol
    BY <1>0, <1>10, <2>1 DEF Set!SwitchProtocol, Set!Types, ServiceRecord
  <2> SUFFICES ASSUME NEW p \in Protocols, inputs.endpoint[p] # Set!Unset PROVE Kept(p)
    BY <1>1, <2>2
  <2>3. CASE p = q
    <3>1. d.endpoint = inputs.endpoint[p]
      BY <1>2, <2>2, <2>3
    <3>2. d # Set!NoDraft
      BY <3>1 DEF Set!NoDraft
    <3> QED BY <1>2, <2>2, <2>3, <3>1, <3>2
  <2>4. CASE p = service.protocol
    <3>1. service'.drafts[p] = old /\ old.endpoint = service.endpoint
      BY <1>0, <2>2, <2>4 DEF ServiceRecord
    <3> HIDE DEF old, e, d
    <3> QED BY <1>2, <2>2, <2>4, <3>1
  <2>5. CASE p # q /\ p # service.protocol
    <3>1. service'.drafts[p] = service.drafts[p]
      BY <1>0, <2>2, <2>5 DEF ServiceRecord
    <3> HIDE DEF old, e, d
    <3> QED BY <1>2, <2>2, <2>5, <3>1
  <2> QED BY <2>3, <2>4, <2>5
<1>11. ASSUME Set!SendService, UNCHANGED inputs PROVE EndpointsKept'
  <2>1. /\ service'.base = service.base /\ service'.protocol = service.protocol /\ service'.endpoint = service.endpoint
        /\ \A p \in Protocols \ {service.protocol} : service'.drafts[p].endpoint = service.drafts[p].endpoint
    BY <1>0, <1>11 DEF Set!SendService, ServiceRecord
  <2> QED BY <1>3, <1>11, <2>1
<1>12. ASSUME UNCHANGED inputs, service'.base = service.base, service'.protocol = service.protocol,
             service'.endpoint = service.endpoint, service'.drafts = service.drafts
       PROVE EndpointsKept'
  BY <1>3, <1>12
<1>13. CASE Set!ServerPuts
  <2>1. \E c : service' = [service EXCEPT !.call = c]
    BY <1>13 DEF Set!ServerPuts
  <2>2. UNCHANGED inputs
    BY <1>13 DEF Set!ServerPuts
  <2> QED BY <1>0, <1>12, <2>1, <2>2 DEF ServiceRecord
<1>14. CASE Set!ServiceSaved
  <2> DEFINE row == service.call.row
             drafts == [service.drafts EXCEPT ![service.protocol] = Set!NoDraft]
  <2>1. /\ row \in Config /\ row.protocol = service.protocol
        /\ \A p \in Protocols \ {service.protocol} : row.saved[p] = service.base.saved[p]
    BY <1>0, <1>14 DEF Set!ServiceSaved, RowsAreReal
  <2>2. service' = Set!Applied(row, drafts) /\ inputs' = [inputs EXCEPT !.endpoint[service.protocol] = Set!Unset]
    BY <1>14 DEF Set!ServiceSaved
  <2>3. service'.base = row /\ service'.protocol = service.protocol /\ service'.drafts = drafts
        /\ inputs'.endpoint = [inputs.endpoint EXCEPT ![service.protocol] = Set!Unset]
    <3> HIDE DEF row, drafts
    <3> QED BY <1>0, <2>1, <2>2 DEF Set!Applied, ServiceRecord
  <2> SUFFICES ASSUME NEW p \in Protocols, inputs'.endpoint[p] # Set!Unset PROVE Kept(p)
    BY <1>1
  <2>4. p # service.protocol
    BY <1>0, <2>3
  <2>5. drafts[p] = service.drafts[p] /\ inputs'.endpoint[p] = inputs.endpoint[p]
    BY <1>0, <2>3, <2>4 DEF ServiceRecord
  <2>6. Set!DefaultIn(row, p) = Set!DefaultIn(service.base, p)
    BY <2>1, <2>4 DEF Set!DefaultIn
  <2> HIDE DEF row, drafts
  <2> QED BY <1>2, <2>3, <2>4, <2>5, <2>6
<1>15. CASE Set!ServiceFailed
  BY <1>0, <1>12, <1>15 DEF Set!ServiceFailed, ServiceRecord
<1>16. CASE Set!ReadLatest
  <2>1. service' = [service EXCEPT !.key = Set!NoneTyped, !.drafts = Set!WithoutKeys(service.drafts), !.call = [at |-> "reading"]]
    BY <1>0, <1>16 DEF Set!ReadLatest
  <2>2. \A p \in Protocols : Set!WithoutKeys(service.drafts)[p].endpoint = service.drafts[p].endpoint
    BY <1>0 DEF Set!WithoutKeys, ServiceRecord
  <2>3. inputs'.endpoint = inputs.endpoint
    BY <1>0, <1>16 DEF Set!ReadLatest, Set!Types
  <2> QED BY <1>0, <1>3, <2>1, <2>2, <2>3 DEF ServiceRecord
<1>17. ASSUME NEW works \in BOOLEAN, Set!LatestArrives(works) PROVE EndpointsKept'
  BY <1>0, <1>12, <1>17 DEF Set!LatestArrives, ServiceRecord
<1>18. ASSUME NEW keep \in BOOLEAN, Set!UseLatest(keep) PROVE EndpointsKept'
  <2> DEFINE row == service.latest.row
  <2>1. service' = IF keep THEN Set!AppliedKeeping(row) ELSE Set!Applied(row, [p \in Protocols |-> Set!NoDraft])
    BY <1>18 DEF Set!UseLatest
  <2>2. inputs'.endpoint = [p \in Protocols |-> IF keep /\ inputs.endpoint[p] # Set!DefaultIn(row, p) THEN inputs.endpoint[p] ELSE Set!Unset]
    BY <1>0, <1>18 DEF Set!UseLatest
  <2> HIDE DEF row
  <2> SUFFICES ASSUME NEW p \in Protocols, inputs'.endpoint[p] # Set!Unset PROVE Kept(p)
    BY <1>1
  <2>3. keep /\ inputs'.endpoint[p] = inputs.endpoint[p] /\ inputs.endpoint[p] # Set!DefaultIn(row, p)
    BY <2>2
  <2>4. service'.base = row /\ service'.protocol = service.protocol /\ service'.endpoint = service.endpoint
        /\ service'.drafts = Set!WithoutKeys(service.drafts)
    BY <1>0, <2>1, <2>3 DEF Set!AppliedKeeping, ServiceRecord
  <2>5. Set!WithoutKeys(service.drafts)[p].endpoint = service.drafts[p].endpoint
    BY <1>0 DEF Set!WithoutKeys, ServiceRecord
  <2> QED BY <1>2, <2>3, <2>4, <2>5
<1>19. CASE Set!DiscardAll
  <2>1. inputs'.endpoint = [p \in Protocols |-> Set!Unset]
    BY <1>0, <1>19 DEF Set!DiscardAll
  <2> QED BY <1>1, <2>1
<1>20. CASE Set!SaveService
  BY <1>11, <1>20 DEF Set!SaveService
<1>21. CASE Set!NextForm
  BY <1>4, <1>11, <1>21, NextFormSteps
<1>22. ASSUME NEW s \in Forms, Set!FormSaved(s) PROVE EndpointsKept'
  BY <1>0, <1>5, <1>22 DEF Set!FormSaved
<1>23. CASE Set!PreferencesArrive
  BY <1>0, <1>5, <1>23 DEF Set!PreferencesArrive
<1>24. ASSUME NEW f \in Fields, NEW v \in Values, Set!EditField(f, v) PROVE EndpointsKept'
  BY <1>0, <1>5, <1>24 DEF Set!EditField
<1>25. ASSUME NEW s \in Forms, Set!RefreshForm(s) PROVE EndpointsKept'
  BY <1>6, <1>25 DEF Set!RefreshForm
<1>30. ASSUME Set!Next PROVE EndpointsKept'
  BY <1>4, <1>7, <1>8, <1>9, <1>10, <1>13, <1>14, <1>15, <1>16, <1>17, <1>18, <1>19, <1>20, <1>21, <1>22, <1>23, <1>24, <1>25, <1>30
     DEF Set!Next, Set!OtherPatches, Set!SaveForm, Set!ServerPatches, Set!FormFailed, Set!PreferencesRead,
         Set!OtherPuts, Set!RequestLeave, Set!Stay, Set!SaveAll
<1> QED BY <1>4, <1>30 DEF settingsVars

\* A form with an input that was not saved is dirty.
LEMMA UnsavedIsDirty ==
  ASSUME ServicesAssumption, SettingsTypes, FieldsKept, EndpointsKept
  PROVE  /\ \A f \in Fields : inputs.field[f] # Set!Unset => Set!Dirty(FormOf[f]) /\ FormOf[f] \in Forms
         /\ \A p \in Protocols : inputs.endpoint[p] # Set!Unset => Set!Dirty("service")
         /\ \A p \in Protocols \ {service.protocol} : inputs.endpoint[p] # Set!Unset => Set!OtherDrafts
<1>1. ASSUME NEW f \in Fields, inputs.field[f] # Set!Unset PROVE Set!Dirty(FormOf[f]) /\ FormOf[f] \in Forms
  <2>1. prefs.edits[f] = inputs.field[f] /\ inputs.field[f] # prefs.shown.value[f]
    BY <1>1 DEF FieldsKept
  <2>2. FormOf[f] \in Forms /\ FormOf[f] # "service"
    BY SettingsConstants
  <2>3. Set!Value(f) # prefs.shown.value[f]
    BY <1>1, <2>1 DEF Set!Value
  <2> QED BY <2>2, <2>3 DEF Set!Dirty, Set!DirtyForm, Set!Own
<1>2. ASSUME NEW p \in Protocols, inputs.endpoint[p] # Set!Unset, p # service.protocol
      PROVE  Set!Differs(p, service.drafts[p])
  <2>1. service.drafts[p].endpoint = inputs.endpoint[p] /\ inputs.endpoint[p] # Set!Default(p)
    BY <1>2 DEF EndpointsKept, Set!ServiceInput
  <2>2. service.drafts[p] # Set!NoDraft
    BY <1>2, <2>1 DEF Set!NoDraft
  <2> QED BY <2>1, <2>2 DEF Set!Differs
<1>3. ASSUME NEW p \in Protocols, inputs.endpoint[p] # Set!Unset PROVE Set!Dirty("service")
  <2>1. CASE p = service.protocol
    <3>1. service.endpoint # Set!Default(service.protocol)
      BY <1>3, <2>1 DEF EndpointsKept, Set!ServiceInput
    <3> QED BY <3>1 DEF Set!Dirty, Set!DirtyService
  <2>2. CASE p # service.protocol
    BY <1>2, <1>3, <2>2 DEF Set!Dirty, Set!DirtyService
  <2> QED BY <2>1, <2>2
<1> QED BY <1>1, <1>2, <1>3 DEF Set!OtherDrafts

LEMMA TurnsStillCome ==
  ServicesAssumption /\ SettingsInv /\ (Set!Next \/ UNCHANGED settingsVars) => TurnsCome'
<1> SUFFICES ASSUME ServicesAssumption, SettingsInv, Set!Next \/ UNCHANGED settingsVars PROVE TurnsCome'
  OBVIOUS
<1>0. /\ service \in ServiceRecord
      /\ inputs \in [field : [Fields -> Values \cup {Set!Unset}], endpoint : [Protocols -> Address], acts : 0 .. MaxActs]
      /\ leaving \in [at : {"no", "asked", "next", "left"} \cup Set!AllForms, rest : Seq(Set!AllForms)]
  BY DEF SettingsInv, SettingsTypes, ServiceRecord
<1>1. /\ SettingsTypes /\ RowsAreReal /\ FieldsKept /\ EndpointsKept /\ TurnsCome
      /\ \A f \in Fields : inputs.field[f] # Set!Unset => Set!Dirty(FormOf[f]) /\ FormOf[f] \in Forms
      /\ \A p \in Protocols : inputs.endpoint[p] # Set!Unset => Set!Dirty("service")
      /\ \A p \in Protocols \ {service.protocol} : inputs.endpoint[p] # Set!Unset => Set!OtherDrafts
  BY UnsavedIsDirty DEF SettingsInv
<1>2. Set!AllForms = Forms \cup {"service"} /\ Set!AllForms \cap {"no", "asked", "next", "left"} = {} /\ "service" \notin Forms
  BY SettingsConstants DEF Set!AllForms
<1>3. ASSUME leaving'.at \in {"no", "asked"} PROVE TurnsCome'
  BY <1>2, <1>3 DEF TurnsCome, Leaving
<1>4. ASSUME UNCHANGED leaving, service'.protocol = service.protocol,
             \A f \in Fields : inputs'.field[f] # Set!Unset => inputs.field[f] # Set!Unset,
             \A p \in Protocols : inputs'.endpoint[p] # Set!Unset => inputs.endpoint[p] # Set!Unset
      PROVE  TurnsCome'
  <2>1. Leaving' = Leaving /\ \A x : Waits(x)' = Waits(x)
    BY <1>4 DEF Leaving, Waits
  <2>2. /\ Leaving => \A f \in Fields : inputs'.field[f] # Set!Unset => Waits(FormOf[f])'
        /\ Leaving => \A p \in Protocols : inputs'.endpoint[p] # Set!Unset => Waits("service")'
    BY <1>1, <1>4, <2>1 DEF TurnsCome
  <2>3. leaving.at = "service" => \A p \in Protocols \ {service.protocol} : inputs'.endpoint[p] = Set!Unset
    BY <1>1, <1>4 DEF TurnsCome
  <2>4. leaving.at = "left" => (\A f \in Fields : inputs'.field[f] = Set!Unset) /\ (\A p \in Protocols : inputs'.endpoint[p] = Set!Unset)
    BY <1>1, <1>4 DEF TurnsCome
  <2> QED BY <1>4, <2>1, <2>2, <2>3, <2>4 DEF TurnsCome
<1>5. ASSUME leaving'.at = "left", \A f \in Fields : inputs'.field[f] = Set!Unset, \A p \in Protocols : inputs'.endpoint[p] = Set!Unset
      PROVE  TurnsCome'
  BY <1>2, <1>5 DEF TurnsCome, Leaving
<1>6. CASE UNCHANGED <<service, leaving, inputs>>
  BY <1>4, <1>6
<1>7. ASSUME UNCHANGED <<leaving, inputs>>, service'.protocol = service.protocol PROVE TurnsCome'
  BY <1>4, <1>7
<1>8. ASSUME leaving.at = "no", UNCHANGED leaving PROVE TurnsCome'
  BY <1>3, <1>8
<1>9. ASSUME NEW s \in Set!AllForms, leaving' = Set!Continued(s, FALSE), UNCHANGED inputs, service'.protocol = service.protocol
      PROVE  TurnsCome'
  <2>1. CASE leaving.at = s
    BY <1>0, <1>3, <1>9, <2>1 DEF Set!Continued
  <2>2. CASE leaving.at # s
    BY <1>7, <1>9, <2>2 DEF Set!Continued
  <2> QED BY <2>1, <2>2
<1>10. ASSUME NEW s \in Forms, Set!FormSaved(s) PROVE TurnsCome'
  <2> DEFINE row == prefs.call[s].row
             field == [f \in Fields |-> IF f \in Set!Own(s) THEN Set!Unset ELSE inputs.field[f]]
  <2>1. inputs'.field = Set!Still(field, row) /\ inputs'.endpoint = inputs.endpoint /\ UNCHANGED service /\ leaving' = Set!Continued(s, TRUE)
    BY <1>0, <1>10 DEF Set!FormSaved
  <2>2. \A f \in Fields : inputs'.field[f] # Set!Unset => inputs.field[f] # Set!Unset /\ FormOf[f] # s
    BY <2>1 DEF Set!Still, Set!Own
  <2>3. CASE leaving.at # s
    BY <1>4, <2>1, <2>2, <2>3 DEF Set!Continued
  <2>4. CASE leaving.at = s
    <3>1. leaving'.at = "next" /\ leaving'.rest = leaving.rest /\ Leaving
      BY <1>0, <1>2, <2>1, <2>4 DEF Set!Continued, Leaving
    <3>2. \A x : x # s /\ Waits(x) => Waits(x)'
      BY <2>4, <3>1 DEF Waits
    <3>3. \A f \in Fields : inputs'.field[f] # Set!Unset => Waits(FormOf[f])'
      BY <1>1, <2>2, <3>1, <3>2 DEF TurnsCome
    <3>4. \A p \in Protocols : inputs'.endpoint[p] # Set!Unset => Waits("service")'
      BY <1>1, <1>2, <2>1, <3>1, <3>2 DEF TurnsCome
    <3> QED BY <3>1, <3>3, <3>4 DEF TurnsCome
  <2> QED BY <2>3, <2>4
<1>11. CASE Set!PreferencesArrive
  <2>1. inputs'.field = Set!Still(inputs.field, prefs.read.row) /\ inputs'.endpoint = inputs.endpoint /\ UNCHANGED <<service, leaving>>
    BY <1>0, <1>11 DEF Set!PreferencesArrive
  <2>2. \A f \in Fields : inputs'.field[f] # Set!Unset => inputs.field[f] # Set!Unset
    BY <2>1 DEF Set!Still
  <2> QED BY <1>4, <2>1, <2>2
<1>12. CASE Set!ServiceSaved
  <2>1. service'.protocol = service.protocol
    BY <1>0, <1>1, <1>12 DEF Set!ServiceSaved, Set!Applied, RowsAreReal, ServiceRecord
  <2>2. inputs'.field = inputs.field /\ inputs'.endpoint = [inputs.endpoint EXCEPT ![service.protocol] = Set!Unset]
        /\ leaving' = Set!Continued("service", TRUE)
    BY <1>0, <1>12 DEF Set!ServiceSaved
  <2>3. \A p \in Protocols : inputs'.endpoint[p] # Set!Unset => inputs.endpoint[p] # Set!Unset /\ p # service.protocol
    BY <1>0, <2>2
  <2>4. CASE leaving.at # "service"
    BY <1>4, <2>1, <2>2, <2>3, <2>4 DEF Set!Continued
  <2>5. CASE leaving.at = "service"
    <3>1. leaving'.at = "next" /\ leaving'.rest = leaving.rest /\ Leaving
      BY <1>0, <1>2, <2>2, <2>5 DEF Set!Continued, Leaving
    <3>2. \A x : x # "service" /\ Waits(x) => Waits(x)'
      BY <2>5, <3>1 DEF Waits
    <3>3. \A f \in Fields : inputs'.field[f] # Set!Unset => Waits(FormOf[f])'
      BY <1>1, <1>2, <2>2, <3>1, <3>2 DEF TurnsCome
    <3>4. \A p \in Protocols : inputs'.endpoint[p] = Set!Unset
      BY <1>1, <2>3, <2>5 DEF TurnsCome
    <3> QED BY <3>1, <3>3, <3>4 DEF TurnsCome
  <2> QED BY <2>4, <2>5
<1>13. CASE Set!ServiceFailed
  BY <1>0, <1>2, <1>9, <1>13 DEF Set!ServiceFailed, ServiceRecord
<1>14. CASE Set!RequestLeave
  <2>1. CASE leaving'.at = "asked"
    BY <1>3, <2>1
  <2>2. CASE leaving'.at # "asked"
    <3>1. leaving'.at = "left" /\ UNCHANGED inputs /\ \A s \in Set!AllForms : ~ Set!Dirty(s)
      BY <1>14, <2>2 DEF Set!RequestLeave, Set!Leave
    <3> QED BY <1>1, <1>2, <1>5, <3>1
  <2> QED BY <2>1, <2>2
<1>15. CASE Set!Stay
  BY <1>3, <1>15 DEF Set!Stay, Set!Leave
<1>16. CASE Set!DiscardAll
  <2>1. inputs'.field = [f \in Fields |-> Set!Unset] /\ inputs'.endpoint = [p \in Protocols |-> Set!Unset] /\ leaving'.at = "left"
    BY <1>0, <1>16 DEF Set!DiscardAll, Set!Leave
  <2> QED BY <1>5, <2>1
<1>17. CASE Set!SaveAll
  <2>1. leaving'.at = "next" /\ leaving'.rest = Order /\ UNCHANGED <<inputs, service>>
    BY <1>17 DEF Set!SaveAll
  <2>2. \A s \in Set!AllForms : \E i \in 1 .. Len(Order) : Order[i] = s
    <3>1. Order \in Seq(Set!AllForms) /\ {Order[i] : i \in DOMAIN Order} = Set!AllForms
      BY SettingsConstants
    <3>2. DOMAIN Order = 1 .. Len(Order)
      BY <3>1
    <3> QED BY <3>1, <3>2
  <2>3. \A s \in Set!AllForms : Waits(s)'
    BY <2>1, <2>2 DEF Waits
  <2>4. \A f \in Fields : inputs'.field[f] # Set!Unset => Waits(FormOf[f])'
    BY <1>1, <1>2, <2>1, <2>3
  <2>5. Waits("service")'
    BY <1>2, <2>3
  <2> QED BY <2>1, <2>4, <2>5 DEF TurnsCome
<1>18. CASE Set!NextForm
  <2>0. leaving.at = "next" /\ UNCHANGED inputs /\ Leaving /\ leaving.rest \in Seq(Set!AllForms) /\ Len(leaving.rest) \in Nat
    BY <1>0, <1>1, <1>18, NextFormSteps DEF Leaving
  <2>1. ASSUME NEW x \in Set!AllForms, Waits(x) PROVE \E k \in 1 .. Len(leaving.rest) : leaving.rest[k] = x
    BY <1>2, <2>0, <2>1 DEF Waits
  <2>2. CASE leaving' = [at |-> "left", rest |-> <<>>] /\ \A k \in 1 .. Len(leaving.rest) : ~ Set!Dirty(leaving.rest[k])
    <3>1. \A f \in Fields : inputs.field[f] = Set!Unset
      BY <1>1, <1>2, <2>0, <2>1, <2>2 DEF TurnsCome
    <3>2. \A p \in Protocols : inputs.endpoint[p] = Set!Unset
      BY <1>1, <1>2, <2>0, <2>1, <2>2 DEF TurnsCome
    <3> QED BY <1>5, <2>0, <2>2, <3>1, <3>2
  <2>3. CASE leaving' = [at |-> "asked", rest |-> <<>>]
    BY <1>3, <2>3
  <2>4. ASSUME NEW i \in 1 .. Len(leaving.rest), Reached(i), Set!CanSave(leaving.rest[i]),
               \A k \in 1 .. Len(leaving.rest) : k < i => ~ Set!Dirty(leaving.rest[k]),
               IF leaving.rest[i] = "service" THEN Set!SendService /\ UNCHANGED prefs
                 ELSE Set!SendForm(leaving.rest[i]) /\ UNCHANGED service
        PROVE  TurnsCome'
    <3> DEFINE rest == SubSeq(leaving.rest, i + 1, Len(leaving.rest))
    <3>1. leaving'.at = leaving.rest[i] /\ leaving'.rest = rest /\ leaving.rest[i] \in Set!AllForms
      BY <2>0, <2>4 DEF Reached
    <3>2. Len(rest) = Len(leaving.rest) - i /\ \A k \in 1 .. Len(rest) : rest[k] = leaving.rest[k + i]
      BY <2>0
    <3> HIDE DEF rest
    <3>3. ASSUME NEW x \in Set!AllForms, Set!Dirty(x), Waits(x) PROVE Waits(x)'
      <4>1. PICK k \in 1 .. Len(leaving.rest) : leaving.rest[k] = x
        BY <2>1, <3>3
      <4>2. k >= i
        BY <2>4, <3>3, <4>1
      <4>3. CASE k = i
        BY <3>1, <4>1, <4>3 DEF Waits
      <4>4. CASE k > i
        <5>1. k - i \in 1 .. Len(rest) /\ (k - i) + i = k
          BY <2>0, <3>2, <4>4
        <5>2. rest[k - i] = x
          BY <3>2, <4>1, <5>1
        <5> QED BY <3>1, <5>1, <5>2 DEF Waits
      <4> QED BY <4>2, <4>3, <4>4
    <3>4. \A f \in Fields : inputs'.field[f] # Set!Unset => Waits(FormOf[f])'
      BY <1>1, <1>2, <2>0, <3>3 DEF TurnsCome
    <3>5. \A p \in Protocols : inputs'.endpoint[p] # Set!Unset => Waits("service")'
      BY <1>1, <1>2, <2>0, <3>3 DEF TurnsCome
    <3>6. service'.protocol = service.protocol
      BY <1>0, <2>4 DEF Set!SendService, ServiceRecord
    <3>7. leaving.rest[i] = "service" => \A p \in Protocols \ {service.protocol} : inputs'.endpoint[p] = Set!Unset
      BY <1>1, <2>0, <2>4 DEF Set!CanSave
    <3> QED BY <1>2, <3>1, <3>4, <3>5, <3>6, <3>7 DEF TurnsCome
  <2> QED BY <1>1, <1>18, <2>2, <2>3, <2>4, NextFormSteps
<1>19. ASSUME Set!Acts, UNCHANGED leaving PROVE TurnsCome'
  BY <1>8, <1>19 DEF Set!Acts
<1>20. ASSUME NEW f \in Fields, NEW v \in Values, Set!EditField(f, v) PROVE TurnsCome'
  BY <1>19, <1>20 DEF Set!EditField
<1>21. ASSUME NEW e \in Endpoints, Set!TypeEndpoint(e) PROVE TurnsCome'
  BY <1>19, <1>21 DEF Set!TypeEndpoint
<1>22. ASSUME NEW s \in Forms, Set!RefreshForm(s) PROVE TurnsCome'
  BY <1>19, <1>22 DEF Set!RefreshForm
<1>23. ASSUME Set!Types, UNCHANGED leaving PROVE TurnsCome'
  BY <1>19, <1>23 DEF Set!Types
<1>24. ASSUME NEW s \in Forms, Set!SaveForm(s) PROVE TurnsCome'
  BY <1>8, <1>24 DEF Set!SaveForm
<1>25. CASE Set!SaveService
  BY <1>8, <1>25 DEF Set!SaveService
<1>26. ASSUME NEW keep \in BOOLEAN, Set!UseLatest(keep) PROVE TurnsCome'
  BY <1>8, <1>26 DEF Set!UseLatest
<1>27. CASE Set!ServerPuts
  <2>1. (\E c : service' = [service EXCEPT !.call = c]) /\ UNCHANGED <<leaving, inputs>>
    BY <1>27 DEF Set!ServerPuts
  <2> QED BY <1>0, <1>7, <2>1 DEF ServiceRecord
<1>28. ASSUME NEW works \in BOOLEAN, Set!LatestArrives(works) PROVE TurnsCome'
  BY <1>0, <1>7, <1>28 DEF Set!LatestArrives, ServiceRecord
<1>29. ASSUME NEW s \in Forms, Set!FormFailed(s) PROVE TurnsCome'
  BY <1>2, <1>9, <1>29 DEF Set!FormFailed
<1>30. ASSUME Set!Next PROVE TurnsCome'
  BY <1>6, <1>10, <1>11, <1>12, <1>13, <1>14, <1>15, <1>16, <1>17, <1>18, <1>20, <1>21, <1>22, <1>23, <1>24, <1>25, <1>26, <1>27, <1>28, <1>29, <1>30
     DEF Set!Next, Set!OtherPatches, Set!ServerPatches, Set!PreferencesRead, Set!OtherPuts, Set!TypeKey, Set!TickClear, Set!SwitchProtocol, Set!ReadLatest
<1> QED BY <1>6, <1>30 DEF settingsVars

LEMMA SettingsStep == ServicesAssumption /\ SettingsInv /\ (Set!Next \/ UNCHANGED settingsVars) => SettingsInv'
<1> SUFFICES ASSUME ServicesAssumption, SettingsInv, Set!Next \/ UNCHANGED settingsVars PROVE SettingsInv'
  OBVIOUS
<1>1. SettingsTypes /\ RowsAreReal /\ KeysFit /\ FieldsKept /\ EndpointsKept
  BY DEF SettingsInv
<1>2. SettingsTypes'
  <2>1. service' \in ServiceRecord
    BY <1>1, ServiceStays
  <2>2. /\ stored' = [prefs |-> stored'.prefs, service |-> stored'.service] /\ stored'.service \in Config
        /\ prefs' = [shown |-> prefs'.shown, latest |-> prefs'.latest, edits |-> prefs'.edits, call |-> prefs'.call,
                     failed |-> prefs'.failed, read |-> prefs'.read]
        /\ prefs'.edits \in [Fields -> Values \cup {Set!Unset}]
        /\ leaving' \in [at : {"no", "asked", "next", "left"} \cup Set!AllForms, rest : Seq(Set!AllForms)]
        /\ inputs' \in [field : [Fields -> Values \cup {Set!Unset}], endpoint : [Protocols -> Address], acts : 0 .. MaxActs]
    BY <1>1, RestTyped
  <2> QED BY ONLY <2>1, <2>2 DEF SettingsTypes, ServiceRecord
<1> QED BY <1>1, <1>2, RowsStayReal, KeysStayFit, FieldsStayKept, EndpointsStayKept, TurnsStillCome DEF SettingsInv

LEMMA SettingsInvIsEnough == SettingsInv => Set!TypeOK /\ Set!KeySentWhereTyped /\ Set!InputsStay
<1> SUFFICES ASSUME SettingsInv PROVE Set!TypeOK /\ Set!KeySentWhereTyped /\ Set!InputsStay
  OBVIOUS
<1>1. Set!TypeOK
  BY DEF SettingsInv, SettingsTypes, Set!TypeOK
<1>2. Set!KeySentWhereTyped
  BY DEF SettingsInv, KeysFit, Set!KeySentWhereTyped
<1>3. ASSUME NEW f \in Fields, inputs.field[f] # Set!Unset PROVE leaving.at # "left" /\ Set!Value(f) = inputs.field[f]
  BY <1>3 DEF SettingsInv, FieldsKept, TurnsCome, Set!Value
<1>4. ASSUME NEW p \in Protocols, inputs.endpoint[p] # Set!Unset PROVE leaving.at # "left" /\ Set!ServiceInput(p) = inputs.endpoint[p]
  BY <1>4 DEF SettingsInv, EndpointsKept, TurnsCome
<1> QED BY <1>1, <1>2, <1>3, <1>4 DEF Set!InputsStay

(* The inputs of the settings page survive (web/settings-state.tsx): what  *)
(* was typed is in the page until it is saved or given up and the page is  *)
(* not left before, and a key is sent with the protocol and the endpoint   *)
(* it was typed for; for any forms, fields, protocols and endpoints.       *)
THEOREM InputsOutliveThePage == Spec => []SettingsSurvive
<1>1. Init => SettingsInv
  BY SettingsInit, ServicesAssumption DEF Init
<1>2. SettingsInv /\ [Next]_vars => SettingsInv'
  <2> SUFFICES ASSUME SettingsInv, [Next]_vars PROVE SettingsInv'
    OBVIOUS
  <2>1. Set!Next \/ UNCHANGED settingsVars
    BY DEF Next, vars, webVars
  <2> QED BY <2>1, SettingsStep, ServicesAssumption
<1>3. SettingsInv => SettingsSurvive
  BY SettingsInvIsEnough DEF SettingsSurvive
<1> QED BY <1>1, <1>2, <1>3, PTL DEF Spec

--------------------------------------------------------------------------------
(* The address bar, the history and the guard of the mounted page.  The    *)
(* handlers map a record of all fields to the one they leave: each lemma   *)
(* says from which records a handler, or its rest after an await, leaves a *)
(* good one.                                                               *)

Place == [index : Int, hash : Hashes]
Stop == [hash : Hashes, state : Place \cup {Nav!None}]
Parts == {"entries", "at", "trips", "events", "accepted", "current", "known", "traversals", "moving", "pc",
          "target", "go", "yes", "route", "dirty", "active", "lost"}
OnTheWay == {"first", "answered", "target", "clicked"}

NavTypes(s) ==
  /\ DOMAIN s = Parts
  /\ s.entries \in Seq(Stop) /\ s.at \in 1 .. Len(s.entries)
  /\ s.accepted \in Place /\ s.current \in Place /\ s.known \subseteq Place
  /\ s.moving \in BOOLEAN /\ s.go \in BOOLEAN /\ s.yes \in BOOLEAN
  /\ s.dirty \in BOOLEAN /\ s.active = s.dirty /\ s.lost = FALSE /\ s.route \in Hashes

\* The page has been at stop b, and all stops up to n carry their places,
\* numbered one by one.  Every place the watcher knows is one of them.
Numbers(s, b, n) ==
  /\ n \in 0 .. Len(s.entries) /\ b \in 1 .. n
  /\ s.current.hash = s.entries[b].hash
  /\ \A i \in 1 .. n : s.entries[i].state = Nav!Position(s.current.index + (i - b), s.entries[i].hash)

Known(s) == \A p \in s.known : \E i \in 1 .. Len(s.entries) : p = s.entries[i].state

\* What the watcher remembers while it waits: the user's consent, and that it
\* is on its way to the page it shows, if not to the target.
Purpose(s) ==
  /\ s.pc \in {"idle", "ask", "clickAsk"} \cup OnTheWay
  /\ s.accepted.hash = s.route
  /\ s.moving <=> s.pc \in OnTheWay
  /\ s.pc # "idle" => s.target \in Place
  /\ s.pc = "target" \/ (s.pc = "answered" /\ s.go) => s.yes \/ ~s.dirty
Wanted(s, p) == s.pc # "target" => p.hash = s.route

\* The browser is at rest; it is asked to travel; it has travelled and says
\* so; or the user has entered an address.
AtRest(s) ==
  /\ s.trips = <<>> /\ s.events = <<>> /\ s.traversals = <<>>
  /\ Numbers(s, s.at, Len(s.entries)) /\ Known(s) /\ ~s.moving
  /\ s.pc = "idle" => s.current.hash = s.route
Travels(s) ==
  /\ \E d \in Int : /\ s.trips = <<d>>
                    /\ s.moving => s.at + d \in 1 .. Len(s.entries) /\ Wanted(s, s.entries[s.at + d])
  /\ s.events = <<>> /\ s.traversals = <<>> /\ Numbers(s, s.at, Len(s.entries)) /\ Known(s)
  /\ s.pc = "idle" => s.current.hash = s.route
Travelled(s) ==
  /\ s.trips = <<>> /\ s.events = <<s.entries[s.at].hash>> /\ s.traversals = <<s.entries[s.at].state>>
  /\ \E b \in 1 .. Len(s.entries) : Numbers(s, b, Len(s.entries))
  /\ Known(s)
  /\ s.moving => Wanted(s, s.entries[s.at])
Entered(s) ==
  /\ s.trips = <<>> /\ s.events = <<s.entries[s.at].hash>> /\ s.traversals = <<>>
  /\ s.at = Len(s.entries) /\ s.entries[s.at].state = Nav!None
  /\ Numbers(s, s.at - 1, s.at - 1) /\ ~s.moving
  /\ \A p \in s.known : p.index <= s.current.index => \E i \in 1 .. s.at - 1 : p = s.entries[i].state
Good(s) == NavTypes(s) /\ Purpose(s) /\ (AtRest(s) \/ Travels(s) \/ Travelled(s) \/ Entered(s))

\* The fields of the three records do not change.
RecordFields ==
  /\ DOMAIN browser = {"entries", "at", "trips", "events"}
  /\ DOMAIN watcher = {"accepted", "current", "known", "traversals", "moving", "pc", "target", "go", "yes"}
  /\ DOMAIN form = {"route", "dirty", "active", "lost"}
NavInv == acts \in 0 .. MaxMoves /\ RecordFields /\ Good(Nav!State)

\* Between two awaits the handlers have this before them.
Rested(s) ==
  /\ NavTypes(s) /\ s.trips = <<>> /\ s.events = <<>> /\ s.traversals = <<>>
  /\ Numbers(s, s.at, Len(s.entries)) /\ Known(s) /\ ~s.moving
\* The browser is asked for a stop of hash h, and nothing else is on its way.
Bound(s, h) ==
  /\ NavTypes(s) /\ s.moving /\ s.events = <<>> /\ s.traversals = <<>>
  /\ Numbers(s, s.at, Len(s.entries)) /\ Known(s)
  /\ \E d \in Int : s.trips = <<d>> /\ s.at + d \in 1 .. Len(s.entries) /\ s.entries[s.at + d].hash = h
Kept(s, t) ==
  /\ t.pc = s.pc /\ t.target = s.target /\ t.go = s.go /\ t.yes = s.yes
  /\ t.route = s.route /\ t.dirty = s.dirty

LEMMA NavConstants == ServicesAssumption => MaxMoves \in Nat /\ Hashes # {} /\ "none" \notin Hashes
  BY DEF ServicesAssumption, Nav!NavigationAssumption

LEMMA ReachNear ==
  ASSUME NEW s, Rested(s)
  PROVE  LET t == [s EXCEPT !.accepted = s.current]
         IN Kept(s, t) /\ Rested(t) /\ t.accepted = t.current /\ t.current = s.current
  BY DEF Rested, NavTypes, Parts, Numbers, Known, Kept

LEMMA ReachFar ==
  ASSUME NEW s, Rested(s), NEW p \in s.known
  PROVE  LET t == [s EXCEPT !.moving = TRUE, !.trips = Append(@, p.index - s.current.index)]
         IN Kept(s, t) /\ Bound(t, p.hash) /\ t.accepted = s.accepted
<1> DEFINE t == [s EXCEPT !.moving = TRUE, !.trips = Append(@, p.index - s.current.index)]
<1>1. PICK i \in 1 .. Len(s.entries) : p = s.entries[i].state
  BY DEF Rested, Known
<1>2. p = Nav!Position(s.current.index + (i - s.at), s.entries[i].hash)
  BY <1>1 DEF Rested, Numbers
<1>3. s.at \in Nat /\ s.current.index \in Int /\ Len(s.entries) \in Nat
  BY DEF Rested, NavTypes, Place
<1>4. p.index - s.current.index = i - s.at /\ p.hash = s.entries[i].hash
  BY <1>2, <1>3 DEF Nav!Position
<1>5. /\ DOMAIN t = Parts /\ t.trips = <<i - s.at>> /\ t.moving
      /\ t.entries = s.entries /\ t.at = s.at /\ t.events = s.events /\ t.traversals = s.traversals
      /\ t.accepted = s.accepted /\ t.current = s.current /\ t.known = s.known /\ t.active = s.active /\ t.lost = s.lost
      /\ Kept(s, t)
  BY <1>4 DEF Rested, NavTypes, Parts, Kept
<1> HIDE DEF t
<1>6. s.at + (i - s.at) = i /\ i - s.at \in Int
  BY <1>3
<1>7. NavTypes(t)
  BY <1>5 DEF Rested, NavTypes, Kept
<1>8. Numbers(t, t.at, Len(t.entries)) /\ Known(t)
  BY <1>5 DEF Rested, Numbers, Known
<1>9. Bound(t, p.hash)
  BY <1>4, <1>5, <1>6, <1>7, <1>8 DEF Rested, Bound
<1> QED BY <1>5, <1>9 DEF t

\* A stop is added behind the one at which the page was, and takes its place.
LEMMA Shifted == \A c, i, a \in Int : (c + 1) + (i - (a + 1)) = c + (i - a)
  OBVIOUS

GrownFrom(s, a, h, t) ==
  /\ s.current.index \in Int /\ s.known \subseteq Place /\ Numbers(s, a, a)
  /\ \A p \in s.known : p.index <= s.current.index => \E i \in 1 .. a : p = s.entries[i].state
  /\ Len(t.entries) = a + 1 /\ \A i \in 1 .. a : t.entries[i] = s.entries[i]
  /\ t.entries[a + 1] = Nav!Entry(h, Nav!Position(s.current.index + 1, h)) /\ t.at = a + 1
  /\ t.current = Nav!Position(s.current.index + 1, h)
  /\ t.known = {p \in s.known : p.index < s.current.index + 1} \cup {Nav!Position(s.current.index + 1, h)}

LEMMA Grown ==
  ASSUME NEW s, NEW a \in Nat \ {0}, NEW h, NEW t, GrownFrom(s, a, h, t)
  PROVE  Numbers(t, t.at, Len(t.entries)) /\ Known(t)
<1> USE DEF GrownFrom
<1> DEFINE n == s.current.index + 1
           q == Nav!Position(n, h)
<1>1. q.index = n /\ q.hash = h /\ t.entries[a + 1].hash = h /\ t.entries[a + 1].state = q
  BY DEF Nav!Position, Nav!Entry
<1>2. ASSUME NEW i \in 1 .. a + 1
      PROVE  t.entries[i].state = Nav!Position(n + (i - (a + 1)), t.entries[i].hash)
  <2>1. CASE i = a + 1
    <3>1. n + (i - (a + 1)) = n
      BY <2>1
    <3> QED BY <1>1, <2>1, <3>1
  <2>2. CASE i \in 1 .. a
    <3>1. a \in Int
      OBVIOUS
    <3>2. i \in Int /\ s.current.index \in Int
      BY <2>2
    <3>3. (s.current.index + 1) + (i - (a + 1)) = s.current.index + (i - a)
      BY <3>1, <3>2, Shifted
    <3> QED BY <2>2, <3>3 DEF Numbers
  <2> QED BY <2>1, <2>2
<1>3. Numbers(t, t.at, Len(t.entries))
  BY <1>1, <1>2 DEF Numbers
<1>4. ASSUME NEW p \in t.known PROVE \E i \in 1 .. a + 1 : p = t.entries[i].state
  <2>1. CASE p = q
    BY <1>1, <2>1
  <2>2. CASE p \in s.known /\ p.index < n
    <3>1. p.index <= s.current.index
      BY <2>2 DEF Place
    <3>2. PICK i \in 1 .. a : p = s.entries[i].state
      BY <2>2, <3>1
    <3> QED BY <3>2
  <2> QED BY <2>1, <2>2
<1> QED BY <1>3, <1>4 DEF Known

\* What the watcher knows of the stops up to its own.
LEMMA KnownHere ==
  ASSUME NEW s, NavTypes(s), Numbers(s, s.at, Len(s.entries)), Known(s), NEW p \in s.known, p.index <= s.current.index
  PROVE  \E i \in 1 .. s.at : p = s.entries[i].state
<1>1. PICK i \in 1 .. Len(s.entries) : p = s.entries[i].state
  BY DEF Known
<1>2. p.index = s.current.index + (i - s.at)
  <2>1. s.entries[i].state = Nav!Position(s.current.index + (i - s.at), s.entries[i].hash)
    BY <1>1 DEF Numbers
  <2> QED BY <1>1, <2>1 DEF Nav!Position
<1>3. s.at \in Nat /\ s.current.index \in Int
  BY DEF NavTypes, Place
<1> QED BY <1>1, <1>2, <1>3

LEMMA Cut ==
  ASSUME NEW e \in Seq(Stop), NEW a \in 1 .. Len(e)
  PROVE  SubSeq(e, 1, a) \in Seq(Stop) /\ Len(SubSeq(e, 1, a)) = a /\ \A i \in 1 .. a : SubSeq(e, 1, a)[i] = e[i]
  OBVIOUS

LEMMA CutAndAppended ==
  ASSUME NEW e \in Seq(Stop), NEW a \in 1 .. Len(e), NEW x \in Stop
  PROVE  LET f == Append(SubSeq(e, 1, a), x)
         IN /\ f \in Seq(Stop) /\ Len(f) = a + 1 /\ f[a + 1] = x
            /\ \A i \in 1 .. a : f[i] = e[i]
<1>1. SubSeq(e, 1, a) \in Seq(Stop) /\ Len(SubSeq(e, 1, a)) = a /\ \A i \in 1 .. a : SubSeq(e, 1, a)[i] = e[i]
  BY Cut
<1> QED BY <1>1

LEMMA ReachNew ==
  ASSUME NEW s, Rested(s), NEW h \in Hashes
  PROVE  LET r == Nav!Appended(s, h)
             t == Nav!Pushed([r EXCEPT !.accepted = r.current], h, r.current)
         IN Kept(s, t) /\ Rested(t) /\ t.accepted = t.current /\ t.current.hash = h
<1> DEFINE q == Nav!Position(s.current.index + 1, h)
           r == Nav!Appended(s, h)
           t == Nav!Pushed([r EXCEPT !.accepted = r.current], h, r.current)
<1>0. DOMAIN s = Parts /\ s.entries \in Seq(Stop) /\ s.at \in 1 .. Len(s.entries) /\ s.current.index \in Int /\ s.known \subseteq Place
  BY DEF Rested, NavTypes, Place
<1>1. q \in Place /\ q.hash = h /\ Nav!Entry(h, q) \in Stop
  BY <1>0 DEF Nav!Position, Nav!Entry, Place, Stop
<1>2. /\ DOMAIN t = Parts
      /\ t.entries = Append(SubSeq(s.entries, 1, s.at), Nav!Entry(h, q)) /\ t.at = s.at + 1
      /\ t.known = {p \in s.known : p.index < s.current.index + 1} \cup {q} /\ t.current = q /\ t.accepted = q
      /\ t.trips = s.trips /\ t.events = s.events /\ t.traversals = s.traversals
      /\ t.moving = s.moving /\ t.active = s.active /\ t.lost = s.lost /\ Kept(s, t)
  BY <1>0 DEF Nav!Appended, Nav!Pushed, Nav!Position, Parts, Kept
<1> HIDE DEF t
<1>3. /\ t.entries \in Seq(Stop) /\ Len(t.entries) = s.at + 1 /\ t.entries[s.at + 1] = Nav!Entry(h, q)
      /\ \A i \in 1 .. s.at : t.entries[i] = s.entries[i]
  BY <1>0, <1>1, <1>2, CutAndAppended
<1>4. Numbers(s, s.at, s.at) /\ \A p \in s.known : p.index <= s.current.index => \E i \in 1 .. s.at : p = s.entries[i].state
  <2>1. Numbers(s, s.at, s.at)
    BY <1>0 DEF Rested, Numbers
  <2> QED BY <2>1, KnownHere DEF Rested
<1>5. Numbers(t, t.at, Len(t.entries)) /\ Known(t)
  <2>1. s.at \in Nat \ {0}
    BY <1>0
  <2>2. t.entries[s.at + 1] = Nav!Entry(h, Nav!Position(s.current.index + 1, h)) /\ t.current = Nav!Position(s.current.index + 1, h)
        /\ t.known = {p \in s.known : p.index < s.current.index + 1} \cup {Nav!Position(s.current.index + 1, h)}
    BY <1>2, <1>3
  <2> HIDE DEF q
  <2>3. GrownFrom(s, s.at, h, t)
    BY <1>0, <1>2, <1>3, <1>4, <2>2 DEF GrownFrom
  <2> QED BY <2>1, <2>3, Grown
<1>6. NavTypes(t)
  BY <1>0, <1>1, <1>2, <1>3 DEF Rested, NavTypes, Kept
<1> QED BY <1>1, <1>2, <1>5, <1>6 DEF Rested, t

LEMMA ReachSteps ==
  ASSUME NEW s, Rested(s), NEW p \in Place
  PROVE  LET t == Nav!Reach(s, p)
         IN /\ Kept(s, t)
            /\ \/ Bound(t, p.hash) /\ t.accepted = s.accepted
               \/ Rested(t) /\ t.accepted = t.current /\ t.current.hash = p.hash
<1>1. CASE s.current = p
  BY <1>1, ReachNear DEF Nav!Reach
<1>2. CASE s.current # p /\ p \in s.known
  BY <1>2, ReachFar DEF Nav!Reach
<1>3. CASE s.current # p /\ p \notin s.known
  <2>1. p.hash \in Hashes
    BY DEF Place
  <2> QED BY <1>3, <2>1, ReachNew DEF Nav!Reach
<1> QED BY <1>1, <1>2, <1>3

\* What the watcher remembers does not move the browser.
SameStops(s, t) ==
  /\ t.entries = s.entries /\ t.at = s.at /\ t.trips = s.trips /\ t.events = s.events
  /\ t.traversals = s.traversals /\ t.current = s.current /\ t.known = s.known /\ t.moving = s.moving
LEMMA RestedStays ==
  ASSUME NEW s, NEW t, Rested(s), NavTypes(t), SameStops(s, t)
  PROVE  Rested(t)
  BY DEF Rested, SameStops, Numbers, Known
LEMMA BoundStays ==
  ASSUME NEW s, NEW h, NEW t, Bound(s, h), NavTypes(t), SameStops(s, t)
  PROVE  Bound(t, h)
  BY DEF Bound, SameStops, Numbers, Known

LEMMA BoundIsGood ==
  ASSUME NEW t, NEW h, Bound(t, h), t.pc \in OnTheWay, t.accepted.hash = t.route, t.target \in Place,
         t.pc = "target" \/ (t.pc = "answered" /\ t.go) => t.yes \/ ~t.dirty, t.pc # "target" => h = t.route
  PROVE  Good(t)
<1>1. Purpose(t)
  BY DEF Purpose, Bound
<1>2. Travels(t)
  BY DEF Travels, Bound, Wanted, OnTheWay
<1> QED BY <1>1, <1>2 DEF Good, Bound

LEMMA RestedIsGood ==
  ASSUME NEW t, Rested(t), t.accepted.hash = t.route, t.pc \in {"idle", "ask", "clickAsk"},
         t.pc = "idle" => t.current.hash = t.route, t.pc # "idle" => t.target \in Place
  PROVE  Good(t)
<1>1. Purpose(t)
  BY DEF Purpose, Rested, OnTheWay
<1> QED BY <1>1 DEF Good, Rested, AtRest

\* The form of the old page has been given up, or is empty.
LEMMA CommitIsGood ==
  ASSUME NEW s, Rested(s), s.accepted = s.current, s.yes \/ ~s.dirty
  PROVE  Good(Nav!Rest(Nav!Commit(s, s.accepted.hash)))
<1> DEFINE t == Nav!Rest(Nav!Commit(s, s.accepted.hash))
<1>1. /\ DOMAIN t = Parts /\ SameStops(s, t) /\ t.accepted = s.accepted /\ t.go = s.go /\ t.yes = FALSE
      /\ t.pc = "idle" /\ t.route = s.accepted.hash /\ t.dirty = FALSE /\ t.active = FALSE /\ t.lost = FALSE
  BY DEF Nav!Rest, Nav!Commit, Rested, NavTypes, Parts, SameStops
<1> HIDE DEF t
<1>2. NavTypes(t)
  BY <1>1 DEF NavTypes, Rested, SameStops, Place
<1>3. t.current = s.current
  BY <1>1 DEF SameStops
<1>4. Good(t)
  BY <1>1, <1>2, <1>3, RestedStays, RestedIsGood
<1> QED BY <1>4 DEF t

\* reach, and the rest of its caller: what it leaves while the browser moves,
\* and when it is there.
LEMMA ReachTargetIsGood ==
  ASSUME NEW s, Rested(s), s.target \in Place, s.accepted.hash = s.route, s.yes \/ ~s.dirty
  PROVE  Good(Nav!ReachTarget(s))
<1> DEFINE t == Nav!Reach(s, s.target)
<1>1. Kept(s, t) /\ (\/ Bound(t, s.target.hash) /\ t.accepted = s.accepted
                     \/ Rested(t) /\ t.accepted = t.current)
  BY ReachSteps
<1> HIDE DEF t
<1>2. CASE Bound(t, s.target.hash) /\ t.accepted = s.accepted
  <2> DEFINE u == [t EXCEPT !.pc = "target"]
  <2>1. /\ DOMAIN u = Parts /\ SameStops(t, u) /\ u.pc = "target" /\ u.target = t.target /\ u.accepted = t.accepted
        /\ u.go = t.go /\ u.yes = t.yes /\ u.route = t.route /\ u.dirty = t.dirty /\ u.active = t.active /\ u.lost = t.lost
    BY <1>2 DEF Bound, NavTypes, Parts, SameStops
  <2> HIDE DEF u
  <2>2. NavTypes(u)
    BY <1>2, <2>1 DEF Bound, NavTypes, SameStops
  <2>3. Good(u)
    BY <1>1, <1>2, <2>1, <2>2, BoundStays, BoundIsGood DEF Kept, OnTheWay
  <2>4. t.moving
    BY <1>2 DEF Bound
  <2> QED BY <2>3, <2>4 DEF Nav!ReachTarget, t, u
<1>3. CASE Rested(t) /\ t.accepted = t.current
  <2>1. Good(Nav!Rest(Nav!Commit(t, t.accepted.hash)))
    BY <1>1, <1>3, CommitIsGood DEF Kept
  <2>2. ~t.moving
    BY <1>3 DEF Rested
  <2> QED BY <2>1, <2>2 DEF Nav!ReachTarget, t
<1> QED BY <1>1, <1>2, <1>3

\* Another place of the watcher, and what it remembers with it.
LEMMA BoundAt ==
  ASSUME NEW t, NEW h, Bound(t, h), NEW pc
  PROVE  LET u == [t EXCEPT !.pc = pc]
         IN /\ Bound(u, h) /\ u.pc = pc /\ u.target = t.target /\ u.go = t.go /\ u.yes = t.yes
            /\ u.route = t.route /\ u.dirty = t.dirty /\ u.accepted = t.accepted
<1> DEFINE u == [t EXCEPT !.pc = pc]
<1>1. /\ DOMAIN u = Parts /\ SameStops(t, u) /\ u.pc = pc /\ u.target = t.target /\ u.accepted = t.accepted
      /\ u.go = t.go /\ u.yes = t.yes /\ u.route = t.route /\ u.dirty = t.dirty /\ u.active = t.active /\ u.lost = t.lost
  BY DEF Bound, NavTypes, Parts, SameStops
<1> HIDE DEF u
<1>2. NavTypes(u)
  BY <1>1 DEF Bound, NavTypes, SameStops
<1> QED BY <1>1, <1>2, BoundStays DEF u

LEMMA WaitingIsGood ==
  ASSUME NEW t, Bound(t, t.route), t.accepted.hash = t.route, t.target \in Place,
         NEW pc \in {"first", "answered", "clicked"}, pc = "answered" /\ t.go => t.yes \/ ~t.dirty
  PROVE  Good([t EXCEPT !.pc = pc])
<1> DEFINE u == [t EXCEPT !.pc = pc]
<1>1. /\ Bound(u, t.route) /\ u.pc = pc /\ u.target = t.target /\ u.go = t.go /\ u.yes = t.yes
      /\ u.route = t.route /\ u.dirty = t.dirty /\ u.accepted = t.accepted
  BY BoundAt
<1> HIDE DEF u
<1>2. Good(u)
  BY <1>1, BoundIsGood DEF OnTheWay
<1> QED BY <1>2 DEF u

LEMMA RestedAt ==
  ASSUME NEW s, Rested(s), NEW t, DOMAIN t = Parts, SameStops(s, t), t.accepted = s.accepted,
         t.route = s.route, t.dirty \in BOOLEAN, t.active = t.dirty, t.lost = s.lost, t.go \in BOOLEAN, t.yes \in BOOLEAN
  PROVE  Rested(t) /\ t.current = s.current
<1>1. NavTypes(t)
  BY DEF Rested, NavTypes, SameStops
<1> QED BY <1>1, RestedStays DEF SameStops

LEMMA RestIsGood ==
  ASSUME NEW s, Rested(s), s.accepted.hash = s.route, s.current.hash = s.route
  PROVE  LET t == Nav!Rest(s)
         IN /\ Good(t) /\ Rested(t) /\ Purpose(t) /\ t.entries = s.entries /\ t.at = s.at /\ t.target = s.target
            /\ t.pc = "idle"
<1> DEFINE t == Nav!Rest(s)
<1>1. /\ DOMAIN t = Parts /\ SameStops(s, t) /\ t.accepted = s.accepted /\ t.go = s.go /\ t.yes = FALSE /\ t.pc = "idle"
      /\ t.route = s.route /\ t.dirty = s.dirty /\ t.active = s.active /\ t.lost = s.lost /\ t.target = s.target
  BY DEF Nav!Rest, Rested, NavTypes, Parts, SameStops
<1>2. s.dirty \in BOOLEAN /\ s.active = s.dirty /\ s.go \in BOOLEAN
  BY DEF Rested, NavTypes
<1> HIDE DEF t
<1>3. Rested(t) /\ t.current = s.current
  BY <1>1, <1>2, RestedAt
<1>4. Good(t) /\ Purpose(t)
  BY <1>1, <1>3, RestedIsGood DEF Good
<1> QED BY <1>1, <1>3, <1>4 DEF t, SameStops

\* The user, or a link, enters an address.
LEMMA EditedIsGood ==
  ASSUME NEW s, Rested(s), Purpose(s), NEW h \in Hashes, h # Nav!Here(s)
  PROVE  Good(Nav!Edited(s, h))
<1> DEFINE t == Nav!Edited(s, h)
<1>0. DOMAIN s = Parts /\ s.entries \in Seq(Stop) /\ s.at \in 1 .. Len(s.entries) /\ s.events = <<>>
  BY DEF Rested, NavTypes
<1>1. Nav!Entry(h, Nav!None) \in Stop
  BY DEF Nav!Entry, Stop
<1>2. /\ DOMAIN t = Parts
      /\ t.entries = Append(SubSeq(s.entries, 1, s.at), Nav!Entry(h, Nav!None)) /\ t.at = s.at + 1 /\ t.events = <<h>>
      /\ t.trips = s.trips /\ t.traversals = s.traversals /\ t.current = s.current /\ t.known = s.known
      /\ t.accepted = s.accepted /\ t.moving = s.moving /\ t.active = s.active /\ t.lost = s.lost /\ Kept(s, t)
  <2>1. t = [Nav!Pushed(s, h, Nav!None) EXCEPT !.events = Append(@, h)]
    BY DEF Nav!Edited
  <2>2. Append(s.events, h) = <<h>>
    BY <1>0
  <2> QED BY <1>0, <2>1, <2>2 DEF Nav!Pushed, Parts, Kept
<1> HIDE DEF t
<1>3. /\ t.entries \in Seq(Stop) /\ Len(t.entries) = s.at + 1 /\ t.entries[s.at + 1] = Nav!Entry(h, Nav!None)
      /\ \A i \in 1 .. s.at : t.entries[i] = s.entries[i]
  BY <1>0, <1>1, <1>2, CutAndAppended
<1>4. s.at \in Nat \ {0} /\ t.at - 1 = s.at
  BY <1>0, <1>2
<1>5. NavTypes(t)
  BY <1>2, <1>3, <1>4 DEF Rested, NavTypes, Kept
<1>6. Purpose(t)
  BY <1>2 DEF Purpose, Kept
<1>7. Numbers(t, s.at, s.at)
  <2>1. \A i \in 1 .. s.at : s.entries[i].state = Nav!Position(s.current.index + (i - s.at), s.entries[i].hash)
    BY <1>0 DEF Rested, Numbers
  <2>2. s.current.hash = s.entries[s.at].hash /\ s.at \in 1 .. s.at /\ s.at \in 0 .. Len(t.entries)
    BY <1>0, <1>3, <1>4 DEF Rested, Numbers
  <2> QED BY <1>2, <1>3, <2>1, <2>2 DEF Numbers
<1>8. \A p \in t.known : p.index <= t.current.index => \E i \in 1 .. s.at : p = t.entries[i].state
  <2>1. ASSUME NEW p \in s.known, p.index <= s.current.index PROVE \E i \in 1 .. s.at : p = t.entries[i].state
    <3>1. PICK i \in 1 .. s.at : p = s.entries[i].state
      BY <2>1, KnownHere DEF Rested
    <3> QED BY <1>3, <3>1
  <2> QED BY <1>2, <2>1
<1>9. Entered(t)
  BY <1>2, <1>3, <1>4, <1>7, <1>8 DEF Entered, Rested, Nav!Entry
<1> QED BY <1>5, <1>6, <1>9 DEF Good, t

LEMMA ClickedIsGood ==
  ASSUME NEW s, Rested(s), s.target \in Place, s.accepted.hash = s.route
  PROVE  Good(Nav!Clicked(s))
<1> DEFINE t == Nav!Reach(s, s.accepted)
<1>0. s.accepted \in Place
  BY DEF Rested, NavTypes
<1>1. Kept(s, t) /\ (\/ Bound(t, s.route) /\ t.accepted = s.accepted
                     \/ Rested(t) /\ t.accepted = t.current /\ t.current.hash = s.route)
  BY <1>0, ReachSteps
<1> HIDE DEF t
<1>2. CASE Bound(t, s.route) /\ t.accepted = s.accepted
  <2>1. Good([t EXCEPT !.pc = "clicked"])
    BY <1>1, <1>2, WaitingIsGood DEF Kept
  <2>2. t.moving
    BY <1>2 DEF Bound
  <2> QED BY <2>1, <2>2 DEF Nav!Clicked, t
<1>3. CASE Rested(t) /\ t.accepted = t.current /\ t.current.hash = s.route
  <2> DEFINE u == Nav!Rest(t)
  <2>1. Good(u) /\ Rested(u) /\ Purpose(u) /\ u.entries = t.entries /\ u.at = t.at
    BY <1>1, <1>3, RestIsGood DEF Kept
  <2> HIDE DEF u
  <2>2. t.target.hash \in Hashes
    BY <1>1 DEF Kept, Place
  <2>3. Good(Nav!Edited(u, t.target.hash))
    BY <2>1, <2>2, EditedIsGood DEF Nav!Edited
  <2>4. ~t.moving
    BY <1>3 DEF Rested
  <2> QED BY <2>1, <2>3, <2>4 DEF Nav!Clicked, t, u
<1> QED BY <1>1, <1>2, <1>3

LEMMA AnsweredIsGood ==
  ASSUME NEW s, Rested(s), s.target \in Place, s.accepted.hash = s.route, s.go => s.yes \/ ~s.dirty
  PROVE  Good(Nav!Answered(s))
<1> DEFINE t == Nav!Reach(s, s.accepted)
<1>0. s.accepted \in Place
  BY DEF Rested, NavTypes
<1>1. Kept(s, t) /\ (\/ Bound(t, s.route) /\ t.accepted = s.accepted
                     \/ Rested(t) /\ t.accepted = t.current /\ t.current.hash = s.route)
  BY <1>0, ReachSteps
<1> HIDE DEF t
<1>2. CASE Bound(t, s.route) /\ t.accepted = s.accepted
  <2>1. Good([t EXCEPT !.pc = "answered"])
    BY <1>1, <1>2, WaitingIsGood DEF Kept
  <2>2. t.moving
    BY <1>2 DEF Bound
  <2> QED BY <2>1, <2>2 DEF Nav!Answered, t
<1>3. CASE Rested(t) /\ t.accepted = t.current /\ t.current.hash = s.route
  <2>1. t.go => Good(Nav!ReachTarget(t))
    BY <1>1, <1>3, ReachTargetIsGood DEF Kept
  <2>2. Good(Nav!Rest(t))
    BY <1>1, <1>3, RestIsGood DEF Kept
  <2>3. ~t.moving
    BY <1>3 DEF Rested
  <2> QED BY <2>1, <2>2, <2>3 DEF Nav!Answered, t
<1> QED BY <1>1, <1>2, <1>3

LEMMA AskIsGood ==
  ASSUME NEW s, Rested(s), s.target \in Place, s.accepted.hash = s.route
  PROVE  Good(Nav!Ask(s))
<1>0. DOMAIN s = Parts /\ s.active = s.dirty /\ s.dirty \in BOOLEAN /\ s.go \in BOOLEAN /\ s.yes \in BOOLEAN
  BY DEF Rested, NavTypes
<1>1. CASE s.active
  <2> DEFINE t == [s EXCEPT !.pc = "ask"]
  <2>1. /\ DOMAIN t = Parts /\ SameStops(s, t) /\ t.accepted = s.accepted /\ t.route = s.route /\ t.dirty = s.dirty
        /\ t.active = s.active /\ t.lost = s.lost /\ t.go = s.go /\ t.yes = s.yes /\ t.target = s.target /\ t.pc = "ask"
    BY <1>0 DEF Parts, SameStops
  <2> HIDE DEF t
  <2>2. Rested(t)
    BY <1>0, <2>1, RestedAt
  <2>3. Good(t)
    BY <2>1, <2>2, RestedIsGood
  <2> QED BY <1>1, <2>3 DEF Nav!Ask, t
<1>2. CASE ~s.active
  <2> DEFINE t == [s EXCEPT !.go = TRUE]
  <2>1. /\ DOMAIN t = Parts /\ SameStops(s, t) /\ t.accepted = s.accepted /\ t.route = s.route /\ t.dirty = s.dirty
        /\ t.active = s.active /\ t.lost = s.lost /\ t.go = TRUE /\ t.yes = s.yes /\ t.target = s.target
    BY <1>0 DEF Parts, SameStops
  <2> HIDE DEF t
  <2>2. Rested(t)
    BY <1>0, <2>1, RestedAt
  <2>3. Good(Nav!Answered(t))
    BY <1>0, <1>2, <2>1, <2>2, AnsweredIsGood
  <2> QED BY <1>2, <2>3 DEF Nav!Ask, t
<1> QED BY <1>1, <1>2

LEMMA ReachFirstIsGood ==
  ASSUME NEW s, Rested(s), s.target \in Place, s.accepted.hash = s.route
  PROVE  Good(Nav!ReachFirst(s))
<1> DEFINE t == Nav!Reach(s, s.accepted)
<1>0. s.accepted \in Place
  BY DEF Rested, NavTypes
<1>1. Kept(s, t) /\ (\/ Bound(t, s.route) /\ t.accepted = s.accepted
                     \/ Rested(t) /\ t.accepted = t.current /\ t.current.hash = s.route)
  BY <1>0, ReachSteps
<1> HIDE DEF t
<1>2. CASE Bound(t, s.route) /\ t.accepted = s.accepted
  <2>1. Good([t EXCEPT !.pc = "first"])
    BY <1>1, <1>2, WaitingIsGood DEF Kept
  <2>2. t.moving
    BY <1>2 DEF Bound
  <2> QED BY <2>1, <2>2 DEF Nav!ReachFirst, t
<1>3. CASE Rested(t) /\ t.accepted = t.current /\ t.current.hash = s.route
  <2>1. Good(Nav!Ask(t))
    BY <1>1, <1>3, AskIsGood DEF Kept
  <2>2. ~t.moving
    BY <1>3 DEF Rested
  <2> QED BY <2>1, <2>2 DEF Nav!ReachFirst, t
<1> QED BY <1>1, <1>2, <1>3

\* Nothing is on its way any more; the watcher may still have to be told.
Standing(s) ==
  /\ NavTypes(s) /\ s.trips = <<>> /\ s.events = <<>> /\ s.traversals = <<>>
  /\ Numbers(s, s.at, Len(s.entries)) /\ Known(s)

LEMMA MovedIsGood ==
  ASSUME NEW s, Standing(s), s.moving, Purpose(s), s.pc # "target" => s.current.hash = s.route
  PROVE  Good(Nav!Moved(s))
<1> DEFINE t == [s EXCEPT !.moving = FALSE, !.accepted = s.current]
<1>1. /\ DOMAIN t = Parts /\ t.entries = s.entries /\ t.at = s.at /\ t.trips = s.trips /\ t.events = s.events
      /\ t.traversals = s.traversals /\ t.current = s.current /\ t.known = s.known /\ t.moving = FALSE
      /\ t.accepted = s.current /\ Kept(s, t) /\ t.active = s.active /\ t.lost = s.lost
  BY DEF Standing, NavTypes, Parts, Kept
<1> HIDE DEF t
<1>2. NavTypes(t)
  BY <1>1 DEF Standing, NavTypes, Kept
<1>3. Rested(t)
  BY <1>1, <1>2 DEF Standing, Rested, Numbers, Known
<1>4. s.pc \in OnTheWay /\ t.target \in Place
  BY <1>1 DEF Purpose, OnTheWay, Kept
<1>5. CASE s.pc = "first"
  <2>1. Good(Nav!Ask(t))
    BY <1>1, <1>3, <1>4, <1>5, AskIsGood DEF Kept
  <2> QED BY <1>5, <2>1 DEF Nav!Moved, t
<1>6. CASE s.pc = "answered"
  <2>1. t.go => Good(Nav!ReachTarget(t))
    BY <1>1, <1>3, <1>4, <1>6, ReachTargetIsGood DEF Kept, Purpose
  <2>2. Good(Nav!Rest(t))
    BY <1>1, <1>3, <1>6, RestIsGood DEF Kept
  <2> QED BY <1>6, <2>1, <2>2 DEF Nav!Moved, t
<1>7. CASE s.pc = "target"
  <2>1. Good(Nav!Rest(Nav!Commit(t, t.accepted.hash)))
    BY <1>1, <1>3, <1>7, CommitIsGood DEF Kept, Purpose
  <2> QED BY <1>7, <2>1 DEF Nav!Moved, t
<1>8. CASE s.pc = "clicked"
  <2> DEFINE u == Nav!Rest(t)
  <2>1. Good(u) /\ Rested(u) /\ Purpose(u)
    BY <1>1, <1>3, <1>8, RestIsGood DEF Kept
  <2> HIDE DEF u
  <2>2. t.target.hash \in Hashes
    BY <1>4 DEF Place
  <2>3. Good(Nav!Edited(u, t.target.hash))
    BY <2>1, <2>2, EditedIsGood DEF Nav!Edited
  <2> QED BY <1>8, <2>1, <2>3 DEF Nav!Moved, t, u
<1> QED BY <1>4, <1>5, <1>6, <1>7, <1>8 DEF OnTheWay

LEMMA Reshifted == \A c, i, a, b \in Int : (c + (a - b)) + (i - a) = c + (i - b)
  OBVIOUS

\* The page is at a stop with a place: the watcher takes it over.
LEMMA RecordedStands ==
  ASSUME NEW s, NavTypes(s), NEW b \in 1 .. Len(s.entries), Numbers(s, b, Len(s.entries)), Known(s),
         s.trips = <<>>, s.events = <<>>, s.traversals = <<>>
  PROVE  LET t == Nav!Recorded(s, s.entries[s.at].state)
         IN /\ Standing(t) /\ Kept(s, t) /\ t.current = s.entries[s.at].state /\ t.entries = s.entries /\ t.at = s.at
            /\ t.current.hash = s.entries[s.at].hash /\ t.accepted = s.accepted /\ t.moving = s.moving /\ t.active = s.active
<1> DEFINE q == s.entries[s.at].state
           t == Nav!Recorded(s, q)
<1>0. /\ DOMAIN s = Parts /\ s.entries \in Seq(Stop) /\ s.at \in 1 .. Len(s.entries) /\ s.current.index \in Int
      /\ Len(s.entries) \in Nat /\ s.known \subseteq Place /\ b \in Int /\ s.at \in Int
  BY DEF NavTypes, Place
<1>1. q = Nav!Position(s.current.index + (s.at - b), s.entries[s.at].hash)
  BY <1>0 DEF Numbers
<1>2. s.entries[s.at].hash \in Hashes
  <2>1. s.entries[s.at] \in Stop
    BY <1>0
  <2> QED BY <2>1 DEF Stop
<1>3. q \in Place /\ q.hash = s.entries[s.at].hash /\ q.index = s.current.index + (s.at - b)
  BY <1>0, <1>1, <1>2 DEF Nav!Position, Place
<1>4. /\ DOMAIN t = Parts /\ t.entries = s.entries /\ t.at = s.at /\ t.trips = s.trips /\ t.events = s.events
      /\ t.traversals = s.traversals /\ t.current = q /\ t.known = {p \in s.known : p.index # q.index} \cup {q}
      /\ t.moving = s.moving /\ t.accepted = s.accepted /\ Kept(s, t) /\ t.active = s.active /\ t.lost = s.lost
  BY <1>0 DEF Nav!Recorded, Parts, Kept
<1> HIDE DEF t
<1>5. NavTypes(t)
  BY <1>0, <1>3, <1>4 DEF NavTypes, Kept
<1>6. ASSUME NEW i \in 1 .. Len(s.entries)
      PROVE  s.entries[i].state = Nav!Position(q.index + (i - s.at), s.entries[i].hash)
  <2>1. i \in Int
    OBVIOUS
  <2>2. (s.current.index + (s.at - b)) + (i - s.at) = s.current.index + (i - b)
    BY <1>0, <2>1, Reshifted
  <2>3. s.entries[i].state = Nav!Position(s.current.index + (i - b), s.entries[i].hash)
    BY DEF Numbers
  <2> QED BY <1>3, <2>2, <2>3
<1>7. Numbers(t, t.at, Len(t.entries))
  <2> HIDE DEF q
  <2> QED BY <1>0, <1>3, <1>4, <1>6 DEF Numbers
<1>8. Known(t)
  BY <1>0, <1>4 DEF Known
<1> QED BY <1>3, <1>4, <1>5, <1>7, <1>8 DEF Standing, t

\* At rest with another accepted place of the same page, or as before.
LEMMA StandingIsGood ==
  ASSUME NEW s, Standing(s), ~s.moving, Purpose(s), s.pc = "idle" => s.current.hash = s.route
  PROVE  Good(s)
  BY DEF Good, Standing, AtRest

LEMMA PopStateIsGood ==
  ASSUME NEW s, Good(s), NEW d \in Int, s.trips = <<d>>, s.at + d \in 1 .. Len(s.entries),
         s.moving => Wanted(s, s.entries[s.at + d]), Travels(s)
  PROVE  LET r == [s EXCEPT !.trips = <<>>]
             t == [r EXCEPT !.at = s.at + d]
         IN Good(Nav!OnPopState([t EXCEPT !.events = IF Nav!Here(t) = Nav!Here(r) THEN @ ELSE Append(@, Nav!Here(t))]))
<1> DEFINE to == s.at + d
           r == [s EXCEPT !.trips = <<>>]
           t == [r EXCEPT !.at = to]
           v == [t EXCEPT !.events = IF Nav!Here(t) = Nav!Here(r) THEN @ ELSE Append(@, Nav!Here(t))]
<1>0. DOMAIN s = Parts /\ s.events = <<>> /\ s.at \in 1 .. Len(s.entries)
  BY DEF Travels, Good, NavTypes
<1>1. Nav!Here(t) = s.entries[to].hash /\ Nav!Here(r) = s.entries[s.at].hash
  BY <1>0 DEF Nav!Here, Parts
<1>2. /\ DOMAIN v = Parts /\ v.entries = s.entries /\ v.at = to /\ v.trips = <<>> /\ v.traversals = s.traversals
      /\ v.events = (IF s.entries[to].hash = s.entries[s.at].hash THEN <<>> ELSE <<s.entries[to].hash>>)
      /\ v.current = s.current /\ v.known = s.known /\ v.moving = s.moving /\ v.accepted = s.accepted
      /\ v.active = s.active /\ v.lost = s.lost /\ Kept(s, v)
  <2>1. Append(s.events, s.entries[to].hash) = <<s.entries[to].hash>>
    BY <1>0
  <2> QED BY <1>0, <1>1, <2>1 DEF Parts, Kept
<1> HIDE DEF v, t, r
<1>3. NavTypes(v) /\ Purpose(v)
  BY <1>2 DEF Good, NavTypes, Purpose, Kept
<1>4. /\ s.current.hash = s.entries[s.at].hash /\ Numbers(v, s.at, Len(v.entries)) /\ Known(v)
      /\ v.traversals = <<>> /\ (v.pc = "idle" => v.current.hash = v.route)
      /\ v.moving => Wanted(v, v.entries[to])
  BY <1>2 DEF Travels, Numbers, Known, Wanted, Kept
<1>5. v.entries[to].state.hash = v.entries[to].hash /\ Nav!Here(v) = v.entries[to].hash
  <2>1. to \in 1 .. Len(v.entries) /\ v.at = to
    BY <1>2
  <2>2. v.entries[to].state = Nav!Position(v.current.index + (to - s.at), v.entries[to].hash)
    BY <1>4, <2>1 DEF Numbers
  <2> QED BY <2>1, <2>2 DEF Nav!Position, Nav!Here
<1>6. CASE v.entries[to].hash # v.current.hash
  <2> DEFINE u == [v EXCEPT !.traversals = Append(@, v.entries[to].state)]
  <2>1. Append(v.traversals, v.entries[to].state) = <<v.entries[to].state>>
    BY <1>4
  <2>2. /\ DOMAIN u = Parts /\ u.entries = v.entries /\ u.at = to /\ u.trips = <<>> /\ u.events = <<v.entries[to].hash>>
        /\ u.traversals = <<v.entries[to].state>> /\ u.current = v.current /\ u.known = v.known /\ u.moving = v.moving
        /\ u.accepted = v.accepted /\ u.active = v.active /\ u.lost = v.lost /\ Kept(v, u)
    BY <1>2, <1>4, <1>6, <2>1 DEF Parts, Kept
  <2> HIDE DEF u
  <2>3. NavTypes(u) /\ Purpose(u)
    BY <1>2, <1>3, <2>2 DEF NavTypes, Purpose, Kept
  <2>4. Numbers(u, s.at, Len(u.entries)) /\ Known(u) /\ s.at \in 1 .. Len(u.entries)
    BY <1>0, <1>2, <1>4, <2>2 DEF Numbers, Known
  <2>5. Travelled(u)
    BY <1>4, <2>2, <2>4 DEF Travelled, Wanted, Kept
  <2>6. Good(u)
    BY <2>3, <2>5 DEF Good
  <2> QED BY <1>2, <1>5, <1>6, <2>6 DEF Nav!OnPopState, u, v, t, r
<1>7. CASE v.entries[to].hash = v.current.hash
  <2> DEFINE w == Nav!Recorded(v, v.entries[v.at].state)
  <2>1. v.events = <<>>
    BY <1>2, <1>4, <1>7
  <2>2. /\ Standing(w) /\ Kept(v, w) /\ w.current = v.entries[to].state /\ w.entries = v.entries /\ w.at = to
        /\ w.current.hash = v.entries[to].hash /\ w.accepted = v.accepted /\ w.moving = v.moving /\ w.active = v.active
    <3>1. v.at = to /\ to \in 1 .. Len(v.entries) /\ s.at \in 1 .. Len(v.entries) /\ v.trips = <<>>
      BY <1>0, <1>2
    <3> HIDE DEF to
    <3> QED BY <1>3, <1>4, <2>1, <3>1, RecordedStands
  <2> HIDE DEF w
  <2>3. Purpose(w) /\ (w.pc = "idle" => w.current.hash = w.route)
    BY <1>3, <1>4, <1>7, <2>2 DEF Purpose, Kept
  <2>4. w.moving => Good(Nav!Moved(w))
    BY <1>4, <2>2, <2>3, MovedIsGood DEF Wanted, Kept
  <2>5. ~w.moving => Good(w)
    BY <2>2, <2>3, StandingIsGood
  <2>6. ASSUME ~w.moving, w.pc = "idle" PROVE Good([w EXCEPT !.accepted = w.current])
    <3> DEFINE x == [w EXCEPT !.accepted = w.current]
    <3>1. Rested(w)
      BY <2>2, <2>6 DEF Standing, Rested
    <3>2. Kept(w, x) /\ Rested(x) /\ x.accepted = x.current /\ x.current = w.current
      BY <3>1, ReachNear
    <3> HIDE DEF x
    <3>3. Good(x)
      BY <2>3, <2>6, <3>2, RestedIsGood DEF Kept
    <3> QED BY <3>3 DEF x
  <2>7. Nav!OnPopState(v) = IF v.moving THEN Nav!Moved(w)
                            ELSE IF v.pc = "idle" /\ v.entries[to].state.hash = v.accepted.hash
                            THEN [w EXCEPT !.accepted = v.entries[to].state] ELSE w
    BY <1>2, <1>5, <1>7 DEF Nav!OnPopState, w
  <2>8. Good(Nav!OnPopState(v))
    BY <2>2, <2>4, <2>5, <2>6, <2>7 DEF Kept
  <2> QED BY <2>8 DEF v, t, r
<1> QED BY <1>6, <1>7

\* The watcher hears of the stop at which the browser has arrived.
LEMMA ObserveTravelled ==
  ASSUME NEW s, NavTypes(s), NEW b \in 1 .. Len(s.entries), Numbers(s, b, Len(s.entries)), Known(s),
         s.trips = <<>>, s.events = <<>>, s.traversals = <<s.entries[s.at].state>>
  PROVE  LET t == Nav!Observe(s, s.entries[s.at].hash)
         IN /\ Standing(t) /\ Kept(s, t) /\ t.entries = s.entries /\ t.at = s.at
            /\ t.current.hash = s.entries[s.at].hash /\ t.accepted = s.accepted /\ t.moving = s.moving /\ t.active = s.active
<1> DEFINE q == s.entries[s.at].state
           h == s.entries[s.at].hash
           r == [s EXCEPT !.traversals = <<>>]
<1>1. q.hash = h
  <2>1. s.at \in 1 .. Len(s.entries)
    BY DEF NavTypes
  <2>2. q = Nav!Position(s.current.index + (s.at - b), h)
    BY <2>1 DEF Numbers
  <2> QED BY <2>2 DEF Nav!Position
<1>2. /\ DOMAIN r = Parts /\ r.entries = s.entries /\ r.at = s.at /\ r.trips = <<>> /\ r.events = <<>> /\ r.traversals = <<>>
      /\ r.current = s.current /\ r.known = s.known /\ r.moving = s.moving /\ r.accepted = s.accepted
      /\ r.active = s.active /\ r.lost = s.lost /\ Kept(s, r)
  BY DEF NavTypes, Parts, Kept
<1>3. Nav!Observe(s, h) = Nav!Recorded(r, q)
  <2> DEFINE I == {i \in 1 .. Len(<<q>>) : <<q>>[i].hash = h}
  <2>1. I = {1}
    BY <1>1
  <2>2. Nav!SelectInSeq(s.traversals, LAMBDA p : p.hash = h) = 1
    BY <2>1 DEF Nav!SelectInSeq, Nav!Min
  <2>3. Nav!RemoveAt(s.traversals, 1) = <<>>
    BY DEF Nav!RemoveAt
  <2>4. s.traversals[1] = q
    OBVIOUS
  <2> QED BY <2>2, <2>3, <2>4 DEF Nav!Observe
<1> HIDE DEF r
<1>4. NavTypes(r) /\ Numbers(r, b, Len(r.entries)) /\ Known(r)
  BY <1>2 DEF NavTypes, Numbers, Known, Kept
<1>5. q = r.entries[r.at].state /\ b \in 1 .. Len(r.entries)
  BY <1>2
<1> DEFINE t == Nav!Recorded(r, r.entries[r.at].state)
<1>6. /\ Standing(t) /\ Kept(r, t) /\ t.entries = r.entries /\ t.at = r.at
      /\ t.current.hash = r.entries[r.at].hash /\ t.accepted = r.accepted /\ t.moving = r.moving /\ t.active = r.active
  BY <1>2, <1>4, <1>5, RecordedStands
<1>7. Nav!Observe(s, h) = t
  BY <1>3, <1>5
<1> HIDE DEF t, q, h
<1>8. Kept(s, t)
  BY <1>2, <1>6 DEF Kept
<1> QED BY <1>2, <1>6, <1>7, <1>8 DEF h

\* Or of the address that the user has entered: its stop gets the next place.
LEMMA ObserveEntered ==
  ASSUME ServicesAssumption, NEW s, NavTypes(s), s.at = Len(s.entries), s.entries[s.at].state = Nav!None,
         Numbers(s, s.at - 1, s.at - 1),
         \A p \in s.known : p.index <= s.current.index => \E i \in 1 .. s.at - 1 : p = s.entries[i].state,
         s.trips = <<>>, s.events = <<>>, s.traversals = <<>>
  PROVE  LET t == Nav!Observe(s, s.entries[s.at].hash)
         IN /\ Standing(t) /\ Kept(s, t) /\ Nav!Here(t) = s.entries[s.at].hash
            /\ t.current.hash = s.entries[s.at].hash /\ t.accepted = s.accepted /\ t.moving = s.moving /\ t.active = s.active
<1> DEFINE h == s.entries[s.at].hash
           a == s.at - 1
           q == Nav!Position(s.current.index + 1, h)
           t == Nav!Stamped(Nav!Appended(s, h))
<1>0. /\ DOMAIN s = Parts /\ s.entries \in Seq(Stop) /\ s.at \in 1 .. Len(s.entries) /\ s.current.index \in Int
      /\ Len(s.entries) \in Nat /\ s.known \subseteq Place
  BY DEF NavTypes, Place
<1>1. a \in Nat \ {0} /\ s.at = a + 1
  BY <1>0 DEF Numbers
<1>2. h \in Hashes /\ h # "none"
  <2>1. s.entries[s.at] \in Stop
    BY <1>0
  <2> QED BY <2>1, NavConstants DEF Stop
<1>3. Nav!Observe(s, h) = t
  <2>1. Nav!SelectInSeq(s.traversals, LAMBDA p : p.hash = h) = 0
    BY DEF Nav!SelectInSeq
  <2>2. s.entries[s.at].state.hash = "none" /\ h = Nav!Here(s)
    BY DEF Nav!None, Nav!Here
  <2> QED BY <1>2, <2>1, <2>2 DEF Nav!Observe
<1>4. q \in Place /\ q.hash = h
  BY <1>0, <1>2 DEF Nav!Position, Place
<1>5. /\ DOMAIN t = Parts /\ t.entries = [s.entries EXCEPT ![s.at].state = q] /\ t.at = s.at /\ t.trips = <<>> /\ t.events = <<>>
      /\ t.traversals = <<>> /\ t.current = q /\ t.known = {p \in s.known : p.index < s.current.index + 1} \cup {q}
      /\ t.moving = s.moving /\ t.accepted = s.accepted /\ Kept(s, t) /\ t.active = s.active /\ t.lost = s.lost
  BY <1>0 DEF Nav!Stamped, Nav!Appended, Nav!Position, Parts, Kept
<1> HIDE DEF t
<1>6. /\ t.entries \in Seq(Stop) /\ Len(t.entries) = a + 1 /\ t.entries[a + 1] = Nav!Entry(h, q)
      /\ \A i \in 1 .. a : t.entries[i] = s.entries[i]
  <2>1. s.entries[s.at] \in Stop
    BY <1>0
  <2>2. [s.entries[s.at] EXCEPT !.state = q] = Nav!Entry(h, q)
    BY <2>1 DEF Stop, Nav!Entry
  <2>3. Nav!Entry(h, q) \in Stop
    BY <1>2, <1>4 DEF Stop, Nav!Entry
  <2>4. t.entries = [s.entries EXCEPT ![s.at] = Nav!Entry(h, q)]
    BY <1>5, <2>2
  <2> HIDE DEF q, h
  <2> QED BY <1>0, <1>1, <2>3, <2>4
<1>7. Numbers(t, t.at, Len(t.entries)) /\ Known(t)
  <2>1. /\ t.entries[a + 1] = Nav!Entry(h, Nav!Position(s.current.index + 1, h)) /\ t.current = Nav!Position(s.current.index + 1, h)
        /\ t.known = {p \in s.known : p.index < s.current.index + 1} \cup {Nav!Position(s.current.index + 1, h)}
    BY <1>5, <1>6
  <2> HIDE DEF q
  <2>2. GrownFrom(s, a, h, t)
    BY <1>0, <1>1, <1>5, <1>6, <2>1 DEF GrownFrom
  <2> QED BY <1>1, <2>2, Grown
<1>8. NavTypes(t)
  BY <1>0, <1>1, <1>4, <1>5, <1>6 DEF NavTypes, Kept
<1>9. Nav!Here(t) = h
  BY <1>1, <1>5, <1>6 DEF Nav!Here, Nav!Entry
<1> QED BY <1>3, <1>4, <1>5, <1>7, <1>8, <1>9 DEF Standing

LEMMA TargetIsGood ==
  ASSUME NEW s, Standing(s), ~s.moving, Purpose(s), s.pc = "idle"
  PROVE  /\ ~s.active => Good(Nav!Commit([s EXCEPT !.accepted = s.current], s.current.hash))
         /\ Good(Nav!ReachFirst([s EXCEPT !.target = s.current, !.go = FALSE]))
<1>0. /\ DOMAIN s = Parts /\ Rested(s) /\ s.current \in Place /\ s.active = s.dirty /\ s.dirty \in BOOLEAN
      /\ s.go \in BOOLEAN /\ s.yes \in BOOLEAN /\ s.lost = FALSE /\ s.accepted.hash = s.route
  BY DEF Standing, Rested, NavTypes, Purpose
<1>1. ASSUME ~s.active PROVE Good(Nav!Commit([s EXCEPT !.accepted = s.current], s.current.hash))
  <2> DEFINE r == [s EXCEPT !.accepted = s.current]
             t == Nav!Commit(r, s.current.hash)
  <2>1. /\ DOMAIN t = Parts /\ SameStops(s, t) /\ t.accepted = s.current /\ t.go = s.go /\ t.yes = s.yes /\ t.pc = "idle"
        /\ t.route = s.current.hash /\ t.dirty = FALSE /\ t.active = FALSE /\ t.lost = FALSE
    BY <1>0, <1>1 DEF Nav!Commit, Parts, SameStops
  <2> HIDE DEF t
  <2>2. NavTypes(t)
    BY <1>0, <2>1 DEF NavTypes, Rested, SameStops, Place
  <2>3. t.current = s.current
    BY <2>1 DEF SameStops
  <2>4. Good(t)
    BY <1>0, <2>1, <2>2, <2>3, RestedStays, RestedIsGood
  <2> QED BY <2>4 DEF t
<1>2. Good(Nav!ReachFirst([s EXCEPT !.target = s.current, !.go = FALSE]))
  <2> DEFINE t == [s EXCEPT !.target = s.current, !.go = FALSE]
  <2>1. /\ DOMAIN t = Parts /\ SameStops(s, t) /\ t.accepted = s.accepted /\ t.go = FALSE /\ t.yes = s.yes
        /\ t.target = s.current /\ t.route = s.route /\ t.dirty = s.dirty /\ t.active = s.active /\ t.lost = s.lost
    BY <1>0 DEF Parts, SameStops
  <2> HIDE DEF t
  <2>2. Rested(t)
    BY <1>0, <2>1, RestedAt
  <2>3. Good(Nav!ReachFirst(t))
    BY <1>0, <2>1, <2>2, ReachFirstIsGood
  <2> QED BY <2>3 DEF t
<1> QED BY <1>1, <1>2

\* The browser has told the watcher of its stop, one way or the other.
LEMMA ObservedIsGood ==
  ASSUME NEW s, NEW h, NEW t, t = Nav!Observe(s, h), Standing(t), Purpose(t), h = Nav!Here(t),
         t.moving /\ t.pc # "target" => t.current.hash = t.route
  PROVE  Good(Nav!OnChange(s, h))
<1>1. CASE t.moving
  <2>1. Good(Nav!Moved(t))
    BY <1>1, MovedIsGood
  <2> QED BY <1>1, <2>1 DEF Nav!OnChange
<1>2. CASE ~t.moving /\ (t.pc # "idle" \/ t.current.hash = t.accepted.hash)
  <2>1. Good(t)
    BY <1>2, StandingIsGood DEF Purpose
  <2> QED BY <1>2, <2>1 DEF Nav!OnChange
<1>3. CASE ~t.moving /\ t.pc = "idle" /\ t.current.hash # t.accepted.hash
  <2> DEFINE c == Nav!Commit([t EXCEPT !.accepted = t.current], t.current.hash)
             f == Nav!ReachFirst([t EXCEPT !.target = t.current, !.go = FALSE])
  <2>1. (~t.active => Good(c)) /\ Good(f)
    BY <1>3, TargetIsGood
  <2>2. Nav!OnChange(s, h) = IF ~t.active THEN c ELSE f
    BY <1>3 DEF Nav!OnChange
  <2> HIDE DEF c, f
  <2> QED BY <2>1, <2>2
<1> QED BY <1>1, <1>2, <1>3

LEMMA ChangeIsGood ==
  ASSUME ServicesAssumption, NEW s, Good(s), s.events # <<>>
  PROVE  Good(Nav!OnChange([s EXCEPT !.events = Tail(@)], Head(s.events)))
<1> DEFINE r == [s EXCEPT !.events = Tail(@)]
           h == s.entries[s.at].hash
           t == Nav!Observe(r, h)
<1>1. s.events = <<h>> /\ s.trips = <<>> /\ (Travelled(s) \/ Entered(s))
  BY DEF Good, AtRest, Travels, Travelled, Entered
<1>2. Head(s.events) = h /\ Tail(s.events) = <<>>
  BY <1>1
<1>3. /\ DOMAIN r = Parts /\ r.entries = s.entries /\ r.at = s.at /\ r.trips = <<>> /\ r.events = <<>>
      /\ r.traversals = s.traversals /\ r.current = s.current /\ r.known = s.known /\ r.moving = s.moving
      /\ r.accepted = s.accepted /\ r.active = s.active /\ r.lost = s.lost /\ Kept(s, r)
  BY <1>1, <1>2 DEF Good, NavTypes, Parts, Kept
<1> HIDE DEF r
<1>4. NavTypes(r) /\ Purpose(s)
  BY <1>3 DEF Good, NavTypes, Kept
<1>5. h = r.entries[r.at].hash
  BY <1>3
<1>6. /\ Standing(t) /\ Kept(r, t) /\ Nav!Here(t) = h /\ t.current.hash = h /\ t.accepted = r.accepted
      /\ t.moving = r.moving /\ (s.moving => Wanted(s, s.entries[s.at]))
  <2>1. CASE Travelled(s)
    <3>1. PICK b \in 1 .. Len(s.entries) : Numbers(s, b, Len(s.entries))
      BY <2>1 DEF Travelled
    <3>2. Numbers(r, b, Len(r.entries)) /\ Known(r) /\ b \in 1 .. Len(r.entries) /\ r.traversals = <<r.entries[r.at].state>>
      BY <1>3, <2>1, <3>1 DEF Travelled, Numbers, Known
    <3> DEFINE u == Nav!Observe(r, r.entries[r.at].hash)
    <3>3. /\ Standing(u) /\ Kept(r, u) /\ u.entries = r.entries /\ u.at = r.at
          /\ u.current.hash = r.entries[r.at].hash /\ u.accepted = r.accepted /\ u.moving = r.moving /\ u.active = r.active
      BY <1>3, <1>4, <3>2, ObserveTravelled
    <3>4. t = u
      BY <1>5
    <3> HIDE DEF t, u
    <3> QED BY <1>5, <2>1, <3>3, <3>4 DEF Travelled, Nav!Here
  <2>2. CASE Entered(s)
    <3>1. /\ r.at = Len(r.entries) /\ r.entries[r.at].state = Nav!None /\ Numbers(r, r.at - 1, r.at - 1)
          /\ \A p \in r.known : p.index <= r.current.index => \E i \in 1 .. r.at - 1 : p = r.entries[i].state
          /\ r.traversals = <<>> /\ ~s.moving
      <4>1. s.at = Len(s.entries) /\ s.entries[s.at].state = Nav!None /\ s.traversals = <<>> /\ ~s.moving
        BY <2>2 DEF Entered
      <4>2. \A p \in s.known : p.index <= s.current.index => \E i \in 1 .. s.at - 1 : p = s.entries[i].state
        BY <2>2 DEF Entered
      <4>3. Numbers(s, s.at - 1, s.at - 1)
        BY <2>2 DEF Entered
      <4>4. Numbers(r, s.at - 1, s.at - 1)
        BY <1>3, <4>3 DEF Numbers
      <4> QED BY <1>3, <4>1, <4>2, <4>4
    <3> DEFINE u == Nav!Observe(r, r.entries[r.at].hash)
    <3>2. /\ Standing(u) /\ Kept(r, u) /\ Nav!Here(u) = r.entries[r.at].hash
          /\ u.current.hash = r.entries[r.at].hash /\ u.accepted = r.accepted /\ u.moving = r.moving /\ u.active = r.active
      BY <1>3, <1>4, <3>1, ObserveEntered
    <3>3. t = u
      BY <1>5
    <3> HIDE DEF t, u
    <3> QED BY <1>5, <3>1, <3>2, <3>3
  <2> QED BY <1>1, <2>1, <2>2
<1>7. Purpose(t) /\ (t.moving /\ t.pc # "target" => t.current.hash = t.route)
  <2> HIDE DEF t, h
  <2> QED BY <1>3, <1>4, <1>6 DEF Purpose, Kept, Wanted, h
<1>8. Good(Nav!OnChange(r, h))
  <2> HIDE DEF h
  <2>1. t = Nav!Observe(r, h)
    OBVIOUS
  <2> HIDE DEF t
  <2> QED BY <1>6, <1>7, <2>1, ObservedIsGood
<1> QED BY <1>2, <1>8 DEF r

Alike(s, t) == SameStops(s, t) /\ Kept(s, t) /\ t.accepted = s.accepted /\ t.active = s.active /\ t.lost = s.lost

LEMMA EnteredStays ==
  ASSUME NEW s, NEW t, SameStops(s, t), Entered(s)
  PROVE  Entered(t)
<1>1. Numbers(s, s.at - 1, s.at - 1)
  BY DEF Entered
<1>2. Numbers(t, s.at - 1, s.at - 1)
  BY <1>1 DEF Numbers, SameStops
<1>3. \A p \in s.known : p.index <= s.current.index => \E i \in 1 .. s.at - 1 : p = s.entries[i].state
  BY DEF Entered
<1>4. /\ s.trips = <<>> /\ s.events = <<s.entries[s.at].hash>> /\ s.traversals = <<>>
      /\ s.at = Len(s.entries) /\ s.entries[s.at].state = Nav!None /\ ~s.moving
  BY DEF Entered
<1>5. /\ t.entries = s.entries /\ t.at = s.at /\ t.trips = s.trips /\ t.events = s.events /\ t.traversals = s.traversals
      /\ t.known = s.known /\ t.current = s.current /\ t.moving = s.moving
  BY DEF SameStops
<1> QED BY <1>2, <1>3, <1>4, <1>5 DEF Entered

LEMMA GoodAlike ==
  ASSUME NEW s, NEW t, Good(s), DOMAIN t = Parts, Alike(s, t)
  PROVE  Good(t)
<1> USE DEF Alike
<1>1. NavTypes(t) /\ Purpose(t)
  BY DEF Good, NavTypes, Purpose, SameStops, Kept
<1>2. AtRest(s) => AtRest(t)
  BY DEF AtRest, Numbers, Known, SameStops, Kept
<1>3. Travels(s) => Travels(t)
  BY DEF Travels, Numbers, Known, SameStops, Kept, Wanted
<1>4. Travelled(s) => Travelled(t)
  BY DEF Travelled, Numbers, Known, SameStops, Kept, Wanted
<1>5. Entered(s) => Entered(t)
  BY EnteredStays
<1> QED BY <1>1, <1>2, <1>3, <1>4, <1>5 DEF Good

LEMMA BecomesGood ==
  ASSUME RecordFields, NEW t, Good(t), Nav!Becomes(t)
  PROVE  RecordFields' /\ Good(Nav!State')
<1>1. RecordFields'
  BY DEF RecordFields, Nav!Becomes
<1> DEFINE s == Nav!State'
<1>2. /\ DOMAIN s = Parts
      /\ s.entries = t.entries /\ s.at = t.at /\ s.trips = t.trips /\ s.events = t.events
  BY <1>1 DEF RecordFields, Nav!State, Nav!Becomes, Parts
<1>3. /\ s.accepted = t.accepted /\ s.current = t.current /\ s.known = t.known /\ s.traversals = t.traversals
      /\ s.moving = t.moving /\ s.pc = t.pc /\ s.target = t.target /\ s.go = t.go /\ s.yes = t.yes
  BY <1>1 DEF RecordFields, Nav!State, Nav!Becomes
<1>4. s.route = t.route /\ s.dirty = t.dirty /\ s.active = t.active /\ s.lost = t.lost
  BY <1>1 DEF RecordFields, Nav!State, Nav!Becomes
<1> HIDE DEF s
<1>5. Good(s)
  BY <1>2, <1>3, <1>4, GoodAlike DEF Alike, SameStops, Kept
<1> QED BY <1>1, <1>5 DEF s

\* When the user acts, the browser has come to rest.
LEMMA SettledRests ==
  ASSUME RecordFields, Good(Nav!State), Nav!Settled
  PROVE  Rested(Nav!State) /\ Purpose(Nav!State) /\ AtRest(Nav!State)
<1> DEFINE s == Nav!State
<1>1. s.trips = <<>> /\ s.events = <<>>
  BY DEF RecordFields, Nav!State, Nav!Settled
<1> HIDE DEF s
<1>2. Good(s)
  BY DEF s
<1>3. AtRest(s)
  BY <1>1, <1>2 DEF Good, Travels, Travelled, Entered
<1> QED BY <1>2, <1>3 DEF Good, AtRest, Rested, s

LEMMA StateFields ==
  ASSUME RecordFields
  PROVE  LET s == Nav!State
         IN /\ DOMAIN s = Parts /\ s.trips = browser.trips /\ s.events = browser.events /\ s.pc = watcher.pc
            /\ s.dirty = form.dirty /\ s.at = browser.at /\ s.entries = browser.entries /\ s.route = form.route
            /\ s.lost = form.lost /\ s.accepted = watcher.accepted /\ s.moving = watcher.moving
  BY DEF RecordFields, Nav!State, Parts

LEMMA TraverseIsGood ==
  ASSUME NEW s, Rested(s), Purpose(s), AtRest(s), NEW delta \in Int
  PROVE  Good([s EXCEPT !.trips = Append(@, delta)])
<1> DEFINE t == [s EXCEPT !.trips = Append(@, delta)]
<1>1. Append(s.trips, delta) = <<delta>>
  BY DEF Rested
<1>2. /\ DOMAIN t = Parts /\ t.entries = s.entries /\ t.at = s.at /\ t.trips = <<delta>> /\ t.events = s.events
      /\ t.traversals = s.traversals /\ t.current = s.current /\ t.known = s.known /\ t.moving = s.moving
      /\ t.accepted = s.accepted /\ Kept(s, t) /\ t.active = s.active /\ t.lost = s.lost
  BY <1>1 DEF Rested, NavTypes, Parts, Kept
<1> HIDE DEF t
<1>3. NavTypes(t) /\ Purpose(t)
  BY <1>2 DEF Rested, NavTypes, Purpose, Kept
<1>4. Travels(t)
  BY <1>2 DEF Rested, AtRest, Travels, Numbers, Known, Kept
<1> QED BY <1>3, <1>4 DEF Good, t

LEMMA LinkIsGood ==
  ASSUME NEW s, Rested(s), Purpose(s), s.pc = "idle", NEW h \in Hashes
  PROVE  Good([s EXCEPT !.pc = "clickAsk", !.target = Nav!Position(-1, h), !.go = FALSE])
<1> DEFINE t == [s EXCEPT !.pc = "clickAsk", !.target = Nav!Position(-1, h), !.go = FALSE]
<1>0. DOMAIN s = Parts /\ s.active = s.dirty /\ s.dirty \in BOOLEAN /\ s.yes \in BOOLEAN /\ s.accepted.hash = s.route
  BY DEF Rested, NavTypes, Purpose
<1>1. /\ DOMAIN t = Parts /\ SameStops(s, t) /\ t.accepted = s.accepted /\ t.route = s.route /\ t.dirty = s.dirty
      /\ t.active = s.active /\ t.lost = s.lost /\ t.go = FALSE /\ t.yes = s.yes
      /\ t.target = Nav!Position(-1, h) /\ t.pc = "clickAsk"
  BY <1>0 DEF Parts, SameStops
<1>2. t.target \in Place
  BY <1>1 DEF Nav!Position, Place
<1> HIDE DEF t
<1>3. Rested(t)
  BY <1>0, <1>1, RestedAt
<1>4. Good(t)
  BY <1>0, <1>1, <1>2, <1>3, RestedIsGood
<1> QED BY <1>4 DEF t

LEMMA TypesIsGood ==
  ASSUME NEW s, Rested(s), Purpose(s), AtRest(s), s.pc = "idle"
  PROVE  Good([s EXCEPT !.dirty = TRUE, !.active = TRUE])
<1> DEFINE t == [s EXCEPT !.dirty = TRUE, !.active = TRUE]
<1>0. DOMAIN s = Parts /\ s.go \in BOOLEAN /\ s.yes \in BOOLEAN /\ s.accepted.hash = s.route /\ s.current.hash = s.route
  BY DEF Rested, NavTypes, Purpose, AtRest
<1>1. /\ DOMAIN t = Parts /\ SameStops(s, t) /\ t.accepted = s.accepted /\ t.route = s.route /\ t.dirty = TRUE
      /\ t.active = TRUE /\ t.lost = s.lost /\ t.go = s.go /\ t.yes = s.yes /\ t.pc = "idle"
  BY <1>0 DEF Parts, SameStops
<1> HIDE DEF t
<1>2. Rested(t) /\ t.current = s.current
  BY <1>0, <1>1, RestedAt
<1>3. Good(t)
  BY <1>0, <1>1, <1>2, RestedIsGood
<1> QED BY <1>3 DEF t

LEMMA SavedIsGood ==
  ASSUME NEW s, Good(s)
  PROVE  Good([s EXCEPT !.dirty = FALSE, !.active = FALSE])
<1> DEFINE t == [s EXCEPT !.dirty = FALSE, !.active = FALSE]
<1>1. /\ DOMAIN t = Parts /\ SameStops(s, t) /\ t.accepted = s.accepted /\ t.route = s.route /\ t.dirty = FALSE
      /\ t.active = FALSE /\ t.lost = s.lost /\ t.go = s.go /\ t.yes = s.yes /\ t.pc = s.pc /\ t.target = s.target
  BY DEF Good, NavTypes, Parts, SameStops
<1> HIDE DEF t
<1>2. NavTypes(t) /\ Purpose(t)
  BY <1>1 DEF Good, NavTypes, Purpose, SameStops
<1>3. AtRest(s) => AtRest(t)
  BY <1>1 DEF AtRest, Numbers, Known, SameStops
<1>4. Travels(s) => Travels(t)
  BY <1>1 DEF Travels, Numbers, Known, SameStops, Wanted
<1>5. Travelled(s) => Travelled(t)
  BY <1>1 DEF Travelled, Numbers, Known, SameStops, Wanted
<1>6. Entered(s) => Entered(t)
  BY <1>1, EnteredStays
<1> QED BY <1>2, <1>3, <1>4, <1>5, <1>6 DEF Good, t

LEMMA AnswerIsGood ==
  ASSUME NEW s, Rested(s), Purpose(s), s.pc # "idle", NEW yes \in BOOLEAN, NEW keeps \in BOOLEAN
  PROVE  LET t == [s EXCEPT !.go = yes, !.yes = yes, !.dirty = IF yes /\ ~keeps THEN FALSE ELSE @,
                            !.active = IF yes /\ ~keeps THEN FALSE ELSE s.dirty]
         IN Good(Nav!Answered(t)) /\ Good(Nav!Clicked(t))
<1> DEFINE t == [s EXCEPT !.go = yes, !.yes = yes, !.dirty = IF yes /\ ~keeps THEN FALSE ELSE @,
                          !.active = IF yes /\ ~keeps THEN FALSE ELSE s.dirty]
<1>0. DOMAIN s = Parts /\ s.dirty \in BOOLEAN /\ s.accepted.hash = s.route /\ s.target \in Place
  BY DEF Rested, NavTypes, Purpose
<1>1. /\ DOMAIN t = Parts /\ SameStops(s, t) /\ t.accepted = s.accepted /\ t.route = s.route /\ t.active = t.dirty
      /\ t.dirty \in BOOLEAN /\ t.lost = s.lost /\ t.go = yes /\ t.yes = yes /\ t.target = s.target
  BY <1>0 DEF Parts, SameStops
<1> HIDE DEF t
<1>2. Rested(t)
  BY <1>0, <1>1, RestedAt
<1>3. Good(Nav!Answered(t)) /\ Good(Nav!Clicked(t))
  BY <1>0, <1>1, <1>2, AnsweredIsGood, ClickedIsGood
<1> QED BY <1>3 DEF t

\* The browser is asked for a stop that is not there and stays where it is.
LEMMA StayIsGood ==
  ASSUME NEW s, Good(s), Travels(s), ~s.moving
  PROVE  Good([s EXCEPT !.trips = <<>>])
<1> DEFINE t == [s EXCEPT !.trips = <<>>]
<1>1. /\ DOMAIN t = Parts /\ t.entries = s.entries /\ t.at = s.at /\ t.trips = <<>> /\ t.events = s.events
      /\ t.traversals = s.traversals /\ t.current = s.current /\ t.known = s.known /\ t.moving = s.moving
      /\ t.accepted = s.accepted /\ Kept(s, t) /\ t.active = s.active /\ t.lost = s.lost
  BY DEF Good, NavTypes, Parts, Kept
<1> HIDE DEF t
<1>2. NavTypes(t) /\ Purpose(t)
  BY <1>1 DEF Good, NavTypes, Purpose, Kept
<1>3. AtRest(t)
  BY <1>1 DEF Travels, AtRest, Numbers, Known, Kept
<1> QED BY <1>2, <1>3 DEF Good, t

\* The user's actions, when the browser has come to rest.
LEMMA UserStep ==
  ASSUME ServicesAssumption, NavInv, Nav!Acts,
         \/ \E h \in Hashes : Nav!EditAddress(h) \/ Nav!ClickLink(h)
         \/ \E delta \in {-1, 1} : Nav!Traverse(delta)
  PROVE  NavInv'
<1> DEFINE s == Nav!State
<1>1. Rested(s) /\ Purpose(s) /\ AtRest(s)
  BY SettledRests DEF NavInv, Nav!Acts
<1>2. acts' \in 0 .. MaxMoves
  BY NavConstants DEF NavInv, Nav!Acts
<1>3. \E t : Good(t) /\ Nav!Becomes(t)
  <2>1. CASE \E h \in Hashes : Nav!EditAddress(h)
    <3>1. PICK h \in Hashes : h # Nav!Here(s) /\ Nav!Becomes(Nav!Edited(s, h))
      BY <2>1 DEF Nav!EditAddress
    <3> HIDE DEF s
    <3> QED BY <1>1, <3>1, EditedIsGood
  <2>2. CASE \E h \in Hashes : Nav!ClickLink(h)
    <3> DEFINE Held(h) == [s EXCEPT !.pc = "clickAsk", !.target = Nav!Position(-1, h), !.go = FALSE]
    <3>1. PICK h \in Hashes : s.pc = "idle" /\ h # Nav!Here(s) /\ (Nav!Becomes(Nav!Edited(s, h)) \/ Nav!Becomes(Held(h)))
      BY <2>2 DEF Nav!ClickLink
    <3> HIDE DEF s
    <3>2. Good(Nav!Edited(s, h)) /\ Good(Held(h))
      BY <1>1, <3>1, EditedIsGood, LinkIsGood
    <3> HIDE DEF Held
    <3> QED BY <3>1, <3>2
  <2>3. CASE \E delta \in {-1, 1} : Nav!Traverse(delta)
    <3> DEFINE Trip(delta) == [s EXCEPT !.trips = Append(@, delta)]
    <3>1. PICK delta \in {-1, 1} : Nav!Becomes(Trip(delta))
      BY <2>3 DEF Nav!Traverse
    <3> HIDE DEF s
    <3>2. delta \in Int
      OBVIOUS
    <3>3. Good(Trip(delta))
      BY <1>1, <3>2, TraverseIsGood
    <3> QED BY <3>1, <3>3
  <2> QED BY <2>1, <2>2, <2>3
<1> QED BY <1>2, <1>3, BecomesGood DEF NavInv

\* What happens while the page is mounted.
LEMMA FormStep ==
  ASSUME NavInv, Nav!Types \/ Nav!Saved \/ \E yes, keeps \in BOOLEAN : Nav!Answer(yes, keeps)
  PROVE  NavInv'
<1> DEFINE s == Nav!State
<1>1. UNCHANGED acts
  BY DEF Nav!Types, Nav!Saved, Nav!Answer
<1>2. Nav!Settled => Rested(s) /\ Purpose(s) /\ AtRest(s)
  BY SettledRests DEF NavInv
<1>3. s.pc = watcher.pc /\ Good(s)
  BY StateFields DEF NavInv
<1>4. \E t : Good(t) /\ Nav!Becomes(t)
  <2>1. CASE Nav!Types
    <3> DEFINE t == [s EXCEPT !.dirty = TRUE, !.active = TRUE]
    <3>1. Nav!Settled /\ s.pc \notin {"ask", "clickAsk"} /\ Nav!Becomes(t)
      BY <1>3, <2>1 DEF Nav!Types
    <3> HIDE DEF s
    <3>2. s.pc = "idle"
      BY <1>2, <3>1 DEF Purpose, AtRest
    <3>3. Good(t)
      BY <1>2, <3>1, <3>2, TypesIsGood
    <3> QED BY <3>1, <3>3
  <2>2. CASE Nav!Saved
    <3> DEFINE t == [s EXCEPT !.dirty = FALSE, !.active = FALSE]
    <3>1. Nav!Becomes(t)
      BY <2>2 DEF Nav!Saved
    <3> HIDE DEF s
    <3>2. Good(t)
      BY <1>3, SavedIsGood
    <3> QED BY <3>1, <3>2
  <2>3. ASSUME NEW yes \in BOOLEAN, NEW keeps \in BOOLEAN, Nav!Answer(yes, keeps)
        PROVE  \E t : Good(t) /\ Nav!Becomes(t)
    <3> DEFINE t == [s EXCEPT !.go = yes, !.yes = yes, !.dirty = IF yes /\ ~keeps THEN FALSE ELSE @,
                              !.active = IF yes /\ ~keeps THEN FALSE ELSE s.dirty]
    <3>1. Nav!Settled /\ s.pc # "idle" /\ (Nav!Becomes(Nav!Answered(t)) \/ Nav!Becomes(Nav!Clicked(t)))
      BY <2>3 DEF Nav!Answer
    <3> HIDE DEF s
    <3>2. Good(Nav!Answered(t)) /\ Good(Nav!Clicked(t))
      BY <1>2, <3>1, AnswerIsGood
    <3> HIDE DEF t
    <3> QED BY <3>1, <3>2
  <2> QED BY <2>1, <2>2, <2>3
<1> QED BY <1>1, <1>4, BecomesGood DEF NavInv

\* The browser's own steps.
LEMMA BrowserStep ==
  ASSUME ServicesAssumption, NavInv, Nav!Arrive \/ Nav!HashChange
  PROVE  NavInv'
<1> DEFINE s == Nav!State
<1>1. UNCHANGED acts
  BY DEF Nav!Arrive, Nav!HashChange
<1>2. s.trips = browser.trips /\ s.events = browser.events /\ Good(s)
  BY StateFields DEF NavInv
<1>3. CASE Nav!Arrive
  <2> DEFINE r == [s EXCEPT !.trips = Tail(@)]
             t(to) == [r EXCEPT !.at = to]
             Popped(to) == Nav!OnPopState([t(to) EXCEPT !.events = IF Nav!Here(t(to)) = Nav!Here(r) THEN @ ELSE Append(@, Nav!Here(t(to)))])
             to == r.at + Head(browser.trips)
  <2>1. browser.trips # <<>> /\ Nav!Becomes(IF to \notin DOMAIN r.entries THEN r ELSE Popped(to))
    BY <1>3 DEF Nav!Arrive
  <2> HIDE DEF s
  <2>2. Travels(s)
    BY <1>2, <2>1 DEF Good, AtRest, Travelled, Entered
  <2>3. PICK d \in Int : /\ s.trips = <<d>>
                         /\ s.moving => s.at + d \in 1 .. Len(s.entries) /\ Wanted(s, s.entries[s.at + d])
    BY <2>2 DEF Travels
  <2>4. r = [s EXCEPT !.trips = <<>>]
    <3>1. Tail(s.trips) = <<>>
      BY <2>3
    <3> QED BY <3>1
  <2>5. DOMAIN s = Parts /\ s.entries \in Seq(Stop)
    BY <1>2 DEF Good, NavTypes
  <2>6. r.entries = s.entries /\ r.at = s.at /\ DOMAIN s.entries = 1 .. Len(s.entries)
    BY <2>4, <2>5 DEF Parts
  <2>7. to = s.at + d
    <3>1. Head(browser.trips) = d
      BY <1>2, <2>3
    <3> QED BY <2>6, <3>1
  <2>8. CASE to \notin 1 .. Len(s.entries)
    <3>1. ~s.moving
      BY <2>3, <2>7, <2>8
    <3>2. Good([s EXCEPT !.trips = <<>>])
      BY <1>2, <2>2, <3>1, StayIsGood
    <3>3. Good(r) /\ Nav!Becomes(r)
      <4> HIDE DEF r, Popped, to
      <4> QED BY <2>1, <2>4, <2>6, <2>8, <3>2
    <3> HIDE DEF r
    <3> QED BY <1>1, <3>3, BecomesGood DEF NavInv
  <2>9. CASE to \in 1 .. Len(s.entries)
    <3>1. Good(Popped(to))
      <4> DEFINE q == [s EXCEPT !.trips = <<>>]
                 u == [q EXCEPT !.at = s.at + d]
      <4>1. Good(Nav!OnPopState([u EXCEPT !.events = IF Nav!Here(u) = Nav!Here(q) THEN @ ELSE Append(@, Nav!Here(u))]))
        BY <1>2, <2>2, <2>3, <2>7, <2>9, PopStateIsGood
      <4>2. q = r
        BY <2>4
      <4>3. u = t(to)
        BY <2>7, <4>2
      <4> HIDE DEF q, u, r, t, to
      <4>4. Popped(to) = Nav!OnPopState([u EXCEPT !.events = IF Nav!Here(u) = Nav!Here(q) THEN @ ELSE Append(@, Nav!Here(u))])
        BY <4>2, <4>3
      <4> HIDE DEF Popped
      <4> QED BY <4>1, <4>4
    <3> HIDE DEF Popped
    <3>2. Nav!Becomes(Popped(to))
      <4> HIDE DEF r, to
      <4> QED BY <2>1, <2>6, <2>9
    <3> QED BY <1>1, <3>1, <3>2, BecomesGood DEF NavInv
  <2> QED BY <2>8, <2>9
<1>4. CASE Nav!HashChange
  <2> DEFINE t == Nav!OnChange([s EXCEPT !.events = Tail(@)], Head(s.events))
  <2>1. s.events # <<>> /\ Nav!Becomes(t)
    BY <1>2, <1>4 DEF Nav!HashChange
  <2> HIDE DEF s
  <2>2. Good(t)
    BY <1>2, <2>1, ChangeIsGood
  <2> HIDE DEF t
  <2> QED BY <1>1, <2>1, <2>2, BecomesGood DEF NavInv
<1> QED BY <1>3, <1>4

LEMMA NavStep ==
  ASSUME ServicesAssumption, NavInv, Nav!Next \/ UNCHANGED navVars
  PROVE  NavInv'
<1>1. CASE \/ \E h \in Hashes : Nav!EditAddress(h) \/ Nav!ClickLink(h)
           \/ \E delta \in {-1, 1} : Nav!Traverse(delta)
  <2>1. Nav!Acts
    BY <1>1 DEF Nav!EditAddress, Nav!ClickLink, Nav!Traverse
  <2> QED BY <1>1, <2>1, UserStep
<1>2. CASE Nav!Types \/ Nav!Saved \/ \E yes, keeps \in BOOLEAN : Nav!Answer(yes, keeps)
  BY <1>2, FormStep
<1>3. CASE Nav!Arrive \/ Nav!HashChange
  BY <1>3, BrowserStep
<1>4. CASE UNCHANGED navVars
  <2>1. RecordFields' /\ Nav!State' = Nav!State /\ acts' = acts
    BY <1>4 DEF navVars, NavInv, RecordFields, Nav!State
  <2>2. Good(Nav!State')
    BY <2>1 DEF NavInv
  <2> QED BY <2>1, <2>2 DEF NavInv
<1> QED BY <1>1, <1>2, <1>3, <1>4 DEF Nav!Next

LEMMA NavInit ==
  ASSUME ServicesAssumption, Nav!Init
  PROVE  NavInv
<1> DEFINE Stack(h, g) == <<Nav!Entry(h, Nav!Position(0, h)), Nav!Entry(g, Nav!Position(1, g))>>
           Hash(h, g, i) == IF i = 1 THEN h ELSE g
<1>1. PICK h, g \in Hashes, i \in 1 .. 2, n \in 1 .. 2 :
        LET here == Nav!Position(IF n = 1 THEN 0 ELSE i - 1, IF i = 1 THEN h ELSE g)
        IN /\ i <= n /\ h # g
           /\ browser = [entries |-> SubSeq(Stack(h, g), 1, n), at |-> i, trips |-> <<>>, events |-> <<>>]
           /\ watcher = [accepted |-> here, current |-> here, known |-> {here}, traversals |-> <<>>,
                         moving |-> FALSE, pc |-> "idle", target |-> Nav!None, go |-> FALSE, yes |-> FALSE]
           /\ form = [route |-> here.hash, dirty |-> FALSE, active |-> FALSE, lost |-> FALSE]
  BY DEF Nav!Init
<1> DEFINE here == Nav!Position(i - 1, Hash(h, g, i))
           e == SubSeq(Stack(h, g), 1, n)
<1>2. i <= n /\ (IF n = 1 THEN 0 ELSE i - 1) = i - 1
  BY <1>1
<1>3. /\ browser = [entries |-> e, at |-> i, trips |-> <<>>, events |-> <<>>]
      /\ watcher = [accepted |-> here, current |-> here, known |-> {here}, traversals |-> <<>>,
                    moving |-> FALSE, pc |-> "idle", target |-> Nav!None, go |-> FALSE, yes |-> FALSE]
      /\ form = [route |-> here.hash, dirty |-> FALSE, active |-> FALSE, lost |-> FALSE]
  BY <1>1, <1>2
<1>4. ASSUME NEW j \in 1 .. 2
      PROVE  /\ Stack(h, g)[j] \in Stop /\ Stack(h, g)[j].hash = Hash(h, g, j)
             /\ Stack(h, g)[j].state = Nav!Position(j - 1, Hash(h, g, j))
  BY DEF Nav!Entry, Nav!Position, Stop, Place
<1>5. /\ e \in Seq(Stop) /\ Len(e) = n
      /\ \A j \in 1 .. n : e[j].hash = Hash(h, g, j) /\ e[j].state = Nav!Position(j - 1, Hash(h, g, j))
  <2>1. Stack(h, g) \in Seq(Stop) /\ Len(Stack(h, g)) = 2
    BY <1>4
  <2> HIDE DEF Stack, Hash
  <2>2. e \in Seq(Stop) /\ Len(e) = n /\ \A j \in 1 .. n : e[j] = Stack(h, g)[j]
    <3>1. n \in 1 .. Len(Stack(h, g))
      BY <2>1
    <3> QED BY <2>1, <3>1, Cut
  <2> QED BY <1>4, <2>2
<1>6. here \in Place /\ here.index = i - 1 /\ here.hash = Hash(h, g, i) /\ here.hash \in Hashes
  BY DEF Nav!Position, Place
<1> HIDE DEF e, here, Stack, Hash
<1>7. RecordFields /\ acts \in 0 .. MaxMoves
  BY <1>3, NavConstants DEF RecordFields, Nav!Init
<1> DEFINE s == Nav!State
<1>8. /\ DOMAIN s = Parts /\ s.entries = e /\ s.at = i /\ s.trips = <<>> /\ s.events = <<>> /\ s.traversals = <<>>
      /\ s.accepted = here /\ s.current = here /\ s.known = {here} /\ s.moving = FALSE /\ s.pc = "idle"
      /\ s.go = FALSE /\ s.yes = FALSE /\ s.route = here.hash /\ s.dirty = FALSE /\ s.active = FALSE /\ s.lost = FALSE
  BY <1>3 DEF Nav!State, Parts
<1> HIDE DEF s
<1>9. NavTypes(s)
  <2>1. s.entries \in Seq(Stop) /\ s.at \in 1 .. Len(s.entries)
    BY <1>2, <1>5, <1>8
  <2>2. s.known \subseteq Place /\ s.current \in Place /\ s.accepted \in Place /\ s.route \in Hashes
    BY <1>6, <1>8
  <2> QED BY <1>8, <2>1, <2>2 DEF NavTypes
<1>10. Numbers(s, s.at, Len(s.entries))
  <2>1. \A j \in 1 .. n : j - 1 = (i - 1) + (j - i)
    OBVIOUS
  <2>2. n \in 0 .. n /\ i \in 1 .. n
    BY <1>2
  <2>3. \A j \in 1 .. n : e[j].state = Nav!Position(here.index + (j - i), e[j].hash)
    BY <1>5, <1>6, <2>1
  <2> QED BY <1>5, <1>6, <1>8, <2>2, <2>3 DEF Numbers
<1>11. Known(s)
  <2>1. here = e[i].state /\ i \in 1 .. n
    BY <1>2, <1>5 DEF here
  <2> QED BY <1>5, <1>8, <2>1 DEF Known
<1>12. Rested(s)
  BY <1>8, <1>9, <1>10, <1>11 DEF Rested
<1>13. Good(s)
  BY <1>8, <1>12, RestedIsGood
<1> QED BY <1>7, <1>13 DEF NavInv, s

LEMMA NavInvIsEnough ==
  ASSUME NavInv
  PROVE  Nav!TypeOK /\ Nav!InputsNotLost /\ Nav!AddressIsThePage
<1> DEFINE s == Nav!State
<1>1. /\ DOMAIN s = Parts /\ s.pc = watcher.pc /\ s.at = browser.at /\ s.entries = browser.entries /\ s.route = form.route
      /\ s.lost = form.lost /\ s.accepted = watcher.accepted /\ s.moving = watcher.moving
  BY StateFields DEF NavInv
<1>2. Nav!Settled => AtRest(s)
  BY SettledRests DEF NavInv
<1>3. Good(s) /\ acts \in 0 .. MaxMoves
  BY DEF NavInv
<1>4. Nav!AddressIsThePage
  <2> HIDE DEF s
  <2>1. AtRest(s) /\ s.pc = "idle" => Nav!Here(s) = s.route /\ s.accepted.hash = s.route
    BY <1>3 DEF Good, AtRest, Numbers, Nav!Here, Purpose
  <2>2. AtRest(s) => ~s.moving
    BY DEF AtRest
  <2>3. Nav!Here(s) = Nav!Here(Nav!State)
    BY DEF s
  <2> QED BY <1>1, <1>2, <2>1, <2>2, <2>3 DEF Nav!AddressIsThePage
<1>5. Nav!TypeOK /\ Nav!InputsNotLost
  <2> HIDE DEF s
  <2> QED BY <1>1, <1>3 DEF Good, NavTypes, Purpose, OnTheWay, Nav!TypeOK, Nav!InputsNotLost
<1> QED BY <1>4, <1>5

(* web: the history and the guard.  A form with unsaved inputs is left     *)
(* only after its user said so, and at rest the address, the accepted      *)
(* position and the mounted page agree, and no move is awaited that the    *)
(* browser will not make: whatever addresses are entered and traversals    *)
(* made, for any pages and number of navigations.                          *)
THEOREM InputsAreGuarded == Spec => []NavigationIsGuarded
<1>1. Init => NavInv
  BY NavInit, ServicesAssumption DEF Init
<1>2. NavInv /\ [Next]_vars => NavInv'
  <2> SUFFICES ASSUME NavInv, [Next]_vars PROVE NavInv'
    OBVIOUS
  <2>1. Nav!Next \/ UNCHANGED navVars
    BY DEF Next, vars, webVars
  <2> QED BY <2>1, NavStep, ServicesAssumption
<1>3. NavInv => NavigationIsGuarded
  BY NavInvIsEnough DEF NavigationIsGuarded
<1> QED BY <1>1, <1>2, <1>3, PTL DEF Spec
================================================================================
