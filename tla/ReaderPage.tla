------------------------------- MODULE ReaderPage -------------------------------
(***************************************************************************)
(* The page a translated paper is read on, made by the parser and one of   *)
(* the templates for it, and the panels that quote the bibliography next   *)
(* to a citation.                                                          *)
(***************************************************************************)
EXTENDS EarlierReaders

CONSTANT
  Papers    \* the papers that may be parsed: sequences of regions

VARIABLES
  paper,    \* the regions of the paper, <<>> before it is parsed
  source,   \* the blocks assembled from them
  page,     \* the page that shows them
  panels,   \* the panels of quoted references on it
  expanded, \* the citations marked as expanded
  last      \* lastPanel: the row of the panel opened last, 0 for none

readerVars == <<paper, source, page, panels, expanded, last>>

--------------------------------------------------------------------------------
(* The parser makes a source of the paper, and a valid one is published.   *)
Parse(p) ==
  /\ paper' = p /\ source' = Assembled(p)
  /\ UNCHANGED <<page, panels, expanded, last>>

Publish(template, missing) ==
  /\ paper # <<>> /\ page = EmptyPage /\ Valid(source) /\ template \in Templates
  /\ page' = Rendered(template, source, missing)
  /\ UNCHANGED <<paper, source, panels, expanded, last>>

(* openReference finds the content of every reference it quotes. *)
Anchors == {e.id: e \in ToSet(page.shown)}
Quotable(l) == l.row # NoRow /\ l.quotes # {} /\ l.quotes \subseteq Anchors
PanelIn(row) == {p \in panels: p.row = row}
Hidden(row) == (panels \ PanelIn(row)) \cup {[p EXCEPT !.open = FALSE]: p \in PanelIn(row)}

(* closeReference *)
Closed(p) ==
  /\ panels' = Hidden(p.row)
  /\ expanded' = expanded \ {p.link}
  /\ last' = IF last = p.row THEN NoRow ELSE last
  /\ UNCHANGED <<paper, source, page>>

Added(l) == expanded \cup {l}   \* mutant: the citation that was open stays marked
Expanded(l) == (expanded \ {p.link: p \in PanelIn(l.row)}) \cup {l}

Open(l) ==
  /\ page.template = "reader-v16" /\ Quotable(l)
  /\ \A p \in PanelIn(l.row): p.open => p.link # l
  /\ panels' = (panels \ PanelIn(l.row)) \cup {[row |-> l.row, link |-> l, open |-> TRUE]}
  /\ expanded' = Expanded(l) /\ last' = l.row
  /\ UNCHANGED <<paper, source, page>>
ClickAgain(l) == Quotable(l) /\ \E p \in PanelIn(l.row): p.open /\ p.link = l /\ Closed(p)
Close == \E p \in panels: p.open /\ Closed(p)
Escape == \E p \in panels: p.open /\ p.row = last /\ Closed(p)

Init ==
  /\ paper = <<>> /\ source = EmptySource /\ page = EmptyPage
  /\ panels = {} /\ expanded = {} /\ last = NoRow

Next ==
  \/ paper = <<>> /\ \E p \in Papers: Parse(p)
  \/ \E template \in Registered: \E missing \in {{}, DOMAIN source.blocks}: Publish(template, missing)
  \/ \E l \in page.links: Open(l) \/ ClickAgain(l)
  \/ Close \/ Escape

Spec == Init /\ [][Next]_readerVars

--------------------------------------------------------------------------------
TypeOK ==
  /\ paper = <<>> => source = EmptySource
  /\ \A j \in DOMAIN source.blocks: source.blocks[j].kind \in Prose \cup Media \cup {"group", "reference"}
  /\ page # EmptyPage => source.title \in Anchors
  /\ \A p \in panels: p.open \in BOOLEAN /\ p.link \in page.links
  /\ expanded \subseteq page.links /\ last \in {NoRow} \cup {p.row: p \in panels}

(* What a text of the element shows in a view: the texts of the two        *)
(* languages of a pair, where one that is not translated repeats its       *)
(* original below a notice.                                                *)
Texts(e, view) ==
  IF e.how = "nothing" THEN 0
  ELSE IF e.how = "original" \/ page.status[e.id] = "retained" \/ view # "both" THEN 1 ELSE 2
Elements(j) == {i \in DOMAIN page.shown: page.shown[i].id = j}
OneCopy(j, view, n) ==
  \E i \in DOMAIN page.shown: Elements(j) = {i} /\ Texts(page.shown[i], view) = n

(* A list item that is a reference, or stands outside a list, shows only   *)
(* text of its own, and so do formulas and listings printed as an image;   *)
(* notes are collected at the end, but not in version 10.                  *)
RECURSIVE Dropped(_)
Dropped(j) ==
  LET o == source.blocks[j].owner
      b == source.blocks[o]
      inList == b.owner # NoBlock /\ source.blocks[b.owner].kind = "group" /\ source.blocks[b.owner].list
      old == page.template = "reader-v10"
  IN /\ o # NoBlock /\ (old \/ source.blocks[j].kind # "footnote")
     /\ \/ b.kind = "list_item" /\ (~inList \/ (~old /\ page.why[o] = "original_reference"))
        \/ b.kind \in {"math", "code"} /\ b.rep = "image"
        \/ Dropped(o)

(* publisher/reader_v*.py, rich_renderer.py: whatever the template, every  *)
(* block is one element of the page, and every text is there once in each  *)
(* language the view asks for.                                             *)
EveryTextIsShown ==
  \A j \in DOMAIN page.status:
    \/ Dropped(j)
    \/ Cardinality(Elements(j)) = 1 /\ source.blocks[j].runs = <<>>
    \/ \A view \in Views: OneCopy(j, view, IF page.status[j] # "retained" /\ view = "both" THEN 2 ELSE 1)

(* Every link of the page, of the contents and back from a note leads to   *)
(* an element; a note whose mark is in a row is in the margin of that row. *)
LinksLand ==
  LET anchors == Anchors
      lands(j) == j \in anchors \/ Dropped(j)
  IN /\ \A l \in page.links: \A k \in {l.to} \cup l.quotes: lands(k)
     /\ \A h \in page.contents: lands(h.id)
     /\ \A c \in page.cards: lands(c.from) /\ lands(c.note)

(* reader-v16.js: exactly the citations whose panel is open are marked.    *)
PanelsAgree ==
  /\ expanded = {p.link: p \in {q \in panels: q.open}}
  /\ last # NoRow => \E p \in PanelIn(last): p.open

(* An invalid source comes from an empty item or note, a note inside a     *)
(* listing or a paper without a heading only.                              *)
RECURSIVE Sound(_)
Sound(t) ==
  /\ t.kind \in Prose \ {"table_cell"} => t.runs # <<>> \/ (t.kind = "list_item" /\ t.kids # <<>>)
  /\ t.kind = "code" => \A i \in DOMAIN t.kids: t.kids[i].kind # "footnote"
  /\ \A i \in DOMAIN t.kids: Sound(t.kids[i])
SoundPapersAreValid == paper # <<>> /\ (\A i \in DOMAIN paper: Sound(paper[i].tree)) => Valid(source)

PaperIsReadable ==
  /\ page = EmptyPage => SoundPapersAreValid
  /\ panels = {} => EveryTextIsShown /\ LinksLand
  /\ PanelsAgree

(* docs/workflows.md: "They are retained once, with their original links   *)
(* and formatting, in bilingual, source-only and target-only readers".     *)
DetectedBlocksAreShown ==
  LET detected == Retained(source) IN
  page.template = "reader-v16" =>
    \A j \in DOMAIN source.blocks:
      detected[j] # "" /\ source.blocks[j].runs # <<>> => \A view \in Views: OneCopy(j, view, 1)
================================================================================
