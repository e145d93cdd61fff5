------------------------------ MODULE PageContent ------------------------------
(***************************************************************************)
(* What stands on the page of a translated paper: which element shows      *)
(* which block of the source, and where its links lead.                    *)
(*                                                                         *)
(* A row is the element with a margin of its own around a block ("header"  *)
(* around the title); notes and quoted references stand in the margin of   *)
(* the row of the link.  A translated text has the runs of its source.     *)
(* Looks, fonts, wording, comparison images and the list of warnings are   *)
(* left out, and so is what several roots in a list or a bibliography      *)
(* share, since every entry has an element of its own.                     *)
(***************************************************************************)
EXTENDS SourceAssembly

Header == 1000   \* the row of the title and of its metadata
NoRow == 0
Views == {"both", "source", "target"}
Marks == {"1", "2", "*"}
EmptySource == [blocks |-> <<>>, roots |-> <<>>, order |-> <<>>, title |-> NoBlock]
EmptyPage == [template |-> "", why |-> <<>>, status |-> <<>>, shown |-> <<>>, links |-> {}, cards |-> {}, contents |-> {}]

--------------------------------------------------------------------------------
AllRetained(s) == Retained(s)   \* mutant: a note below the bibliography is a reference
(* A typed note remains a note where the bibliography ends the page.       *)
Originals(s) ==
  LET why == Retained(s) IN
  [j \in DOMAIN why |-> IF s.blocks[j].kind = "footnote" /\ why[j] = "original_reference" THEN "" ELSE why[j]]

(* Translations of all blocks that can be translated and are not original  *)
(* only, but for those in missing.                                         *)
Status(s, missing) ==
  LET why == Retained(s) IN
  [j \in DOMAIN s.blocks |->
     IF why[j] # "" \/ ~s.blocks[j].trans THEN "retained" ELSE IF j \in missing THEN "fallback" ELSE "translated"]

(* metadata: the authors, affiliations and identifiers right after the title. *)
FrontMatter == {"original_author_list", "original_affiliation", "original_contact", "original_identifier"}
Metadata(s, why) ==
  LET after == SelectSeq(SubSeq(s.order, SelectInSeq(s.order, LAMBDA j: j = s.title) + 1, Len(s.order)),
                         LAMBDA j: s.blocks[j].kind \notin {"group", "footnote"})
      ends == {i \in DOMAIN after: why[after[i]] \notin FrontMatter}
  IN {after[i]: i \in {k \in DOMAIN after: \A n \in ends: k < n}}

--------------------------------------------------------------------------------
(* Notes: an explicit superscript leads to the one footnote of its page    *)
(* that begins with the mark.                                              *)
NotesMarked(s, p, mark) ==
  {j \in DOMAIN s.blocks: s.blocks[j].kind = "footnote" /\ s.blocks[j].loc.page = p /\ FirstText(s.blocks[j]) = mark}

MatchesOf(s, why, j, i) ==
  LET b == s.blocks[j]  r == b.runs[i]  found == NotesMarked(s, b.loc.page, r.s)
      number == r.s # "*"
      exponent == i > 1 /\ b.runs[i - 1].type \in {"math", "number", "cite"}
  IN IF /\ b.kind \notin {"footnote", "reference", "math", "code"} /\ r.sup /\ r.type \in {"text", "number"} /\ r.s \in Marks
        /\ Cardinality(found) = 1
        /\ number => why[j] \notin {"original_author_list", "original_affiliation"} /\ ~exponent
     THEN found ELSE {}

(* A mark that is printed twice in a block is a link in both places or in  *)
(* none: the translation does not say which is which.                      *)
Linkable(s, why, j, i) ==
  LET b == s.blocks[j]
      same == {k \in DOMAIN b.runs: <<b.runs[k].type, b.runs[k].s, b.runs[k].sup>> = <<b.runs[i].type, b.runs[i].s, b.runs[i].sup>>}
  IN IF \A k \in same: MatchesOf(s, why, j, k) = MatchesOf(s, why, j, i) THEN MatchesOf(s, why, j, i) ELSE {}

Explicit(s, j) == {r.to: r \in {n \in ToSet(s.blocks[j].runs): n.type = "xref"}}
XrefsOf(s, why, j) ==
  Explicit(s, j) \cup UNION {Linkable(s, why, j, i): i \in DOMAIN s.blocks[j].runs}

NoteLinks(s, why, j) ==
  IF s.blocks[j].kind \in {"reference", "code", "math"} \/ why[j] = "original_reference" THEN {}
  ELSE {k \in XrefsOf(s, why, j): s.blocks[k].kind = "footnote"}

(* ReferenceIndex: a citation leads to its references when each of its     *)
(* labels is the label of exactly one of them.                             *)
Labels(cite) == IF cite = "[1-2]" THEN {"[1]", "[2]"} ELSE {cite}
Cited(s, why, label) ==
  {j \in DOMAIN s.blocks: why[j] = "original_reference" /\ FirstText(s.blocks[j]) = label}
Targets(s, why, cite) ==
  IF \A l \in Labels(cite): Cardinality(Cited(s, why, l)) = 1 THEN UNION {Cited(s, why, l): l \in Labels(cite)} ELSE {}

--------------------------------------------------------------------------------
(* render: the elements of a block, in the row given for those without a   *)
(* row of their own.  An element shows its block in two languages, as the  *)
(* original, or only what the block owns.                                  *)
Shows(id, row, how) == <<[id |-> id, row |-> row, how |-> how]>>
Both(s, id) == IF s.blocks[id].runs = <<>> THEN "nothing" ELSE "pair"

RECURSIVE Render(_, _, _, _, _, _)
Render(s, why, front, id, row, inList) ==
  LET b == s.blocks[id]
      each(ids, r, l) == FlattenSeq([i \in DOMAIN ids |-> Render(s, why, front, ids[i], r, l)])
      cells == FlattenSeq([i \in DOMAIN b.cells |->
                 LET c == b.cells[i] IN
                 Shows(c, id, Both(s, c)) \o each(s.blocks[c].kids, id, FALSE)])
  IN CASE id = s.title \/ b.kind = "footnote" \/ id \in front -> <<>>
       [] b.kind = "reference" \/ why[id] = "original_reference" -> Shows(id, row, "original")
       [] b.kind = "group" -> Shows(id, row, "nothing") \o each(b.kids, row, b.list)
       [] b.kind = "list_item" /\ inList -> Shows(id, id, Both(s, id)) \o each(b.kids, row, FALSE)
       [] b.kind = "list_item" -> Shows(id, row, Both(s, id))
       [] b.kind \in {"figure", "table"} ->
            Shows(id, id, "nothing") \o FlattenSeq([i \in DOMAIN b.caps |-> Shows(b.caps[i], id, "pair")]) \o cells
       [] b.kind \in {"math", "code"} ->
            Shows(id, id, "original") \o (IF b.rep = "image" THEN <<>> ELSE each(b.caps, id, FALSE))
       [] OTHER -> Shows(id, id, "pair")

(* The article: roots in reading order, rendered[id] each, then the        *)
(* footnotes in order.                                                     *)
Article(s, why, rendered) ==
  LET front == Metadata(s, why)
      root(id) == IF why[id] = "original_reference" THEN Shows(id, NoRow, "original")
                  ELSE IF s.blocks[id].kind = "list_item" THEN Shows(id, id, Both(s, id))
                  ELSE rendered[id]
      body == SelectSeq(s.roots, LAMBDA j: j # s.title /\ j \notin front)
      notes == SelectSeq(s.order, LAMBDA j: s.blocks[j].kind = "footnote")
  IN FlattenSeq([i \in DOMAIN body |-> root(body[i])]) \o FlattenSeq([i \in DOMAIN notes |-> Shows(notes[i], notes[i], "pair")])

HeaderOf(s, meta) ==
  LET front == SelectSeq(s.order, LAMBDA j: j \in meta)
  IN Shows(s.title, Header, "pair") \o FlattenSeq([i \in DOMAIN front |-> Shows(front[i], Header, "original")])

(* Links of an element; those with a panel name the references it quotes.  *)
Link(e, to, quotes) == [row |-> e.row, from |-> e.id, to |-> to, quotes |-> quotes]
Quoting(s, why, e) ==
  LET cites == {Targets(s, why, r.s): r \in {n \in ToSet(s.blocks[e.id].runs): n.type = "cite"}} \ {{}}
      first(t) == CHOOSE k \in t: \A n \in t: k <= n
  IN {Link(e, first(t), t): t \in IF why[e.id] = "" THEN cites ELSE {}}
LinksOf(s, why, e) ==
  LET quoted(k) == why[k] = "original_reference" /\ why[e.id] = ""
  IN IF e.how = "nothing" \/ s.blocks[e.id].kind \in {"math", "code"} THEN {}
     ELSE {Link(e, k, IF quoted(k) THEN {k} ELSE {}): k \in XrefsOf(s, why, e.id)} \cup Quoting(s, why, e)

(* block_footnotes: the notes of an element stand in the margin of its row; *)
(* an item of no list, inside a cell, has no row and no notes.             *)
Card(e, note) == [row |-> e.row, from |-> e.id, note |-> note]
CardsOf(s, why, e) ==
  IF \/ e.row = NoRow \/ e.how = "nothing" \/ s.blocks[e.id].kind = "footnote"
     \/ s.blocks[e.id].kind = "list_item" /\ e.row # e.id
  THEN {} ELSE {Card(e, k): k \in NoteLinks(s, why, e.id)}

(* The contents name a section in both languages from version 14 on.       *)
Contents(s, status, bilingual) ==
  {[id |-> j, how |-> IF bilingual /\ status[j] = "translated" THEN "pair" ELSE "original"]: j \in Headings(s) \ {s.title}}

Shown(s, why, rendered) == HeaderOf(s, Metadata(s, why)) \o Article(s, why, rendered)

PageWith(template, s, status, why, shown, links, cards, bilingual) ==
  [template |-> template, why |-> why, status |-> status, shown |-> shown,
   links |-> links, cards |-> cards, contents |-> Contents(s, status, bilingual)]

Shown16(s, why) ==
  LET front == Metadata(s, why) IN Shown(s, why, [id \in DOMAIN s.blocks |-> Render(s, why, front, id, NoRow, FALSE)])
Page16(s, status, why, shown) ==
  PageWith("reader-v16", s, status, why, shown, UNION {LinksOf(s, why, e): e \in ToSet(shown)},
           UNION {CardsOf(s, why, e): e \in ToSet(shown)}, TRUE)
================================================================================
