----------------------------- MODULE SourceAssembly -----------------------------
(***************************************************************************)
(* How the regions of a parsed paper become the blocks of a source, and    *)
(* which of them keep the original text.                                   *)
(*                                                                         *)
(* A region has a label, a place on a page and, unless it was read from    *)
(* the PDF itself, a tree of what the model saw in it.  A text is the      *)
(* sequence of the texts of its runs; the classes that matter are strings  *)
(* of their own ("References", "Names", "doi", "[1]").  A block's id is    *)
(* the number of its creation.  Page images, crops, marks other than       *)
(* superscript, warnings, levels of headings and the repairs of text       *)
(* against the PDF are left out.                                           *)
(***************************************************************************)
EXTENDS Naturals, Sequences, FiniteSets, SequencesExt

Prose == {"heading", "paragraph", "list_item", "caption", "table_cell", "footnote"}
TextKinds == {"paragraph", "list_item", "footnote"}
Containers == {"group", "list_item", "table_cell"}
Media == {"figure", "table", "math", "code"}
NoBlock == 0

TextOf(runs) == [i \in DOMAIN runs |-> runs[i].s]
FirstText(b) == IF b.runs = <<>> THEN "" ELSE b.runs[1].s

--------------------------------------------------------------------------------
(* The adapter: one block per region. *)
KindOf(label) ==
  CASE label \in {"title", "section_header"} -> "heading"
    [] label \in {"list_item", "code", "caption", "footnote", "reference", "table"} -> label
    [] label = "formula" -> "math"
    [] label = "picture" -> "figure"
    [] OTHER -> "paragraph"

(* make *)
Made(s, kind, runs, loc, owner) ==
  [s EXCEPT
     !.blocks = Append(@,
       [kind |-> kind, owner |-> owner, runs |-> runs, loc |-> loc, trans |-> kind \in Prose /\ runs # <<>>,
        rep |-> IF kind \in Media \ {"figure"} THEN "image" ELSE "none",
        kids |-> <<>>, caps |-> <<>>, notes |-> <<>>, cells |-> <<>>,
        list |-> FALSE, scope |-> "", key |-> ""]),
     !.roots = IF owner = NoBlock THEN Append(@, Len(s.blocks) + 1) ELSE @]

(* A region without text is skipped unless it is a picture of something or *)
(* owns what is below it.                                                  *)
Skipped(item) ==
  /\ item.tree.runs = <<>> /\ KindOf(item.label) \notin Media
  /\ item.native \/ (item.tree.kind # "group" /\ item.tree.kids = <<>>)

CellsMade(s, item, table) ==
  LET cells == item.tree.cells
      one(t, c) == LET u == Made(t, "table_cell", c.runs, item.loc, table)
                   IN [u EXCEPT !.blocks[table].cells = Append(@, Len(u.blocks))]
  IN [FoldLeft(one, s, cells) EXCEPT !.blocks[table].rep = IF cells = <<>> THEN "image" ELSE "structured"]

AddItem(s, item) ==
  LET kind == KindOf(item.label)
      t == Made(s, kind, IF kind \in {"figure", "table"} THEN <<>> ELSE item.tree.runs, item.loc, NoBlock)
      id == Len(t.blocks)
      u == IF kind = "table" THEN CellsMade(t, item, id) ELSE t
  IN IF Skipped(item) THEN [s EXCEPT !.made = Append(@, NoBlock)]
     ELSE [u EXCEPT !.made = Append(@, id), !.blocks[id].scope = item.tree.scope]

--------------------------------------------------------------------------------
(* apply_semantics: a block takes the shape of the tree of its region.     *)
NoRuns(t) == t.kind \in {"figure", "table"} \/ (t.kind \in Containers /\ t.kids # <<>>)

Shaped(b, t) ==
  [b EXCEPT !.kind = t.kind, !.runs = IF NoRuns(t) THEN <<>> ELSE t.runs,
            !.trans = t.kind \in Prose /\ ~NoRuns(t) /\ t.runs # <<>>,
            !.rep = CASE t.kind = "math" -> "latex" [] t.kind = "code" -> "plain"
                      [] t.kind = "table" -> (IF t.cells = <<>> THEN "image" ELSE "structured")
                      [] OTHER -> "none",
            !.cells = <<>>, !.list = t.list, !.scope = t.scope, !.key = t.key]

(* The grid cell is the owner of any compound content. *)
CellTree(c) ==
  IF c.kids # <<>> \/ c.kind \notin {"paragraph", "table_cell"}
  THEN [c EXCEPT !.kind = "table_cell", !.runs = <<>>, !.kids = IF c.kind = "group" THEN c.kids ELSE <<c>>]
  ELSE [c EXCEPT !.kind = "table_cell"]

ListedAsChild(b, kid, id) == [b EXCEPT !.kids = Append(@, id)]   \* mutant: captions and notes are children like others
Listed(b, kid, id) ==
  IF kid.kind = "caption" /\ b.kind \in Media THEN [b EXCEPT !.caps = Append(@, id)]
  ELSE IF kid.kind = "footnote" /\ b.kind \in Media \ {"code"} THEN [b EXCEPT !.notes = Append(@, id)]
  ELSE [b EXCEPT !.kids = Append(@, id)]

RECURSIVE Fill(_, _, _)
Fill(s, id, t) ==
  LET old == s.blocks[id].cells
      cell(u, i) ==
        LET v == IF i \in DOMAIN old THEN u ELSE Made(u, "table_cell", <<>>, u.blocks[id].loc, id)
            c == IF i \in DOMAIN old THEN old[i] ELSE Len(v.blocks)
        IN [Fill(v, c, CellTree(t.cells[i])) EXCEPT !.blocks[id].cells = Append(@, c)]
      child(u, kid) ==
        LET v == Made(u, kid.kind, <<>>, u.blocks[id].loc, id)
            w == Fill(v, Len(v.blocks), kid)
        IN [w EXCEPT !.blocks[id] = Listed(@, kid, Len(v.blocks))]
      filled == FoldLeft(cell, [s EXCEPT !.blocks[id] = Shaped(@, t)], [i \in DOMAIN t.cells |-> i])
  IN FoldLeft(child, filled, t.kids)

(* A list item, a caption or a reference keeps its kind when the model saw *)
(* no more than a paragraph; a listing printed as a picture is a picture.  *)
TreeFor(b, t) ==
  IF t.kind = "paragraph" /\ t.kids = <<>> /\ b.kind \in {"reference", "caption", "list_item"} THEN [t EXCEPT !.kind = b.kind]
  ELSE IF b.kind = "figure" /\ t.kind = "code" THEN [t EXCEPT !.kind = "figure", !.kids = <<>>]
  ELSE t

Semantic(s, items) ==
  LET fill(u, i) == IF items[i].native \/ s.made[i] = NoBlock THEN u
                    ELSE Fill(u, s.made[i], TreeFor(u.blocks[s.made[i]], items[i].tree))
  IN FoldLeft(fill, s, [i \in DOMAIN items |-> i])

(* An internal link whose key names exactly one block becomes a cross      *)
(* reference, any other keeps its label only.                              *)
Crossed(s) ==
  LET named(k) == {j \in DOMAIN s.blocks: s.blocks[j].key = k}
      run(r) == IF r.type # "key" THEN r
                ELSE IF Cardinality(named(r.key)) = 1 THEN [r EXCEPT !.type = "xref", !.to = CHOOSE j \in named(r.key): TRUE]
                ELSE [r EXCEPT !.type = "text"]
  IN [s EXCEPT !.blocks = [j \in DOMAIN @ |-> [@[j] EXCEPT !.runs = [i \in DOMAIN @ |-> run(@[i])]]]]

(* resolve_scoped_relations: a caption or note with a typed role belongs   *)
(* to the one region of that kind directly above it; the caption of a      *)
(* table may also stand above its table.                                   *)
Expected(scope) ==
  CASE scope \in {"image", "figure"} -> "figure" [] scope = "formula" -> "math"
    [] scope \in {"table", "code"} -> scope [] OTHER -> "none"
Adjacent(b, o) ==
  LET upwards == b.loc.top - o.loc.bottom
      above == b.kind = "caption" /\ b.scope = "table" /\ b.loc.bottom <= o.loc.top
  IN /\ b.loc.page = o.loc.page
     /\ IF above THEN o.loc.top <= b.loc.bottom + 60
        ELSE b.loc.top >= o.loc.bottom /\ b.loc.top <= o.loc.bottom + 60

Owners(s, b) == {j \in DOMAIN s.blocks: s.blocks[j].kind = Expected(b.scope) /\ Adjacent(b, s.blocks[j])}

Related(s) ==
  LET relate(u, id) ==
        LET b == u.blocks[id]
            found == IF b.owner = NoBlock /\ b.kind \in {"caption", "footnote"} THEN Owners(u, b) ELSE {}
            o == CHOOSE j \in found: TRUE
        IN IF Cardinality(found) # 1 THEN u
           ELSE [u EXCEPT !.blocks[id].owner = o, !.roots = SelectSeq(@, LAMBDA j: j # id),
                          !.blocks[o].caps = IF b.kind = "caption" THEN Append(@, id) ELSE @,
                          !.blocks[o].notes = IF b.kind = "footnote" THEN Append(@, id) ELSE @]
  IN FoldLeft(relate, s, [j \in DOMAIN s.blocks |-> j])

--------------------------------------------------------------------------------
(* Order, bibliography and notes. *)
RECURSIVE Container(_, _)
Container(s, id) ==
  LET owned == SelectSeq([j \in DOMAIN s.blocks |-> j], LAMBDA j: s.blocks[j].owner = id)
  IN <<id>> \o FlattenSeq([i \in DOMAIN owned |-> Container(s, owned[i])])
Ordered(s) ==
  [s EXCEPT !.order = FlattenSeq([i \in DOMAIN s.roots |-> Container(s, s.roots[i])])]

(* A paragraph below a heading with one of three names is a reference.     *)
Bibliography(s) ==
  LET mark(u, id) ==
        LET b == u[1].blocks[id] IN
        IF b.kind = "heading" THEN <<u[1], TextOf(b.runs) = <<"References">> >>
        ELSE IF u[2] /\ b.kind = "paragraph"
             THEN <<[u[1] EXCEPT !.blocks[id].kind = "reference", !.blocks[id].trans = FALSE], TRUE>>
        ELSE u
  IN FoldLeft(mark, <<s, FALSE>>, s.order)[1]

(* link_native_footnotes: a raised number of the PDF becomes a link to the *)
(* one footnote of its page that begins with it.                           *)
Linked(s) ==
  LET notes(b, label) == {j \in DOMAIN s.blocks: /\ s.blocks[j].kind = "footnote" /\ s.blocks[j].loc.page = b.loc.page
                                                 /\ FirstText(s.blocks[j]) = label /\ Len(s.blocks[j].runs) > 1}
      run(b, r) == IF r.type = "raised" /\ b.kind \in Prose \ {"footnote"} /\ Cardinality(notes(b, r.s)) = 1
                   THEN [r EXCEPT !.type = "xref", !.to = CHOOSE j \in notes(b, r.s): TRUE]
                   ELSE IF r.type = "raised" THEN [r EXCEPT !.type = "number"] ELSE r
  IN [s EXCEPT !.blocks = [j \in DOMAIN @ |-> [@[j] EXCEPT !.runs = [i \in DOMAIN @ |-> run(s.blocks[j], @[i])]]]]

Headings(s) == {j \in DOMAIN s.blocks: s.blocks[j].kind = "heading"}
Assembled(items) ==
  LET added == FoldLeft(AddItem, [blocks |-> <<>>, roots |-> <<>>, order |-> <<>>, made |-> <<>>], items)
      s == Linked(Bibliography(Ordered(Related(Crossed(Semantic(added, items))))))
  IN [blocks |-> s.blocks, roots |-> s.roots, order |-> s.order,
      title |-> IF Headings(s) = {} THEN NoBlock ELSE CHOOSE j \in Headings(s): \A k \in Headings(s): j <= k]

--------------------------------------------------------------------------------
(* validate_source, as far as the shape of blocks goes. *)
LegalOwner(b, o) ==
  \/ o.kind \in Containers
  \/ b.kind = "caption" /\ o.kind \in Media
  \/ b.kind = "footnote" /\ o.kind \in Media \ {"code"}
  \/ b.kind = "table_cell" /\ o.kind = "table"

Valid(s) ==
  /\ s.title # NoBlock
  /\ \A j \in DOMAIN s.blocks:
       LET b == s.blocks[j] IN
       /\ b.owner # NoBlock => LegalOwner(b, s.blocks[b.owner])
       /\ b.kind \in Prose =>
            b.trans \/ (b.kind = "table_cell" /\ b.runs = <<>>) \/ (b.runs = <<>> /\ b.kids # <<>>)
       /\ b.kind = "table_cell" => b.owner # NoBlock /\ j \in ToSet(s.blocks[b.owner].cells)
       /\ b.kind = "group" => b.runs = <<>>
       /\ \A k \in ToSet(b.caps \o b.notes \o b.kids): s.blocks[k].owner = j
       /\ b.kind = "caption" /\ b.owner # NoBlock /\ s.blocks[b.owner].kind \in Media => j \in ToSet(s.blocks[b.owner].caps)
       /\ b.kind = "footnote" /\ b.owner # NoBlock /\ s.blocks[b.owner].kind \in Media => j \in ToSet(s.blocks[b.owner].notes)
       /\ b.kind \in Containers => ToSet(b.kids) = {k \in DOMAIN s.blocks: s.blocks[k].owner = j}
       /\ b.kind = "math" /\ b.rep # "image" => b.runs # <<>>

--------------------------------------------------------------------------------
(* original_only_blocks: why a block keeps its original, "" for the others. *)
ReferenceHeading(b) == TextOf(b.runs) \in {<<"References">>, <<"Works cited">>}
ProseHeading(b) == TextOf(b.runs) = <<"Appendix">>
Identifier(b) == IF TextOf(b.runs) = <<"doi">> THEN "original_identifier"
                 ELSE IF TextOf(b.runs) = <<"mail">> THEN "original_contact" ELSE ""
Affiliation(b, afterAuthor) == FirstText(b) = "University" \/ (afterAuthor /\ FirstText(b) = "OpenAI")
Names(b) == FirstText(b) = "Names"
Markers(b) == \E r \in ToSet(b.runs): r.sup /\ r.s \in {"1", "*"}
CellReason(b) ==
  IF TextOf(b.runs) = <<"2.5">> THEN "original_numeric_cell"
  ELSE IF b.runs # <<>> /\ \A r \in ToSet(b.runs): r.type = "math" THEN "original_math_cell"
  ELSE IF TextOf(b.runs) = <<"VGG16">> THEN "original_identifier_cell" ELSE ""

Scan(s) ==
  LET title == s.blocks[s.title]
      following(i) == IF i < Len(s.order) THEN s.blocks[s.order[i + 1]] ELSE [title EXCEPT !.kind = "group"]
      adjacent(n) == n.kind \in TextKinds /\ n.owner = NoBlock /\ (Affiliation(n, TRUE) \/ Identifier(n) # "")
      leaves(b) == b.loc.page # title.loc.page \/ b.owner # NoBlock \/ b.kind \notin TextKinds
      keep(u, id, why) == [u EXCEPT !.why[id] = why]
      frontMatter(u, i) ==
        LET id == s.order[i]  b == s.blocks[id] IN
        IF ~u.front THEN u
        ELSE IF leaves(b) THEN [u EXCEPT !.front = FALSE]
        ELSE IF b.runs = <<>> THEN u
        ELSE IF Affiliation(b, u.author) THEN keep(u, id, "original_affiliation")
        ELSE IF Names(b) /\ (adjacent(following(i)) \/ u.author \/ Markers(b))
             THEN [keep(u, id, "original_author_list") EXCEPT !.author = TRUE]
        ELSE [u EXCEPT !.front = FALSE]
      inSection(u, i) ==
        LET id == s.order[i]  b == s.blocks[id] IN
        IF b.kind = "reference" \/ (u.refs /\ b.kind \in TextKinds \cup {"table_cell"}) THEN keep(u, id, "original_reference")
        ELSE IF b.owner = NoBlock /\ b.kind \in TextKinds /\ Identifier(b) # "" THEN keep(u, id, Identifier(b))
        ELSE frontMatter(u, i)
      look(u, i) ==
        LET id == s.order[i]  b == s.blocks[id]  root == b.owner = NoBlock IN
        IF id = s.title THEN [u EXCEPT !.front = TRUE, !.refs = FALSE]
        ELSE IF b.kind = "caption" /\ TextOf(b.runs) = <<"VGG16">> THEN [keep(u, id, "original_identifier_label") EXCEPT !.front = FALSE]
        ELSE IF b.kind = "table_cell" /\ CellReason(b) # "" THEN keep(u, id, CellReason(b))
        ELSE IF root /\ b.kind \in {"heading", "paragraph"} /\ ReferenceHeading(b)
             THEN [keep(u, id, "original_bibliography_heading") EXCEPT !.refs = TRUE, !.front = FALSE]
        ELSE IF root /\ (b.kind = "heading" \/ (b.kind = "paragraph" /\ ProseHeading(b)))
             THEN inSection([u EXCEPT !.refs = FALSE, !.front = FALSE], i)
        ELSE inSection(u, i)
  IN FoldLeft(look, [front |-> FALSE, refs |-> FALSE, author |-> FALSE, why |-> [j \in DOMAIN s.blocks |-> ""]],
              [i \in DOMAIN s.order |-> i])
Retained(s) == Scan(s).why
================================================================================
