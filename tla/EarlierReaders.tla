----------------------------- MODULE EarlierReaders -----------------------------
(***************************************************************************)
(* A revision is published with any of the templates its schema allows, and *)
(* an artifact is built again with the template it had: the earlier        *)
(* readers stay part of the program, each a copy of its own.  Version 15   *)
(* has the rules of version 16 in fewer languages; 12, which 13 and 14     *)
(* wrap, is as 15 without headings in two languages; 11 differs in lists   *)
(* and 10 in notes, references and the header.                             *)
(***************************************************************************)
EXTENDS PageContent

(* render_input: the templates for a source of schema 4.0. *)
Templates == {"reader-v10", "reader-v11", "reader-v12", "reader-v13", "reader-v14", "reader-v15", "reader-v16"}
(* list_templates *)
Registered == Templates \cup {"reader-v1", "reader-v2", "reader-v3", "reader-v4", "reader-v5", "reader-v6", "reader-v7",
                             "reader-v8", "reader-v9"}

--------------------------------------------------------------------------------
(* reader_v15.py *)
Links15(s, why, e) == LinksOf(s, why, e)
Cards15(s, why, e) == CardsOf(s, why, e)
Render15(s, why, front, id, row, inList) == Render(s, why, front, id, row, inList)
Shown15(s, why) ==
  LET front == Metadata(s, why) IN Shown(s, why, [id \in DOMAIN s.blocks |-> Render15(s, why, front, id, NoRow, FALSE)])
Page15(s, status, why, shown) ==
  PageWith("reader-v15", s, status, why, shown, UNION {Links15(s, why, e): e \in ToSet(shown)},
           UNION {Cards15(s, why, e): e \in ToSet(shown)}, TRUE)

(* reader_v12.py; 13 changes looks, and 14 the contents. *)
Links12(s, why, e) == LinksOf(s, why, e)
Cards12(s, why, e) == CardsOf(s, why, e)
Render12(s, why, front, id, row, inList) == Render(s, why, front, id, row, inList)
Shown12(s, why) ==
  LET front == Metadata(s, why) IN Shown(s, why, [id \in DOMAIN s.blocks |-> Render12(s, why, front, id, NoRow, FALSE)])
Page12(s, status, why, shown) ==
  PageWith("reader-v12", s, status, why, shown, UNION {Links12(s, why, e): e \in ToSet(shown)},
           UNION {Cards12(s, why, e): e \in ToSet(shown)}, FALSE)
Page13(page) == [page EXCEPT !.template = "reader-v13"]
Page14(s, page) == [page EXCEPT !.template = "reader-v14", !.contents = Contents(s, page.status, TRUE)]

(* reader_v11.py: an item whose text is that of its children has an empty  *)
(* pair of its own.                                                        *)
Links11(s, why, e) == LinksOf(s, why, e)
Cards11(s, why, e) == CardsOf(s, why, e)
Render11(s, why, front, id, row, inList) ==
  LET shown == Render(s, why, front, id, row, inList)
      item(e) == s.blocks[e.id].kind = "list_item" /\ e.how = "nothing"
  IN [i \in DOMAIN shown |-> IF item(shown[i]) THEN [shown[i] EXCEPT !.how = "pair"] ELSE shown[i]]
Shown11(s, why) ==
  LET front == Metadata(s, why) IN Shown(s, why, [id \in DOMAIN s.blocks |-> Render11(s, why, front, id, NoRow, FALSE)])
Page11(s, status, why, shown) ==
  PageWith("reader-v11", s, status, why, shown, UNION {Links11(s, why, e): e \in ToSet(shown)},
           UNION {Cards11(s, why, e): e \in ToSet(shown)}, FALSE)

--------------------------------------------------------------------------------
(* rich_renderer.py: a footnote is a block like any other, and below the   *)
(* heading of the bibliography a reference.  Only the links of the parser  *)
(* lead to notes, and the header takes roots only.                         *)
Metadata10(s, why) ==
  LET after == SubSeq(s.roots, SelectInSeq(s.roots, LAMBDA j: j = s.title) + 1, Len(s.roots))
      ends == {i \in DOMAIN after: why[after[i]] \notin FrontMatter}
  IN IF s.title \notin ToSet(s.roots) THEN {} ELSE {after[i]: i \in {k \in DOMAIN after: \A n \in ends: k < n}}

NoteLinks10(s, why, j) ==
  IF s.blocks[j].kind \in {"footnote", "reference", "code", "math"} \/ why[j] = "original_reference" THEN {}
  ELSE {k \in Explicit(s, j): s.blocks[k].kind = "footnote"}

RECURSIVE Render10(_, _, _, _)
Render10(s, id, row, inList) ==
  LET b == s.blocks[id]
      each(ids, r, l) == FlattenSeq([i \in DOMAIN ids |-> Render10(s, ids[i], r, l)])
      cell(c) == Shows(c, id, Both(s, c)) \o each(s.blocks[c].kids, id, FALSE)
  IN CASE id = s.title -> <<>>
       [] b.kind = "group" -> Shows(id, row, "nothing") \o each(b.kids, row, b.list)
       [] b.kind = "list_item" -> Shows(id, row, "pair") \o (IF inList THEN each(b.kids, row, FALSE) ELSE <<>>)
       [] b.kind \in {"figure", "table"} ->
            Shows(id, id, "nothing") \o FlattenSeq([i \in DOMAIN b.caps |-> Shows(b.caps[i], id, "pair")])
              \o FlattenSeq([i \in DOMAIN b.cells |-> cell(b.cells[i])]) \o each(b.notes, id, FALSE)
       [] b.kind \in {"math", "code"} ->
            Shows(id, id, "original") \o (IF b.rep = "image" THEN <<>> ELSE each(b.caps \o b.notes, id, FALSE))
       [] OTHER -> Shows(id, id, "pair")

Article10(s, why) ==
  LET root(id) == IF why[id] = "original_reference" THEN Shows(id, NoRow, "original")
                  ELSE IF s.blocks[id].kind = "list_item" THEN Shows(id, id, "pair")
                  ELSE Render10(s, id, NoRow, FALSE)
      body == SelectSeq(s.roots, LAMBDA j: j # s.title /\ j \notin Metadata10(s, why))
  IN FlattenSeq([i \in DOMAIN body |-> root(body[i])])

(* A cross reference to the bibliography quotes nothing. *)
Links10(s, why, e) ==
  IF e.how = "nothing" \/ s.blocks[e.id].kind \in {"math", "code"} THEN {}
  ELSE {Link(e, k, {}): k \in Explicit(s, e.id)} \cup Quoting(s, why, e)

(* frame: a row has the notes of its block and of all that block owns.     *)
Cards10(s, why, e) ==
  LET framed == IF e.row \notin {e.id, Header} THEN {}
                ELSE {e.id} \cup {j \in DOMAIN s.blocks: s.blocks[j].owner = e.id /\ s.blocks[e.id].kind # "list_item"}
  IN UNION {{[row |-> e.row, from |-> j, note |-> k]: k \in NoteLinks10(s, why, j)}: j \in framed}

Shown10(s, why) == HeaderOf(s, Metadata10(s, why)) \o Article10(s, why)
Page10(s, status, why, shown) ==
  PageWith("reader-v10", s, status, why, shown, UNION {Links10(s, why, e): e \in ToSet(shown)},
           UNION {Cards10(s, why, e): e \in ToSet(shown)}, FALSE)

--------------------------------------------------------------------------------
(* render_html chooses the reader of the template. *)
Wrapped(template, s, page) ==
  CASE template = "reader-v14" -> Page14(s, Page13(page))
    [] template = "reader-v13" -> Page13(page)
    [] template = "reader-v12" -> page

RenderedAs(template, s, status, why) ==
  CASE template = "reader-v16" -> Page16(s, status, why, Shown16(s, why))
    [] template = "reader-v15" -> Page15(s, status, why, Shown15(s, why))
    [] template = "reader-v11" -> Page11(s, status, why, Shown11(s, why))
    [] template = "reader-v10" -> Page10(s, status, why, Shown10(s, why))
    [] OTHER -> Wrapped(template, s, Page12(s, status, why, Shown12(s, why)))

Rendered(template, s, missing) ==
  RenderedAs(template, s, Status(s, missing), IF template = "reader-v10" THEN Retained(s) ELSE Originals(s))
================================================================================
