------------------------------ MODULE SamplePapers ------------------------------
(***************************************************************************)
(* Papers for the runs of ReaderPage: a title, any two of the regions      *)
(* below and one of three ends, on one page or on two.  The regions are    *)
(* those of the parsers' and the reader's tests.                           *)
(***************************************************************************)
EXTENDS Sequences, Naturals

Run(type, s) == [type |-> type, s |-> s, sup |-> FALSE, to |-> 0, key |-> ""]
Sup(s) == [Run("text", s) EXCEPT !.sup = TRUE]
Says(s) == <<Run("text", s)>>
Tree(kind, runs, kids) ==
  [kind |-> kind, runs |-> runs, kids |-> kids, cells |-> <<>>, list |-> FALSE, scope |-> "", key |-> ""]
Para(s) == Tree("paragraph", Says(s), <<>>)
Group(kids) == Tree("group", <<>>, kids)
Listing(kids) == [Group(kids) EXCEPT !.list = TRUE]
Region(label, tree) == [label |-> label, tree |-> tree, native |-> FALSE]
Scoped(kind, scope, s) == [Tree(kind, <<Run("text", s), Run("text", "note")>>, <<>>) EXCEPT !.scope = scope]

Title == Region("title", Tree("heading", Says("On Models"), <<>>))
Heading(s) == Region("section_header", Tree("heading", Says(s), <<>>))
Cites == <<Run("text", "p"), Run("cite", "[1]"), Sup("1")>>
Entry(s) == <<Run("text", s), Run("text", "Smith 2020")>>

Regions == {
  \* prose with citations and notes, read by the model and from the PDF
  Region("text", Tree("paragraph", Cites, <<>>)),
  [Region("text", Tree("paragraph", <<Run("text", "q"), Run("raised", "1"), Run("cite", "[1-2]")>>, <<>>)) EXCEPT !.native = TRUE],
  Region("text", Tree("paragraph", <<Sup("*"), [Run("key", "see") EXCEPT !.key = "s1"]>>, <<>>)),
  Region("text", Group(<<Para("form"), [Tree("heading", Says("nested"), <<>>) EXCEPT !.key = "s1"]>>)),
  \* front matter and sections
  Region("text", Tree("paragraph", <<Run("text", "Names"), Sup("1")>>, <<>>)),
  Region("text", Para("University")), Region("text", Para("doi")),
  Heading("References"), Heading("Appendix"),
  \* references, one by one and in lists of both notations
  [Region("reference", Tree("reference", Entry("[1]"), <<>>)) EXCEPT !.native = TRUE],
  Region("text", Listing(<<Tree("list_item", Entry("[1]"), <<>>), Tree("list_item", Entry("[2]"), <<>>)>>)),
  Region("text", Listing(<<Tree("list_item", <<>>, <<Tree("paragraph", Entry("[2]"), <<>>)>>)>>)),
  Region("list_item", Tree("list_item", <<>>, <<Para("own"), Listing(<<Tree("list_item", Says("inner"), <<>>)>>)>>)),
  Region("text", Listing(<<Tree("list_item", <<>>, <<>>)>>)),
  \* tables, figures, formulas and listings, their captions and notes
  Region("table", [Tree("table", <<>>, <<Tree("caption", <<Run("text", "Table"), Run("cite", "[2]")>>, <<>>)>>) EXCEPT
                     !.cells = <<Para("2.5"), Tree("paragraph", Cites, <<>>),
                                 Group(<<Para("cell"), Tree("list_item", Says("item"), <<>>)>>)>>]),
  Region("caption", Scoped("caption", "table", "Table 1")),
  Region("footnote", Scoped("footnote", "table", "*")),
  Region("picture", Tree("figure", <<>>, <<Tree("caption", <<Run("text", "VGG16")>>, <<>>)>>)),
  [Region("formula", Tree("math", Says("E"), <<>>)) EXCEPT !.native = TRUE],
  Region("caption", Scoped("caption", "formula", "Formula")),
  Region("code", Tree("code", Says("for"), <<Tree("footnote", Says("1"), <<>>)>>)),
  \* a note of the page
  Region("footnote", Scoped("footnote", "page", "1"))
}

Ends == {
  <<>>,
  <<Heading("References"), Region("text", Listing(<<Tree("list_item", Entry("[1]"), <<>>), Tree("list_item", Entry("[2]"), <<>>)>>)),
    Region("footnote", Scoped("footnote", "page", "1"))>>,
  <<Heading("Works cited"), Region("text", Para("[1]")),
    Region("text", Listing(<<Tree("list_item", <<>>, <<Tree("paragraph", Entry("[2]"), <<>>)>>)>>))>>
}

\* The regions stand below one another; those from at on are on a second page.
Placed(regions, at) ==
  [i \in DOMAIN regions |->
     [label |-> regions[i].label, tree |-> regions[i].tree, native |-> regions[i].native,
      loc |-> [page |-> IF i >= at THEN 2 ELSE 1, top |-> 50 * i, bottom |-> 50 * i + 30]]]
AllPapers == {Placed(<<Title, a, b>> \o end, at): a \in Regions, b \in Regions, end \in Ends, at \in {3, 100}}
================================================================================
