--------------------------- MODULE SourceCorrections ---------------------------
(***************************************************************************)
(* Corrections of the parsed source of a paper by its reader.  A call      *)
(* brings one piece of evidence and a list of operations; they work on a   *)
(* copy, and what they leave becomes a new draft together with a mapping   *)
(* from the old blocks to the new ones.                                    *)
(*                                                                         *)
(* A text is a sequence of glyphs: letters, digits, "sp" for white space,  *)
(* "hy" for a hyphen and "wr" for a hyphen followed by a line end.  Areas  *)
(* of the page have names: Inside[l] are the native text regions that lie  *)
(* in area l.  Hashes, page images, crop sizes and marks are left out, and *)
(* owners nest one level deep.                                             *)
(***************************************************************************)
EXTENDS Naturals, Sequences, FiniteSets, SequencesExt

CONSTANTS
  Parsed,      \* the source the parser made: blocks and roots
  Native,      \* the text regions of the page in native order
  Text,        \* the text of a region
  Inside,      \* the regions in an area
  MaxCalls,    \* bound: calls
  MaxOps       \* bound: operations of all calls

VARIABLES
  doc,    \* the copy: blocks in order, roots (reading_order)
  base,   \* the source the call started from
  call    \* the evidence, the operations so far and their structural entries

corrVars == <<doc, base, call>>

None == <<>>
Digits == {"1"}
Word(g) == g \notin {"sp", "hy", "wr"}
Alpha(g) == Word(g) /\ g \notin Digits

--------------------------------------------------------------------------------
(* Texts. *)
Where(t, P(_)) == LET at == SelectSeq([i \in DOMAIN t |-> i], P) IN [j \in DOMAIN at |-> t[at[j]]]
Glyphs(t) == SelectSeq(t, Word)

(* _mechanical *)
Mechanical(t) ==
  LET wrapped(i) == t[i] = "wr" /\ i - 1 \in DOMAIN t /\ Word(t[i - 1])
                                /\ i + 1 \in DOMAIN t /\ Word(t[i + 1])
      u == Where(t, LAMBDA i: ~wrapped(i))
      inner(i) == u[i] # "sp" \/ (i > 1 /\ \E j \in (i + 1) .. Len(u): u[j] # "sp" /\ u[i - 1] # "sp")
  IN Where(u, inner)

NoHyphen(t) == IF t # <<>> /\ Last(t) = "hy" THEN Front(t) ELSE t
LastRun(t) == CHOOSE s \in Suffixes(t): /\ \A i \in DOMAIN s: Alpha(s[i])
                                        /\ Len(s) = Len(t) \/ ~Alpha(t[Len(t) - Len(s)])
FirstRun(t) == Reverse(LastRun(Reverse(t)))

(* '\n'.join: a hyphen and the line end after it are one glyph here. *)
Lines(t, u) == IF t # <<>> /\ Last(t) = "hy" THEN Front(t) \o <<"wr">> \o u ELSE t \o <<"sp">> \o u

(* Inline nodes; a text node is cut into its glyphs. *)
Plain(t) == [i \in DOMAIN t |-> [type |-> "text", s |-> <<t[i]>>, to |-> None]]
SourceNodes(t, kind) ==
  IF kind = "math" THEN <<[type |-> "ref", s |-> t, to |-> None]>>
  ELSE [i \in DOMAIN t |-> [type |-> IF t[i] \in Digits THEN "ref" ELSE "text", s |-> <<t[i]>>, to |-> None]]
Flat(nodes) == FlattenSeq([i \in DOMAIN nodes |-> nodes[i].s])
CanCut(nodes, o) == \E k \in 0 .. Len(nodes): Len(Flat(SubSeq(nodes, 1, k))) = o
Cut(nodes, o) == CHOOSE k \in 0 .. Len(nodes): Len(Flat(SubSeq(nodes, 1, k))) = o
Between(nodes, i, j) == SubSeq(nodes, Cut(nodes, i) + 1, Cut(nodes, j))
Spliced(nodes, i, j, middle) ==
  SubSeq(nodes, 1, Cut(nodes, i)) \o middle \o SubSeq(nodes, Cut(nodes, j) + 1, Len(nodes))
OnlyText(nodes) == \A n \in ToSet(nodes): n.type = "text"

--------------------------------------------------------------------------------
(* Blocks.  edit is the replacement of the one normalization edit. *)
NewBlock(id, kind, owner, t, nodes, prov, kids) ==
  [id |-> id, kind |-> kind, owner |-> owner, raw |-> t, norm |-> t, edit |-> None,
   inline |-> nodes, prov |-> prov, kids |-> kids]

Ids(d) == {d.blocks[i].id: i \in DOMAIN d.blocks}
By(d, id) == d.blocks[CHOOSE i \in DOMAIN d.blocks: d.blocks[i].id = id]
Put(bs, b) == [i \in DOMAIN bs |-> IF bs[i].id = b.id THEN b ELSE bs[i]]
Without(bs, ids) == SelectSeq(bs, LAMBDA b: b.id \notin ids)
IdsWithout(s, ids) == SelectSeq(s, LAMBDA x: x \notin ids)

(* _set_order *)
Ordered(bs, roots) ==
  LET d == [blocks |-> bs, roots |-> roots]
      unlisted(b) == SelectSeq(bs, LAMBDA c: c.owner = b.id /\ c.id \notin ToSet(b.kids))
      visit(b) == <<b>> \o [i \in DOMAIN b.kids |-> By(d, b.kids[i])] \o unlisted(b)
  IN [d EXCEPT !.blocks = FlattenSeq([i \in DOMAIN roots |-> visit(By(d, roots[i]))])]

(* _normalization *)
Normalized(b, nodes) ==
  [b EXCEPT !.inline = nodes, !.norm = Flat(nodes),
            !.edit = IF Flat(nodes) = b.raw THEN None ELSE <<Flat(nodes)>>]

Siblings(d, b) == IF b.owner = None THEN d.roots ELSE By(d, b.owner).kids
(* New siblings in the list b stands in. *)
RootsOnly(d, bs, b, siblings) ==   \* mutant: the owner keeps its old list
  Ordered(bs, IF b.owner = None THEN siblings ELSE d.roots)
Relisted(d, bs, b, siblings) ==
  IF b.owner = None THEN Ordered(bs, siblings)
  ELSE Ordered(Put(bs, [By(d, b.owner) EXCEPT !.kids = siblings]), d.roots)
Retarget(bs, from, id) ==
  LET moved(n) == IF n.to \in from THEN [n EXCEPT !.to = id] ELSE n
  IN [i \in DOMAIN bs |-> [bs[i] EXCEPT !.inline = [k \in DOMAIN @ |-> moved(@[k])]]]
After(s, x, new) == InsertAt(s, SelectInSeq(s, LAMBDA y: y = x) + 1, new)

(* native_regions_for_block and the text of the regions *)
RegionsOf(b) == SelectSeq(Native, LAMBDA r: \E l \in ToSet(b.prov): r \in Inside[l])
NativeText(b) ==
  LET rs == RegionsOf(b) IN FoldLeft(LAMBDA t, r: IF t = <<>> THEN Text[r] ELSE Lines(t, Text[r]), <<>>, rs)
Before(r, s) == \E i, j \in DOMAIN Native: i < j /\ Native[i] = r /\ Native[j] = s
FirstIn(l) == CHOOSE r \in Inside[l]: \A s \in Inside[l] \ {r}: Before(r, s)
LastIn(l) == CHOOSE r \in Inside[l]: \A s \in Inside[l] \ {r}: Before(s, r)

--------------------------------------------------------------------------------
(* A call. *)
Idle == [by |-> "none", calls |-> 0, steps |-> 0, before |-> 0, op |-> "none", region |-> None, seen |-> {}, changes |-> {}]

(* apply_corrections: evidenced are the blocks whose text has the quote and *)
(* one of whose locators is the area; apply_native_corrections: the quote  *)
(* is the whole text of a native region.                                   *)
BeginManual(l, quote) ==
  LET evidenced == {b \in ToSet(doc.blocks): l \in ToSet(b.prov) /\ quote \in ToSet(b.raw) \cup ToSet(b.norm)}
  IN /\ call.by \in {"none", "ended"} /\ call.calls < MaxCalls /\ evidenced # {}
     /\ (l \in DOMAIN Text => <<quote>> # Text[l])
     /\ call' = [call EXCEPT !.by = "manual", !.calls = @ + 1, !.before = call.steps, !.op = "none",
                             !.region = None, !.seen = {b.id: b \in evidenced}, !.changes = {}]
     /\ base' = doc /\ UNCHANGED doc

BeginNative(r) ==
  /\ call.by \in {"none", "ended"} /\ call.calls < MaxCalls
  /\ call' = [call EXCEPT !.by = "native", !.calls = @ + 1, !.before = call.steps, !.op = "none",
                          !.region = <<r>>, !.seen = {}, !.changes = {}]
  /\ base' = doc /\ UNCHANGED doc

Evidence == call.region[1]

MayGoOn == call.steps < MaxOps
(* One operation of the list leaves d; changes has its structural entry. *)
Does(by, op, d, changes) ==
  /\ call.by = by /\ MayGoOn
  /\ Len(d.blocks) = Cardinality(Ids(d))
  /\ doc' = d
  /\ call' = [call EXCEPT !.steps = @ + 1, !.op = op, !.changes = @ \cup changes]
  /\ UNCHANGED base

(* The new draft is stored; the next call corrects it. *)
End ==
  /\ call.by \in {"manual", "native"} /\ call.op # "none"
  /\ call' = [call EXCEPT !.by = "ended", !.op = "none", !.seen = {}, !.region = None]
  /\ UNCHANGED <<doc, base>>

(* A refused operation drops the copy. *)
Refuse ==
  /\ call.by \in {"manual", "native"} /\ doc # base
  /\ doc' = base
  /\ call' = [call EXCEPT !.by = "none", !.op = "refused", !.seen = {}, !.region = None, !.changes = {}]
  /\ UNCHANGED base

--------------------------------------------------------------------------------
(* The operations of both kinds of call. *)
Reorder(i, j) ==
  LET s == doc.roots
      order == [k \in DOMAIN s |-> CASE k = i -> s[j] [] k = j -> s[i] [] OTHER -> s[k]]
  IN Does(call.by, "reorder", Ordered(doc.blocks, order), {})

(* The operations of a call with parser evidence. *)
ReplaceText(id, i, j, t) ==
  LET b == By(doc, id)
      normalized == SubSeq(b.norm, 1, i) \o t \o SubSeq(b.norm, j + 1, Len(b.norm))
      nodes == Spliced(b.inline, i, j, Plain(t))
  IN /\ i <= j
     /\ Mechanical(normalized) = Mechanical(b.raw)
     /\ CanCut(b.inline, i) /\ CanCut(b.inline, j) /\ OnlyText(Between(b.inline, i, j))
     /\ Does("manual", "replace_text", [doc EXCEPT !.blocks = Put(@, Normalized(b, nodes))], {})

Split(id, o) ==
  LET b == By(doc, id)
      other == Append(id, call.steps - call.before + 1)   \* _split_<op_index + 1>
      left == [b EXCEPT !.raw = SubSeq(b.raw, 1, o)]
      right == [b EXCEPT !.id = other, !.raw = SubSeq(b.raw, o + 1, Len(b.raw))]
      k == Cut(b.inline, o)
      bs == Append(Put(doc.blocks, Normalized(left, SubSeq(b.inline, 1, k))),
                   Normalized(right, SubSeq(b.inline, k + 1, Len(b.inline))))
  IN /\ b.kind = "paragraph"
     /\ b.owner # None => id \in ToSet(By(doc, b.owner).kids)
     /\ o < Len(b.norm) /\ b.raw = b.norm /\ CanCut(b.inline, o)
     /\ other \notin Ids(doc)
     /\ Does("manual", "split", Relisted(doc, bs, b, After(Siblings(doc, b), id, other)),
             {[old |-> {id}, new |-> {id, other}]})

GlueNodes(bs) ==   \* mutant: the raw text of the others is not appended
  [raw |-> bs[1].raw, inline |-> FlattenSeq([i \in DOMAIN bs |-> bs[i].inline]), prov |-> bs[1].prov]
(* The separator is chosen from the raw texts. *)
Glue(bs) ==
  LET put(acc, b) ==
        LET sep == IF acc.raw = <<>> \/ Last(acc.raw) = "sp" \/ Head(b.raw) = "sp" THEN <<>> ELSE <<"sp">>
        IN [raw |-> acc.raw \o sep \o b.raw, inline |-> acc.inline \o Plain(sep) \o b.inline,
            prov |-> acc.prov \o IdsWithout(b.prov, ToSet(acc.prov))]
  IN FoldLeft(put, [raw |-> <<>>, inline |-> <<>>, prov |-> <<>>], bs)

Merge(ids) ==
  LET bs == [i \in DOMAIN ids |-> By(doc, ids[i])]
      first == bs[1]
      rest == ToSet(Tail(ids))
      glued == Glue(bs)
      merged == Normalized([first EXCEPT !.raw = glued.raw, !.prov = glued.prov], glued.inline)
      left == Retarget(Without(Put(doc.blocks, merged), rest), rest, ids[1])
  IN /\ \A i \in DOMAIN bs: bs[i].kind = "paragraph" /\ bs[i].owner = first.owner
     /\ ToSet(ids) \cap call.seen # {}
     /\ \E at \in DOMAIN Siblings(doc, first):
          /\ at + Len(ids) - 1 \in DOMAIN Siblings(doc, first)
          /\ SubSeq(Siblings(doc, first), at, at + Len(ids) - 1) = ids
     /\ Does("manual", "merge", Relisted(doc, left, first, IdsWithout(Siblings(doc, first), rest)),
             {[old |-> ToSet(ids), new |-> {ids[1]}]})

--------------------------------------------------------------------------------
(* The operations of a call with a native region. *)

(* replace_text: the corrected block must print all its regions. *)
NativeReplace(id) ==
  LET b == By(doc, id)
      t == NativeText(b)
      nodes == IF Flat(b.inline) = t THEN b.inline ELSE SourceNodes(t, b.kind)
  IN /\ Evidence \in ToSet(RegionsOf(b))
     /\ Does("native", "native_text",
             [doc EXCEPT !.blocks = Put(@, [b EXCEPT !.raw = t, !.norm = t, !.edit = None,
                                                     !.inline = nodes, !.prov = RegionsOf(b)])], {})

RecoverRegion(after) ==
  LET r == Evidence
      new == NewBlock(<<r>>, "paragraph", None, Text[r], SourceNodes(Text[r], "paragraph"), <<r>>, <<>>)
  IN /\ \A b \in ToSet(doc.blocks): r \in ToSet(RegionsOf(b)) => Glyphs(b.raw) = <<>>
     /\ <<r>> \notin Ids(doc)
     /\ Does("native", "recover", Ordered(Append(doc.blocks, new), After(doc.roots, after, <<r>>)), {})

(* annotate_footnote *)
AnnotateFootnote(id, i, target) ==
  LET b == By(doc, id)
      marker == SubSeq(b.norm, i, i)
      f == By(doc, target)
      nodes == Spliced(b.inline, i - 1, i, <<[type |-> "xref", s |-> marker, to |-> target]>>)
  IN /\ b.kind \in {"heading", "paragraph"} /\ f.kind = "footnote"
     /\ marker[1] \in Digits /\ Text[Evidence] = marker
     /\ Len(f.norm) > 1 /\ f.norm[1] = marker[1] /\ f.norm[2] = "sp"
     /\ Evidence \in ToSet(RegionsOf(b))
     /\ CanCut(b.inline, i - 1) /\ CanCut(b.inline, i)
     /\ \A n \in ToSet(Between(b.inline, i - 1, i)): n.type \in {"text", "ref"}
     /\ Does("native", "footnote", [doc EXCEPT !.blocks = Put(@, [b EXCEPT !.inline = nodes])], {})

(* Two blocks become one; its raw text is the lines of both. *)
Joined(first, second, nodes) ==
  LET raw == Lines(first.raw, second.raw)
      one == [first EXCEPT !.raw = raw, !.inline = nodes, !.norm = Flat(nodes), !.edit = <<Flat(nodes)>>,
                           !.prov = @ \o IdsWithout(second.prov, ToSet(@))]
      bs == Retarget(Without(Put(doc.blocks, one), {second.id}), {second.id}, first.id)
  IN Ordered(bs, IdsWithout(doc.roots, {second.id}))
Continues(first, second) ==
  first.kind = "paragraph" /\ second.kind = "paragraph" /\ first.owner = None /\ second.owner = None
Root(id) == CHOOSE i \in DOMAIN doc.roots: doc.roots[i] = id

(* merge_continuation: with joiner "" only after a printed hyphen. *)
MergeContinuation(a, b, joiner) ==
  LET first == By(doc, a)
      second == By(doc, b)
      quote == Text[Evidence]
      hyphen == Last(first.norm) = "hy"
      cut == Len(first.norm) - (IF hyphen THEN 1 ELSE 0)
      left == SubSeq(first.inline, 1, IF joiner = <<>> THEN Cut(first.inline, cut) ELSE Len(first.inline))
  IN /\ Root(b) = Root(a) + 1 /\ Continues(first, second)
     /\ first.prov # <<>> /\ Evidence = LastIn(Last(first.prov))
     /\ joiner = <<>> =>
          /\ Last(quote) = "hy" /\ LastRun(NoHyphen(quote)) # <<>>
          /\ LastRun(NoHyphen(quote)) = LastRun(NoHyphen(first.norm))
          /\ Alpha(Head(second.norm))
          /\ CanCut(first.inline, cut) /\ OnlyText(Between(first.inline, cut, Len(first.norm)))
     /\ Does("native", "continuation", Joined(first, second, left \o Plain(joiner) \o second.inline),
             {[old |-> {a, b}, new |-> {a}]})

(* merge_native_continuation: one word around floating graphics. *)
MergeNative(a, b, keep) ==
  LET first == By(doc, a)
      second == By(doc, b)
      begins == FirstIn(Head(second.prov))
      word == LastRun(NoHyphen(Text[Evidence]))
      rest == FirstRun(Text[begins])
      i == Len(first.norm) - Len(word) - (IF Last(first.norm) = "hy" THEN 1 ELSE 0)
      nodes == SubSeq(first.inline, 1, Cut(first.inline, i))
               \o Plain(word \o (IF keep THEN <<"hy">> ELSE <<>>) \o rest)
               \o Between(second.inline, Len(rest), Len(second.norm))
  IN /\ Root(a) < Root(b) /\ Continues(first, second)
     /\ \A k \in (Root(a) + 1) .. (Root(b) - 1): By(doc, doc.roots[k]).kind \in {"figure", "math"}
     /\ first.prov # <<>> /\ second.prov # <<>> /\ Evidence = LastIn(Last(first.prov))
     /\ Before(Evidence, begins)
     /\ Last(Text[Evidence]) = "hy" /\ word # <<>> /\ rest # <<>>
     /\ word = LastRun(NoHyphen(first.norm)) /\ rest = FirstRun(second.norm)
     /\ CanCut(first.inline, i) /\ OnlyText(Between(first.inline, i, Len(first.norm)))
     /\ CanCut(second.inline, Len(rest)) /\ OnlyText(Between(second.inline, 0, Len(rest)))
     /\ Does("native", "native_continuation", Joined(first, second, nodes),
             {[old |-> {a, b}, new |-> {a}]})

(* normalize_native_span: white space or the hyphen of a line end as the   *)
(* regions print them.  The selected letters occur once, so that they are  *)
(* the printed ones (_bind_occurrence).                                    *)
Occurrences(s, t) == {k \in 0 .. Len(t) - Len(s): SubSeq(t, k + 1, k + Len(s)) = s}
Printed(quote, needle) ==
  CHOOSE s \in {SubSeq(quote, x[1], x[2]): x \in (DOMAIN quote) \X (DOMAIN quote)}:
    Glyphs(s) = needle /\ Word(Head(s)) /\ Word(Last(s))

NormalizeSpan(id, i, j, rule, r) ==
  LET b == By(doc, id)
      selected == SubSeq(b.norm, i + 1, j)
      letters == Glyphs(selected)
      quote == Text[Evidence]
      before == LastRun(NoHyphen(quote))
      after == FirstRun(Text[r])
      hyphened == before \o <<"hy">> \o after
      compact == Where([k \in DOMAIN selected |-> IF selected[k] = "wr" THEN "hy" ELSE selected[k]],
                       LAMBDA k: selected[k] # "sp")
      replacement == CASE rule = "restore_native_spacing" -> Printed(quote, letters)
                       [] rule = "remove_line_wrap" -> before \o after
                       [] rule = "retain_line_hyphen" -> hyphened
      nodes == Spliced(b.inline, i, j, Plain(replacement))
  IN /\ b.kind \in {"paragraph", "heading", "footnote"} /\ letters # <<>>
     /\ Evidence \in ToSet(RegionsOf(b))
     /\ IF rule = "restore_native_spacing"
        THEN /\ \A k \in DOMAIN selected: Alpha(selected[k]) \/ selected[k] = "sp"
             /\ r = Evidence
             /\ Cardinality(Occurrences(letters, Where(quote, LAMBDA k: quote[k] # "sp"))) = 1
        ELSE /\ Before(Evidence, r) /\ Last(quote) = "hy" /\ before # <<>> /\ after # <<>>
             /\ compact \in {before \o after, hyphened}
     /\ Cardinality(Occurrences(letters, Glyphs(b.norm))) = 1
     /\ Cardinality(Occurrences(letters, Glyphs(NativeText(b)))) <= 1
     /\ replacement # selected
     /\ CanCut(b.inline, i) /\ CanCut(b.inline, j) /\ OnlyText(Between(b.inline, i, j))
     /\ Does("native", "span",
             [doc EXCEPT !.blocks = Put(@, [b EXCEPT !.inline = nodes, !.norm = Flat(nodes),
                                                     !.edit = <<Flat(nodes)>>])], {})

(* A formula is at most half of its block and not blank. *)
Formula(b, i, j) ==
  /\ 2 * (j - i) <= Len(b.norm)
  /\ \E k \in (i + 1) .. j: b.norm[k] # "sp"

(* split_with_math_crop; the crop holds the evidence. *)
SplitMath(id, i, j) ==
  LET b == By(doc, id)
      n == call.steps + 1
      part(x, y, new) == [b EXCEPT !.id = new, !.raw = SubSeq(b.raw, x + 1, y), !.norm = SubSeq(b.raw, x + 1, y),
                                   !.inline = Between(b.inline, x, y), !.edit = None]
      middle == SubSeq(b.raw, i + 1, j)
      formula == NewBlock(IF i = 0 THEN id ELSE <<"math", n>>, "math", None, middle,
                       SourceNodes(middle, "math"), <<Evidence>>, <<>>)
      parts == (IF i = 0 THEN <<>> ELSE <<part(0, i, id)>>) \o <<formula>>
               \o (IF j = Len(b.raw) THEN <<>> ELSE <<part(j, Len(b.raw), <<"rest", n>>)>>)
      ids == [k \in DOMAIN parts |-> parts[k].id]
      at == Root(id)
  IN /\ b.kind = "paragraph" /\ b.owner = None /\ b.raw = b.norm /\ Formula(b, i, j)
     /\ \E k \in 1 .. i \cup (j + 1) .. Len(b.raw): b.raw[k] # "sp"
     /\ Evidence \in ToSet(RegionsOf(b))
     /\ CanCut(b.inline, i) /\ CanCut(b.inline, j)
     /\ Does("native", "math", Ordered(Without(doc.blocks, {id}) \o parts,
                                       SubSeq(doc.roots, 1, at - 1) \o ids
                                       \o SubSeq(doc.roots, at + 1, Len(doc.roots))),
             {[old |-> {id}, new |-> ToSet(ids)]})

(* annotate_math_crop: the text stays and refers to a formula of its own.  *)
AnnotateMath(id, i, j) ==
  LET b == By(doc, id)
      middle == SubSeq(b.norm, i + 1, j)
      new == <<"note", call.steps + 1>>
      noted == [b EXCEPT !.inline = Spliced(@, i, j, <<[type |-> "xref", s |-> middle, to |-> new]>>)]
      formula == NewBlock(new, "math", None, middle, SourceNodes(middle, "math"), <<Evidence>>, <<>>)
      bs == Append(Put(doc.blocks, noted), formula)
      owner == IF b.owner = None THEN id ELSE b.owner
      related == SelectSeq(bs, LAMBDA c: c.id = owner \/ c.owner = owner)
      referred == {n.to: n \in UNION {ToSet(c.inline): c \in ToSet(related)}}
      referenced == SelectSeq([k \in DOMAIN bs |-> bs[k].id], LAMBDA x: x \in referred /\ x[1] = "note")
      order == IdsWithout(doc.roots, ToSet(referenced))
      at == SelectInSeq(order, LAMBDA x: x = owner)
  IN /\ b.kind \in {"paragraph", "heading", "footnote"} /\ Formula(b, i, j)
     /\ Evidence \in ToSet(RegionsOf(b))
     /\ CanCut(b.inline, i) /\ CanCut(b.inline, j)
     /\ \A n \in ToSet(Between(b.inline, i, j)): n.type \in {"text", "ref"}
     /\ Does("native", "note",
             Ordered(bs, SubSeq(order, 1, at) \o referenced \o SubSeq(order, at + 1, Len(order))),
             {[old |-> {id}, new |-> {id, new}]})

--------------------------------------------------------------------------------
(* revision_mapping: content and context of a block, by meaning. *)
Contents(d) ==
  LET seen[n \in 0 .. 3] ==
        [id \in Ids(d) |->
          LET of(x) == IF n = 0 THEN <<>> ELSE <<seen[n - 1][x]>>
              b == By(d, id)
          IN [kind |-> b.kind, norm |-> b.norm,
              inline |-> [k \in DOMAIN b.inline |->
                           [type |-> b.inline[k].type, s |-> b.inline[k].s,
                            to |-> IF b.inline[k].to = None THEN <<>> ELSE of(b.inline[k].to)]],
              kids |-> [k \in DOMAIN b.kids |-> of(b.kids[k])]]]
  IN seen[3]

Context(d, contents, id) ==
  LET at == CHOOSE i \in DOMAIN d.blocks: d.blocks[i].id = id
      content(i) == IF i \in DOMAIN d.blocks THEN <<contents[d.blocks[i].id]>> ELSE <<>>
      owner == d.blocks[at].owner
  IN [title |-> IF d.blocks[at].kind = "heading" THEN <<>> ELSE content(1),
      owner |-> IF owner = None THEN <<>> ELSE <<contents[owner]>>,
      before |-> content(at - 1), after |-> content(at + 1)]

(* Pairs of blocks that alone have their key on either side. *)
UniqueMatches(old, new) ==
  LET alone(s) == {x \in s: \A y \in s \ {x}: y.key # x.key}
  IN {x \in alone(old) \X alone(new): x[1].key = x[2].key}

Mapping(before, after, changes) ==
  LET c == Contents(before)
      e == Contents(after)
      old == Ids(before) \ UNION {x.old: x \in changes}
      new == Ids(after) \ UNION {x.new: x \in changes}
      whole(d, contents, ids) == {[id |-> x, key |-> <<contents[x], Context(d, contents, x)>>]: x \in ids}
      content(s) == {[id |-> x.id, key |-> x.key[1]]: x \in s}
      without(s, ids) == {x \in s: x.id \notin ids}
      f == whole(before, c, old)
      g == whole(after, e, new)
      p == {<<x[1].id, x[2].id>>: x \in UniqueMatches(content(f), content(g))}
      left == without(f, {x[1]: x \in p})
      right == without(g, {x[2]: x \in p})
      q == {<<x[1].id, x[2].id>>: x \in UniqueMatches(left, right)}
      same == {<<x.id, x.id>>: x \in {x \in without(left, {y[1]: y \in q}):
                 \E y \in without(right, {z[2]: z \in q}):
                   x.id = y.id /\ By(before, x.id).prov = By(after, x.id).prov}}
      pairs == p \cup q \cup same
      unchanged(x) == \E y \in f, z \in g: y.id = x[1] /\ z.id = x[2] /\ y.key = z.key
  IN {[old |-> x.old, new |-> x.new, reusable |-> FALSE]: x \in changes}
     \cup {[old |-> {x[1]}, new |-> {x[2]}, reusable |-> unchanged(x)]: x \in pairs}
     \cup {[old |-> {o}, new |-> {}, reusable |-> FALSE]: o \in old \ {x[1]: x \in pairs}}
     \cup {[old |-> {}, new |-> {n}, reusable |-> FALSE]: n \in new \ {x[2]: x \in pairs}}

(* validate_source *)
Valid(d) ==
  LET ids == Ids(d)
      order == [i \in DOMAIN d.blocks |-> d.blocks[i].id]
  IN /\ Cardinality(ids) = Len(d.blocks)
     /\ d.roots = SelectSeq(order, LAMBDA x: By(d, x).owner = None)
     /\ \E b \in ToSet(d.blocks): b.kind = "heading"
     /\ \A b \in ToSet(d.blocks):
          /\ b.norm = Flat(b.inline)
          /\ b.norm = (IF b.edit = None THEN b.raw ELSE b.edit[1])
          /\ \A n \in ToSet(b.inline): n.to \in ids \cup {None}
          /\ b.owner # None => b.owner \in ids /\ By(d, b.owner).kind = "group"
          /\ ToSet(b.kids) = {c \in ids: By(d, c).owner = b.id}
          /\ b.kind = "group" => b.norm = <<>>
          /\ b.kind \in {"paragraph", "heading", "footnote"} => b.norm # <<>>

--------------------------------------------------------------------------------
Init == doc = Parsed /\ base = Parsed /\ call = Idle

Rules == {"restore_native_spacing", "remove_line_wrap", "retain_line_hyphen"}
Next ==
  \/ \E r \in DOMAIN Inside, q \in UNION {ToSet(Text[r]): r \in DOMAIN Text}: BeginManual(r, q)
  \/ \E r \in ToSet(Native): BeginNative(r)
  \/ MayGoOn /\ call.by \in {"manual", "native"} /\ \E i \in 1 .. (Len(doc.roots) - 1): Reorder(i, i + 1)
  \/ MayGoOn /\ call.by = "manual" /\ \E id \in call.seen \cap Ids(doc):
       \/ \E i, j \in 0 .. Len(By(doc, id).norm), t \in {<<>>, <<"sp">>}: ReplaceText(id, i, j, t)
       \/ \E o \in DOMAIN By(doc, id).norm: Split(id, o)
  \/ MayGoOn /\ call.by = "manual" /\ \E a, b \in Ids(doc): a # b /\ Merge(<<a, b>>)
  \/ MayGoOn /\ call.by = "native" /\ \E id \in Ids(doc):
       \/ NativeReplace(id)
       \/ id \in ToSet(doc.roots) /\ RecoverRegion(id)
  \/ MayGoOn /\ call.by = "native" /\ \E id \in {x \in Ids(doc): Evidence \in ToSet(RegionsOf(By(doc, x)))}:
       \/ \E i \in DOMAIN By(doc, id).norm, t \in Ids(doc): AnnotateFootnote(id, i, t)
       \/ \E i, j \in 0 .. Len(By(doc, id).norm): i < j /\
            \/ \E r \in ToSet(RegionsOf(By(doc, id))), rule \in Rules: NormalizeSpan(id, i, j, rule, r)
            \/ SplitMath(id, i, j)
            \/ AnnotateMath(id, i, j)
  \/ MayGoOn /\ call.by = "native" /\ \E a, b \in ToSet(doc.roots): a # b /\
       \/ \E joiner \in {<<>>, <<"sp">>}: MergeContinuation(a, b, joiner)
       \/ \E keep \in BOOLEAN: MergeNative(a, b, keep)
  \/ End
  \/ Refuse

Spec == Init /\ [][Next]_corrVars

--------------------------------------------------------------------------------
(* Properties. *)

TypeOK ==
  /\ call.by \in {"none", "manual", "native", "ended"}
  /\ call.calls \in 0 .. MaxCalls /\ call.steps \in 0 .. MaxOps
  /\ call.seen \subseteq Ids(base) /\ call.region \in {None} \cup {<<r>>: r \in ToSet(Native)}
  /\ ToSet(doc.roots) \subseteq Ids(doc)

(* The letters a reader sees in order: formulas noted beside their text    *)
(* would be counted twice.                                                 *)
Printing(d, field) ==
  Glyphs(FlattenSeq([i \in DOMAIN d.blocks |-> IF d.blocks[i].id[1] = "note" THEN <<>> ELSE d.blocks[i][field]]))

(* No correction makes up, loses or reorders a letter: only the text of a  *)
(* native region can replace or extend what the parser read, and only an   *)
(* explicit order can move it.                                             *)
LettersKept ==
  [][call'.steps > call.steps =>
       CASE call'.op \in {"native_text", "recover"} ->
              \A b \in ToSet(doc'.blocks) \ ToSet(doc.blocks): b.norm = NativeText(b)
         [] call'.op = "reorder" -> ToSet(doc'.blocks) = ToSet(doc.blocks)
         [] OTHER -> \A field \in {"raw", "norm"}: Printing(doc', field) = Printing(doc, field)]_corrVars

(* The mapping of a call with at most one structural operation names every *)
(* block of both sources once, and offers for reuse only pairs the call    *)
(* left alone.                                                             *)
MappingIsAMatching ==
  call.by = "ended" /\ Cardinality(call.changes) <= 1 =>
    LET mapping == Mapping(base, doc, call.changes)
    IN /\ \A id \in Ids(base): Cardinality({m \in mapping: id \in m.old}) = 1
       /\ \A id \in Ids(doc): Cardinality({m \in mapping: id \in m.new}) = 1
       /\ \A m \in mapping: m.reusable =>
            \E b, c \in ToSet(base.blocks) \cup ToSet(doc.blocks):
              b.id \in m.old /\ c.id \in m.new /\ b.norm = c.norm /\ b.kids = c.kids

(* No list of operations that passes their own checks is refused by the    *)
(* validator afterwards: whatever was split, merged, moved or annotated    *)
(* before, the reading order, the owners, the references and the text of   *)
(* the inline nodes still agree; and the mapping is a matching.            *)
CorrectionsAreConsistent == Valid(doc) /\ MappingIsAMatching
================================================================================
