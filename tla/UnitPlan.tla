-------------------------------- MODULE UnitPlan --------------------------------
(***************************************************************************)
(* How the blocks of a source become the units that are sent to a model,   *)
(* how a unit travels, and how the answers become blocks again.            *)
(*                                                                         *)
(* A text is a sequence of glyphs.  A letter, a blank and a name of the    *)
(* paper's authors (which stays as it is printed) are a glyph each, and so *)
(* are a citation, "[1]", the same in other brackets, "[1]'", and a marker *)
(* that only looks like one of the wire.  All glyphs are one byte, numbers *)
(* keep their units, and the context of a unit is left out, like the units *)
(* of other papers in the cache.  The letters of an answer stand for       *)
(* whatever words the model has chosen.                                    *)
(***************************************************************************)
EXTENDS Naturals, Sequences, SequencesExt, FiniteSetsExt, TLC

CONSTANTS
  Papers,     \* the sources: [rich, blocks]; a block is a sequence of nodes
  Profiles,   \* [local, max, room]: max_unit_characters; the context left by the prompt
  AtomRoom,   \* what an atom takes at least on the wire of a local model
  Ways        \* how the model answers, out of AllWays

VARIABLES
  src, profile, way,   \* the source, its profile, and how the model answers
  units,      \* in the order of the plan
  results,    \* of the units that were executed: whether accepted, and the answer
  cache       \* TranslationCache: key, value; and the text the model had sent

planVars == <<src, profile, way, units, results, cache>>

AllWays == {"faithful", "respelled", "turned", "repeated", "silent", "blank", "foreign"}
UnitPlanAssumption == AtomRoom \in Nat \ {0} /\ Ways \subseteq AllWays

Blank == " "
Names == {"Name"}
Letters == {"a", "b"}
NoRef == ""

(* _literal_signature: brackets and separators do not matter. *)
Signatures == "[1]" :> "[1]" @@ "[1]'" :> "[1]" @@ "[2]" :> "[2]"
Signed(glyphs) == {Signatures[g]: g \in ToSet(glyphs) \cap DOMAIN Signatures}

(* A node of source_inline: text, a protected atom, or a link to somewhere *)
(* (to) whose label is the text.                                           *)
Node(type, text, ref, mark, to) == [type |-> type, text |-> text, ref |-> ref, mark |-> mark, to |-> to]

--------------------------------------------------------------------------------
(* plan_units.  A piece of node at is text, or an atom and what it is      *)
(* restored to; bind are the marks and the destination of its node.        *)
Piece(at, ref, kind, text, bind, back) ==
  [at |-> at, ref |-> ref, kind |-> kind, text |-> text, bind |-> bind, back |-> back]
Unbound == <<"", "">>

(* Names in a text become atoms. *)
Prose(n, at, bind) ==
  LET name(k) == Piece(at, "metadata-" \o ToString(at) \o "-" \o ToString(k), "variable", <<n.text[k]>>, bind,
                       <<[n EXCEPT !.type = "text", !.text = <<n.text[k]>>]>>)
      add(ps, k) ==
        IF n.text[k] \in Names THEN Append(ps, name(k))
        ELSE IF ps # <<>> /\ Last(ps).ref = NoRef THEN Front(ps) \o <<[Last(ps) EXCEPT !.text = Append(@, n.text[k])]>>
        ELSE Append(ps, Piece(at, NoRef, "text", <<n.text[k]>>, bind, <<>>))
  IN FoldLeft(add, <<>>, [k \in DOMAIN n.text |-> k])

Pieces(block, rich) ==
  LET of(at) ==
        LET n == block[at]
            bind == IF rich THEN <<n.mark, n.to>> ELSE Unbound
        IN CASE n.type = "text" \/ (rich /\ n.type = "link") -> Prose(n, at, bind)
             [] n.type = "ref" -> <<Piece(at, n.ref, "citation", n.text, bind, <<n>>)>>
             [] OTHER -> <<Piece(at, "link-" \o ToString(at), "citation", n.text, Unbound, <<n>>)>>
  IN FlattenSeq([at \in DOMAIN block |-> of(at)])

Width(p) == IF p.ref # NoRef /\ profile.local THEN Max({Len(p.text), AtomRoom}) ELSE Len(p.text)
WidthOf(pieces) == FoldLeft(LAMBDA w, p: w + Width(p), 0, pieces)
Limit == IF profile.local THEN Min({profile.max, Max({1, profile.room \div 4})}) ELSE profile.max

(* A paragraph that fits as a whole stays whole. *)
BlockLimit(pieces) ==
  IF profile.local /\ WidthOf(pieces) <= Min({profile.max, profile.room}) THEN Max({Limit, WidthOf(pieces)}) ELSE Limit

(* The units so far, and the one that is being filled. *)
Flush(b) == IF b.current = <<>> THEN b ELSE [done |-> Append(b.done, b.current), current |-> <<>>]
Add(b, p) == [b EXCEPT !.current = Append(@, p)]

(* Where a text that has room for free glyphs is cut; 0: not in this unit. *)
CutAnywhere(text, free, first) == Min({free, Len(text)})   \* mutant: local models are given half words
CutAt(text, free, first) ==
  LET inWord == profile.local /\ free \in 1..(Len(text) - 1) /\ {text[free], text[free + 1]} \subseteq Letters
      blanks == {i \in 1..free: text[i] = Blank}
  IN IF ~inWord THEN Min({free, Len(text)})
     ELSE IF blanks # {} THEN Max(blanks)
     ELSE IF first THEN free ELSE 0

RECURSIVE Place(_, _, _)
Place(b, p, limit) ==
  LET free == limit - WidthOf(b.current)
      cut == CutAt(p.text, free, b.current = <<>>)
      rest == SubSeq(p.text, cut + 1, Len(p.text))
      filled == Add(b, [p EXCEPT !.text = SubSeq(@, 1, cut)])
  IN IF p.text = <<>> THEN b
     ELSE IF cut = 0 THEN Place(Flush(b), p, limit)
     ELSE Place(IF cut < free /\ rest # <<>> THEN Flush(filled) ELSE filled, [p EXCEPT !.text = rest], limit)

Batches(pieces, rich) ==
  LET limit == BlockLimit(pieces)
      atom(b, p) == Add(IF WidthOf(b.current) + Width(p) > limit THEN Flush(b) ELSE b, p)
      add(b, p) ==
        LET c == IF rich /\ b.current # <<>> /\ Last(b.current).bind # p.bind THEN Flush(b) ELSE b
        IN IF p.ref # NoRef THEN atom(c, p) ELSE Place(c, p, limit)
  IN Flush(FoldLeft(add, [done |-> <<>>, current |-> <<>>], pieces)).done

(* A block with an atom that is larger than a unit keeps its original.     *)
TooLarge(pieces) == \E i \in DOMAIN pieces: pieces[i].ref # NoRef /\ Width(pieces[i]) > Limit
UnitsOf(p, b) ==
  LET pieces == Pieces(p.blocks[b], p.rich)
      batches == IF TooLarge(pieces) THEN <<>> ELSE Batches(pieces, p.rich)
  IN [i \in DOMAIN batches |->
       [block |-> b, pieces |-> batches[i], bind |-> IF p.rich THEN batches[i][1].bind ELSE Unbound]]

--------------------------------------------------------------------------------
(* The wire: text, or the name of an atom. *)
Ref(name) == [ref |-> name, text |-> <<>>]
Text(glyphs) == [ref |-> NoRef, text |-> glyphs]
Wired(u) == [i \in DOMAIN u.pieces |-> IF u.pieces[i].ref = NoRef THEN Text(u.pieces[i].text) ELSE Ref(u.pieces[i].ref)]
Atoms(u) == SelectSeq(u.pieces, LAMBDA p: p.ref # NoRef)
Refs(u) == {p.ref: p \in ToSet(Atoms(u))}
Atom(u, ref) == CHOOSE p \in ToSet(u.pieces): p.ref = ref
AtomAt(u, ref) == CHOOSE i \in DOMAIN Atoms(u): Atoms(u)[i].ref = ref
Printed(u) == UNION {ToSet(p.text): p \in ToSet(u.pieces) \ ToSet(Atoms(u))}
Said(u, nodes) == FlattenSeq([i \in DOMAIN nodes |-> IF nodes[i].ref = NoRef THEN nodes[i].text ELSE Atom(u, nodes[i].ref).text])

(* A local model is sent plain text.  A citation travels as it is printed  *)
(* unless something else in the unit could be taken for it; other atoms    *)
(* travel as markers that the text does not hold.                          *)
IsCitation(p) == p.kind = "citation" /\ Len(p.text) = 1 /\ Signed(p.text) # {}
LiteralUnlessPrinted(u) ==   \* mutant: two citations of the unit may be spelled alike
  {p.ref: p \in {q \in ToSet(Atoms(u)): IsCitation(q) /\ Signed(q.text) \cap Signed(SetToSeq(Printed(u))) = {}}}
Literal(u) ==
  {p.ref: p \in {q \in ToSet(Atoms(u)):
     /\ IsCitation(q) /\ Signed(q.text) \cap Signed(SetToSeq(Printed(u))) = {}
     /\ \A r \in ToSet(Atoms(u)): Signed(q.text) \subseteq Signed(r.text) => r.ref = q.ref}}

Marker(space, i) == "PT" \o ToString(space) \o "." \o ToString(i)
Clipped(marker) == marker \o "-"
Space(u) ==
  LET free(n) == \A r \in Refs(u) \ Literal(u):
                   {Marker(n, AtomAt(u, r)), Clipped(Marker(n, AtomAt(u, r)))} \cap Printed(u) = {}
  IN CHOOSE n \in 0..3: free(n) /\ \A m \in 0..(n - 1): ~free(m)
Marks(u) == [r \in Refs(u) |-> IF r \in Literal(u) THEN Atom(u, r).text[1] ELSE Marker(Space(u), AtomAt(u, r))]
Spoken(u) ==
  FlattenSeq([i \in DOMAIN u.pieces |-> IF u.pieces[i].ref = NoRef THEN u.pieces[i].text ELSE <<Marks(u)[u.pieces[i].ref]>>])

(* target_inline: a marker may lack its last brace, and a citation may be  *)
(* in other brackets.                                                      *)
Meant(u, g) ==
  {r \in Refs(u): IF r \in Literal(u) THEN Signed(<<g>>) = Signed(<<Marks(u)[r]>>) ELSE g \in {Marks(u)[r], Clipped(Marks(u)[r])}}
Understood(u, glyphs) ==
  LET add(nodes, g) ==
        IF Meant(u, g) # {} THEN Append(nodes, Ref(CHOOSE r \in Meant(u, g): TRUE))
        ELSE IF nodes # <<>> /\ Last(nodes).ref = NoRef THEN Front(nodes) \o <<Text(Append(Last(nodes).text, g))>>
        ELSE Append(nodes, Text(<<g>>))
  IN FoldLeft(add, <<>>, glyphs)

(* validate_output, which lets atoms be missing or repeated.               *)
Accepted(u, nodes) ==
  /\ {n.ref: n \in ToSet(nodes)} \subseteq Refs(u) \cup {NoRef}
  /\ ToSet(Said(u, nodes)) \ {Blank} # {}

(* The answer of the model. *)
Replied(how, wire, isAtom(_), respelled(_), other) ==
  CASE how = "faithful" -> wire
    [] how = "respelled" -> [i \in DOMAIN wire |-> respelled(wire[i])]
    [] how = "turned" -> Reverse(wire)
    [] how = "repeated" -> wire \o wire
    [] how = "silent" -> SelectSeq(wire, LAMBDA x: ~isAtom(x))
    [] how = "blank" -> <<>>
    [] how = "foreign" -> Append(wire, other)
Answer(u) ==
  LET marks == {Marks(u)[r]: r \in Refs(u)}
      respelled(g) == IF g \notin marks THEN g ELSE IF g = "[1]" THEN "[1]'" ELSE IF Signed(<<g>>) # {} THEN g ELSE Clipped(g)
  IN IF profile.local
     THEN Understood(u, Replied(way, Spoken(u), LAMBDA g: g \in marks, respelled, "PT9.9"))
     ELSE Replied(way, Wired(u), LAMBDA n: n.ref # NoRef, LAMBDA n: n, Ref("other"))

--------------------------------------------------------------------------------
(* The cache: an atom is known by its place among the atoms of the unit.   *)
KeyOfText(u) ==   \* mutant: the values of the atoms are not part of the key
  [nodes |-> [i \in DOMAIN u.pieces |->
     IF u.pieces[i].ref = NoRef THEN <<0, u.pieces[i].text>> ELSE <<AtomAt(u, u.pieces[i].ref), <<>>>>], bind |-> u.bind]
CacheKey(u) ==
  [nodes |-> [i \in DOMAIN u.pieces |->
     IF u.pieces[i].ref = NoRef THEN <<0, u.pieces[i].text>>
     ELSE <<AtomAt(u, u.pieces[i].ref), u.pieces[i].text, u.pieces[i].kind>>], bind |-> u.bind]
Encoded(u, nodes) ==
  [i \in DOMAIN nodes |-> [place |-> IF nodes[i].ref = NoRef THEN 0 ELSE AtomAt(u, nodes[i].ref), text |-> nodes[i].text]]
Decoded(u, value) ==
  [i \in DOMAIN value |-> IF value[i].place = 0 THEN Text(value[i].text) ELSE Ref(Atoms(u)[value[i].place].ref)]

(* restore_inline: the unit's own marks and destination return.            *)
Restored(u, n) ==
  LET back == IF n.ref = NoRef THEN Node("text", n.text, NoRef, "", "") ELSE Atom(u, n.ref).back[1]
      marked == IF u.bind[1] = "" THEN back ELSE [back EXCEPT !.mark = u.bind[1]]
  IN IF marked.type = "text" /\ u.bind[2] # "" THEN [marked EXCEPT !.type = "link", !.to = u.bind[2]] ELSE marked

(* reassemble: the units of a block in their order. *)
UnitsOfBlock(b) == SelectSeq([k \in DOMAIN units |-> k], LAMBDA k: units[k].block = b)
Joined(b) ==
  FlattenSeq([i \in DOMAIN UnitsOfBlock(b) |->
    LET k == UnitsOfBlock(b)[i] IN [j \in DOMAIN results[k].nodes |-> Restored(units[k], results[k].nodes[j])]])

--------------------------------------------------------------------------------
Init ==
  /\ src \in Papers /\ profile \in Profiles /\ way \in Ways
  /\ units = <<>> /\ results = <<>> /\ cache = {}

Plan ==
  /\ units = <<>>
  /\ units' = FlattenSeq([b \in DOMAIN src.blocks |-> UnitsOf(src, b)])
  /\ UNCHANGED <<src, profile, way, results, cache>>

(* The next unit is answered from the cache, or else by the model.         *)
NextUnit == units[Len(results) + 1]
Hits == {c \in cache: c.key = CacheKey(NextUnit) /\ Accepted(NextUnit, Decoded(NextUnit, c.value))}
FromCache ==
  /\ Len(results) < Len(units)
  /\ \E c \in Hits: results' = Append(results, [ok |-> TRUE, nodes |-> Decoded(NextUnit, c.value), said |-> c.said])
  /\ UNCHANGED <<src, profile, way, units, cache>>
Translate ==
  LET answer == Answer(NextUnit)
      ok == Accepted(NextUnit, answer)
  IN /\ Len(results) < Len(units) /\ Hits = {}
     /\ results' = Append(results, [ok |-> ok, nodes |-> answer, said |-> IF ok THEN Said(NextUnit, answer) ELSE <<>>])
     /\ cache' = IF ok /\ ~\E c \in cache: c.key = CacheKey(NextUnit)
                 THEN cache \cup {[key |-> CacheKey(NextUnit), value |-> Encoded(NextUnit, answer), said |-> Said(NextUnit, answer)]}
                 ELSE cache
     /\ UNCHANGED <<src, profile, way, units>>

Next == Plan \/ FromCache \/ Translate
Spec == Init /\ [][Next]_planVars

--------------------------------------------------------------------------------
(* Properties. *)

TypeOK == Len(results) <= Len(units) /\ \A k \in DOMAIN units: units[k].block \in DOMAIN src.blocks /\ units[k].pieces # <<>>

(* Every glyph and atom of a block is in one unit, in order; no unit is    *)
(* wider than the limit or mixes marks or destinations; and a local model  *)
(* is given half a word only when the word is longer than a unit.          *)
Stream(pieces) == FlattenSeq([i \in DOMAIN pieces |-> IF pieces[i].ref = NoRef THEN pieces[i].text ELSE <<pieces[i].ref>>])
HalfWord(u, v) ==
  LET e == Last(u.pieces)  f == Head(v.pieces)
  IN e.at = f.at /\ e.ref = NoRef /\ f.ref = NoRef /\ {Last(e.text), Head(f.text)} \subseteq Letters
PlanIsAPartition ==
  \A b \in DOMAIN src.blocks:
    LET ids == UnitsOfBlock(b)
        pieces == Pieces(src.blocks[b], src.rich)
        limit == BlockLimit(pieces)
        u(i) == units[ids[i]]
    IN ids # <<>> =>
       /\ Stream(FlattenSeq([i \in DOMAIN ids |-> u(i).pieces])) = Stream(pieces)
       /\ \A i \in DOMAIN ids:
            /\ WidthOf(u(i).pieces) <= limit
            /\ src.rich => \A p \in ToSet(u(i).pieces): p.bind = u(i).bind
            /\ i + 1 \in DOMAIN ids /\ profile.local /\ HalfWord(u(i), u(i + 1)) =>
                 Len(u(i).pieces) = 1 /\ Len(u(i).pieces[1].text) = limit /\ Blank \notin ToSet(u(i).pieces[1].text)

(* An answer that repeats its unit, as it was sent or with the liberties   *)
(* that are understood, restores the block with its marks, links and       *)
(* citations; and a cached answer reads as the model had said it.          *)
Merged(nodes) ==
  LET join(ns, n) ==
        IF ns # <<>> /\ n.type # "ref" /\ [Last(ns) EXCEPT !.text = n.text] = n
        THEN Front(ns) \o <<[n EXCEPT !.text = Last(ns).text \o @]>> ELSE Append(ns, n)
  IN FoldLeft(join, <<>>, nodes)
AnswersRestore ==
  /\ \A k \in DOMAIN results: results[k].ok => Said(units[k], results[k].nodes) = results[k].said
  /\ way \in {"faithful", "respelled"} =>
       \A b \in {units[k].block: k \in DOMAIN units}:
         (\A k \in ToSet(UnitsOfBlock(b)): k \in DOMAIN results /\ results[k].ok) =>
           Merged(Joined(b)) = Merged(src.blocks[b])

UnitsRestoreTheSource ==
  /\ units # <<>> /\ results = <<>> => PlanIsAPartition
  /\ AnswersRestore
================================================================================
