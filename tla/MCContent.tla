-------------------------------- MODULE MCContent --------------------------------
(***************************************************************************)
(* A small instance of Content for TLC (what is not here is in             *)
(* Content.cfg), beside a component of its kind that is checked only: the  *)
(* corrections of a source.  An initial choice decides which of the six    *)
(* runs; a step of the corrections leaves Content as it is.                *)
(***************************************************************************)
EXTENDS Content, TLC

VARIABLES revision, base, call   \* of SourceCorrections

--------------------------------------------------------------------------------
\* An upload of two chunks and one of one chunk; Documents may share a file.
MCSize == "u" :> 2 @@ "v" :> 1

\* Two PDFs of which one has a title to search for, two DOIs of which one fits.
MCSameDoc == {<<"a", "x">>, <<"b", "x">>}

\* Two units form block a, one forms block b; the rules object to text t.
MCUnitBlock == "u1" :> "a" @@ "u2" :> "a" @@ "u3" :> "b"

\* A page of ten text regions and the source the parser made of it: two
\* paragraphs that end in a printed hyphen, a figure, a group of two equal
\* paragraphs, a footnote with a space too few, and a region it missed (NX).
Text == "N0" :> <<"t">> @@ "N1" :> <<"a", "hy">> @@ "N2" :> <<"b">> @@ "N3" :> <<"c", "hy">>
  @@ "N4" :> <<"d">> @@ "M" :> <<"1">> @@ "NH" :> <<"h", "k">> @@ "NI" :> <<"h", "k">>
  @@ "NF" :> <<"1", "sp", "e", "sp", "g">> @@ "NX" :> <<"x">>
Native == <<"N0", "N1", "N2", "N3", "N4", "M", "NH", "NI", "NF", "NX">>
Inside == [l \in DOMAIN Text |-> {l}] @@ ("L1" :> {"N1", "N2"} @@ "L4" :> {"N4", "M"} @@ "LH" :> {"NH"} @@ "LI" :> {"NI"})
Node(g) == [type |-> IF g = "1" THEN "ref" ELSE "text", s |-> <<g>>, to |-> <<>>]
Read(id, kind, owner, t, prov, kids) ==
  [id |-> <<id>>, kind |-> kind, owner |-> owner, raw |-> t, norm |-> t, edit |-> <<>>,
   inline |-> [i \in DOMAIN t |-> Node(t[i])], prov |-> prov, kids |-> kids]
Parsed ==
  [blocks |-> <<Read("t", "heading", <<>>, <<"t">>, <<"N0">>, <<>>),
                Read("p", "paragraph", <<>>, <<"a", "wr", "b">>, <<"L1">>, <<>>),
                Read("q", "paragraph", <<>>, <<"c", "hy">>, <<"N3">>, <<>>),
                Read("v", "figure", <<>>, <<>>, <<>>, <<>>),
                Read("r", "paragraph", <<>>, <<"d", "1">>, <<"L4">>, <<>>),
                Read("g", "group", <<>>, <<>>, <<>>, << <<"h">>, <<"i">> >>),
                Read("h", "paragraph", <<"g">>, <<"h", "k">>, <<"LH">>, <<>>),
                Read("i", "paragraph", <<"g">>, <<"h", "k">>, <<"LI">>, <<>>),
                Read("f", "footnote", <<>>, <<"1", "sp", "e", "g">>, <<"NF">>, <<>>)>>,
   roots |-> << <<"t">>, <<"p">>, <<"q">>, <<"v">>, <<"r">>, <<"g">>, <<"f">> >>]

Cor == INSTANCE SourceCorrections WITH
  doc <- revision, Parsed <- Parsed, Native <- Native, Text <- Text, Inside <- Inside, MaxCalls <- 2, MaxOps <- 2

--------------------------------------------------------------------------------
corrVars == <<revision, base, call>>

\* The component that runs starts in all its states, the others in one.
MCInit ==
  /\ active \in {"uploads", "spool", "sources", "metadata", "editorial", "corrections"}
  /\ Upl!Init /\ Spl!Init /\ Src!Init /\ Met!Init /\ Edt!Init
  /\ active # "sources" => source = "f"
  /\ active # "metadata" => metaSource["d"] = "a"
  /\ IF active = "corrections" THEN Cor!Init ELSE revision = <<>> /\ base = <<>> /\ call = Cor!Idle

MCNext ==
  \/ Next /\ UNCHANGED corrVars
  \/ UNCHANGED vars /\ active = "corrections" /\ Cor!Next

MCSpec == MCInit /\ [][MCNext]_<<vars, corrVars>> /\ Fairness

--------------------------------------------------------------------------------
(* source_revisions/*.py: what is corrected stays a valid source with a    *)
(* sound mapping, and the letters are the page's; see SourceCorrections.   *)
CorrectedSourceIsSound ==
  [](active = "corrections" => Cor!TypeOK /\ Cor!CorrectionsAreConsistent) /\ Cor!LettersKept
================================================================================
