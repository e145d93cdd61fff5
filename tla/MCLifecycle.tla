------------------------------- MODULE MCLifecycle -------------------------------
(***************************************************************************)
(* Lifecycle with constants for TLC, beside two components of its kind     *)
(* that are checked only: the way of a source from the parser to the       *)
(* reader, and from its blocks to units and back.  An initial choice       *)
(* decides which of the six runs, and one run of TLC checks all.  A step   *)
(* of the added ones leaves Lifecycle as it is.                            *)
(***************************************************************************)
EXTENDS Lifecycle, TLC

VARIABLES
  paper, source, page, panels, expanded, last,
  src, profile, way, units, results, cache

--------------------------------------------------------------------------------
\* Two documents with a file each; one process makes backups and applies
\* retention, the other restores.
MCOwner == "f" :> "d" @@ "g" :> "e"
MCCommands == "p" :> {"backup", "retention"} @@ "q" :> {"restore"}

\* A parse with its steps and the translation it leads to, a publication with
\* its index, and a check a user runs by itself.
MCStartable == {"parse", "publish", "quality_check"}

\* Two blocks of one or two nodes, the second like the first or a citation of
\* its own: words longer than a unit and shorter, names, text that looks like
\* a citation or a marker, and atoms of all sizes.  A remote model, and a local
\* one with room for a unit of 4 or of 3.
Inl(type, s) == [type |-> type, text |-> s, ref |-> "", mark |-> "", to |-> ""]
Inlines ==
  {Inl("text", s): s \in {<<"a", " ", "b">>, <<"a", "a", " ", "b", "b", "b", "b", "b">>, <<"Name", " ", "a">>,
                          <<"a", "PT0.1">>, <<"PT0.1-", " ", "[1]">>, <<" ">>}}
  \cup {Inl("ref", s): s \in {<<"[1]">>, <<"[2]">>, <<"2.5">>, <<"a", "[1]">>, <<"a", "a", "a", "a", "a">>}}
Linked == {[Inl("link", <<"a", "b">>) EXCEPT !.to = "u"]}
Marked ==
  {[Inl("text", <<"a", "b">>) EXCEPT !.mark = "bold"], [Inl("ref", <<"[1]">>) EXCEPT !.mark = "bold"],
   [Inl("link", <<"a", "b", " ", "Name">>) EXCEPT !.mark = "bold", !.to = "u"]}
Named(nodes, tag) ==
  [i \in DOMAIN nodes |-> IF nodes[i].type = "ref" THEN [nodes[i] EXCEPT !.ref = tag \o ToString(i)] ELSE nodes[i]]
Sources(rich, inlines) ==
  LET firsts == [1..1 -> inlines] \cup [1..2 -> inlines]
      cite == <<Inl("ref", <<"[2]">>)>>
  IN UNION {{[rich |-> rich, blocks |-> <<Named(f, "r"), Named(g, "s")>>]: g \in {f, cite}}: f \in firsts}

Pln == INSTANCE UnitPlan WITH
  Papers <- Sources(FALSE, Inlines \cup Linked) \cup Sources(TRUE, Inlines \cup Marked),
  Profiles <- {[local |-> FALSE, max |-> 4, room |-> 0], [local |-> TRUE, max |-> 8, room |-> 16],
               [local |-> TRUE, max |-> 6, room |-> 12]},
  AtomRoom <- 2,
  Ways <- {"faithful", "respelled", "turned", "repeated", "silent", "blank", "foreign"}

Sam == INSTANCE SamplePapers
Rdr == INSTANCE ReaderPage WITH Papers <- Sam!AllPapers

ASSUME Pln!UnitPlanAssumption

--------------------------------------------------------------------------------
readerVars == <<paper, source, page, panels, expanded, last>>
planVars == <<src, profile, way, units, results, cache>>

MCInit ==
  /\ active \in {"backups", "provider", "translations", "tasks", "reader", "plan"}
  /\ Bak!Init /\ Trs!Init /\ His!Init /\ Rdr!Init
  /\ IF active = "plan" THEN Pln!Init
     ELSE src = <<>> /\ profile = <<>> /\ way = "" /\ units = <<>> /\ results = <<>> /\ cache = {}
  /\ Prv!Init /\ (active # "provider" => protocol = "claude_messages" /\ controlled)

MCNext ==
  \/ Next /\ UNCHANGED <<readerVars, planVars>>
  \/ /\ UNCHANGED vars
     /\ \/ active = "reader" /\ Rdr!Next /\ UNCHANGED planVars
        \/ active = "plan" /\ Pln!Next /\ UNCHANGED readerVars

MCSpec == MCInit /\ [][MCNext]_<<vars, readerVars, planVars>>

--------------------------------------------------------------------------------
(* parsers/source_adapter.py, publisher/reader_v16.py: every text of a      *)
(* paper is on its page, and every link and panel leads to one; see        *)
(* ReaderPage.                                                             *)
PaperIsReadable == active = "reader" => Rdr!TypeOK /\ Rdr!PaperIsReadable

(* translation/planner.py, providers/local_translation.py: no text is lost *)
(* between blocks and units, and answers restore the marks, links and      *)
(* citations of the source; see UnitPlan.                                  *)
UnitsRestoreTheSource == active = "plan" => Pln!TypeOK /\ Pln!UnitsRestoreTheSource
================================================================================
