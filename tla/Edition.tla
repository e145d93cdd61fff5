-------------------------------- MODULE Edition ---------------------------------
(***************************************************************************)
(* What a language edition of a document promises to its readers and to    *)
(* the people who publish it, whatever the workers behind it do: readers   *)
(* are sent to one complete artifact or to none, and the change from one   *)
(* to the next is a single step; a publication takes place only in the     *)
(* state its requester has seen; the search shows what readers are sent    *)
(* to, or nothing; and a deleted edition only ever becomes empty.          *)
(***************************************************************************)
EXTENDS Naturals

CONSTANTS Artifacts, NoArtifact

VARIABLES
  generation, current,   \* grows with every decision; what readers are sent to
  offered,    \* complete artifacts, which may be returned to
  seen,       \* the generation a publication was asked for in; 0: not asked for
  found,      \* what the search shows
  closed      \* the document is deleted

vars == <<generation, current, offered, seen, found, closed>>

Init ==
  /\ generation = 1 /\ current = NoArtifact /\ offered = {}
  /\ seen = [a \in Artifacts |-> 0]
  /\ found = NoArtifact /\ closed = FALSE

Request(a) ==
  /\ ~closed /\ seen[a] = 0
  /\ seen' = [seen EXCEPT ![a] = generation]
  /\ UNCHANGED <<generation, current, offered, found, closed>>

Preview(a) ==
  /\ ~closed /\ seen[a] # 0
  /\ offered' = offered \cup {a}
  /\ UNCHANGED <<generation, current, seen, found, closed>>

\* The search shows nothing until it has caught up.
Decide(a) ==
  /\ ~closed
  /\ generation' = generation + 1 /\ current' = a /\ found' = NoArtifact
  /\ UNCHANGED <<seen, closed>>

Publish(a) == seen[a] = generation /\ offered' = offered \cup {a} /\ Decide(a)
Return(a) == a \in offered /\ Decide(a) /\ UNCHANGED offered
Withdraw == Decide(NoArtifact) /\ UNCHANGED offered
NewDraft == Decide(current) /\ UNCHANGED offered

Index ==
  /\ ~closed /\ current # NoArtifact
  /\ found' = current
  /\ UNCHANGED <<generation, current, offered, seen, closed>>

Delete ==
  /\ ~closed /\ closed' = TRUE
  /\ UNCHANGED <<generation, current, offered, seen, found>>

Erase ==
  /\ closed
  /\ current' = NoArtifact /\ offered' = {} /\ found' = NoArtifact
  /\ UNCHANGED <<generation, seen, closed>>

Next ==
  \/ \E a \in Artifacts : Request(a) \/ Preview(a) \/ Publish(a) \/ Return(a)
  \/ Withdraw \/ NewDraft \/ Index \/ Delete \/ Erase

Spec == Init /\ [][Next]_vars
================================================================================
