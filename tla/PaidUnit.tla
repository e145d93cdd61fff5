------------------------------- MODULE PaidUnit --------------------------------
(***************************************************************************)
(* What the queue promises about money, one unit at a time: a unit is sent *)
(* to the paid provider again only after every charge it may have caused   *)
(* is accounted for, or the user has accepted to pay it twice; a unit is   *)
(* delivered once and never sent afterwards.                               *)
(***************************************************************************)
EXTENDS Naturals

CONSTANT Tasks

VARIABLES
  open,       \* requests of the unit whose charge is not known yet
  accepted,   \* open charges the user accepted to duplicate
  delivered   \* the unit's result is committed

vars == <<open, accepted, delivered>>

Init ==
  /\ open = [t \in Tasks |-> 0]
  /\ accepted = [t \in Tasks |-> 0]
  /\ delivered = [t \in Tasks |-> FALSE]

Cleared(t) == open[t] <= accepted[t]

Dispatch(t) ==
  /\ ~delivered[t] /\ Cleared(t)
  /\ open' = [open EXCEPT ![t] = @ + 1]
  /\ UNCHANGED <<accepted, delivered>>

\* The charge is settled by evidence, or the request is known not to have run.
Account(t) ==
  /\ open[t] > 0
  /\ open' = [open EXCEPT ![t] = @ - 1]
  /\ UNCHANGED <<accepted, delivered>>

AcceptRisk(t) ==
  /\ ~delivered[t] /\ open[t] > 0
  /\ accepted' = [accepted EXCEPT ![t] = @ + 1]
  /\ UNCHANGED <<open, delivered>>

Deliver(t) ==
  /\ ~delivered[t] /\ Cleared(t)
  /\ delivered' = [delivered EXCEPT ![t] = TRUE]
  /\ UNCHANGED <<open, accepted>>

Next == \E t \in Tasks : Dispatch(t) \/ Account(t) \/ AcceptRisk(t) \/ Deliver(t)

Spec == Init /\ [][Next]_vars
================================================================================
