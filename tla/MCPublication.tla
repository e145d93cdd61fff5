----------------------------- MODULE MCPublication -----------------------------
(* Instances of Publication for TLC.                                        *)
EXTENDS Publication, TLC

CONSTANTS a1, a2

\* Index tasks are recovered once; a publish task that is lost has failed.
PublishOnce == [w \in Work |-> IF w \in Artifacts THEN 1 ELSE 2]
\* No task is recovered: a task that is lost has failed.
Once == [w \in Work |-> 1]
Symmetry == Permutations(Artifacts)
================================================================================
