------------------------------ MODULE MCUnitQueue ------------------------------
(* Instances of UnitQueue for TLC.                                          *)
EXTENDS UnitQueue, TLC

CONSTANTS j1, t1, t2

OneJob == [t \in Tasks |-> j1]
Symmetry == Permutations(Tasks)
================================================================================
