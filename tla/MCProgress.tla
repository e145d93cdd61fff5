------------------------------- MODULE MCProgress -------------------------------
(***************************************************************************)
(* What the worker loop owes its tasks: the instance of Publication in     *)
(* which an edition becomes searchable, and the instance of UnitQueue in   *)
(* which every request for money ends.  An initial choice decides which of *)
(* the two runs, and one run of TLC checks both.                           *)
(***************************************************************************)
EXTENDS MCPublication

VARIABLES
  active,   \* the component that runs
  jobs, epoch, superseded, units, unitFence, tries, repairs, unitLease, accepts,
  leaseEpoch, leaseRepair, attState, permit, validated, unitPhase, gone, maintenance

Unt == INSTANCE UnitQueue WITH
  Jobs <- {"j"}, Tasks <- {"t"}, JobOf <- "t" :> "j",
  AttemptLimit <- 2, PermitLimit <- 1, MaxFence <- 2, MaxEpoch <- 1, MaxAccepts <- 1,
  Events <- {"pause", "cancel", "crash", "raise", "accept"},
  Outcomes <- {"returned_valid", "returned_invalid", "returned_refused", "returned_unsupported",
               "failed_unsent", "failed_config", "failed_toolarge", "failed_unknown"},
  jobStatus <- jobs, taskStatus <- units, fence <- unitFence, leaseLive <- unitLease,
  phase <- unitPhase, deleted <- gone

ASSUME Unt!ConstantsAssumption

--------------------------------------------------------------------------------
unitVars == <<jobs, epoch, superseded, units, unitFence, tries, repairs, unitLease, accepts,
              leaseEpoch, leaseRepair, attState, permit, validated, unitPhase, gone, maintenance>>
progressVars == <<active, vars, unitVars>>

ProgressInit == active \in {"publication", "units"} /\ Init /\ Unt!Init

Publishes(A) == active = "publication" /\ A /\ UNCHANGED <<active, unitVars>>
Translates(A) == active = "units" /\ A /\ UNCHANGED <<active, vars>>

ProgressSpec ==
  /\ ProgressInit /\ [][Publishes(Next) \/ Translates(Unt!Next)]_progressVars
  /\ \A w \in Work :
       /\ WF_progressVars(Publishes(Claim(w)))
       /\ WF_progressVars(Publishes(LeaseOfDoneExpires(w)))
       /\ WF_progressVars(Publishes(RecoverExpired(w)))
  /\ \A w \in Work, f \in Fences : WF_progressVars(Publishes(ThreadStep(w, f)))
  /\ WF_progressVars(Translates(Unt!Claim("t")))
  /\ WF_progressVars(Translates(Unt!LeaseOfDoneExpires("t")))
  /\ WF_progressVars(Translates(Unt!RecoverExpired("t")))
  /\ \A f \in Unt!Fences : WF_progressVars(Translates(Unt!ThreadStep("t", f)))

(* api/jobs.py, translation/execution.py: a reserved amount is booked, sent *)
(* back or called unknown in the end, and a leased unit is released; see   *)
(* UnitQueue.                                                              *)
RequestsAreAccountedFor == Unt!RequestsAreAccountedFor
================================================================================
