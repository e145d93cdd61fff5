SPECIFICATION Spec
CONSTANTS
  j1 = j1
  t1 = t1
  t2 = t2
  Jobs = {j1}
  Tasks = {t1, t2}
  JobOf <- OneJob
  AttemptLimit = 2
  PermitLimit = 1
  MaxFence = 2
  Outcomes = {"returned_valid","failed_unsent","failed_unknown"}
  MaxEpoch = 1
  MaxAccepts = 1
  Events = {"accept"}
SYMMETRY Symmetry
CHECK_DEADLOCK FALSE
INVARIANTS CompletedJobsAreSettled
PROPERTIES SuccessIsFinal
