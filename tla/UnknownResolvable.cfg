SPECIFICATION HeldSpec
CONSTANTS
  j1 = j1
  t1 = t1
  t2 = t2
  Jobs = {j1}
  Tasks = {t1, t2}
  JobOf <- OneJob
  AttemptLimit = 3
  PermitLimit = 2
  MaxFence = 2
  MaxEpoch = 1
  MaxAccepts = 1
  Events = {}
  Outcomes <- AllOutcomes
CHECK_DEADLOCK FALSE
INVARIANT UnknownStaysResolvable
