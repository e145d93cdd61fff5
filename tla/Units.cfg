SPECIFICATION Spec
CONSTANTS
  j1 = j1
  t1 = t1
  t2 = t2
  Jobs = {j1}
  Tasks = {t1}
  JobOf <- OneJob
  AttemptLimit = 2
  PermitLimit = 1
  MaxFence = 3
  Outcomes <- AllOutcomes
  MaxEpoch = 2
  MaxAccepts = 1
  Events = {"pause","cancel","stop","accept","replace","delete","maintenance","crash","raise"}
CHECK_DEADLOCK FALSE
INVARIANTS TypeOK OneLiveRequest UncertainNeedsAcceptance AttemptsBounded
PROPERTIES FencedThreadsWriteOnlyMoney LedgerMovesForward DeletedStaysErased ImplementsPaidUnit
