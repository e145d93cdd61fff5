SPECIFICATION MCSpec
CONSTANTS
  Jobs = {"j1", "j2", "j3"}
  Attempts = {"a1", "a2", "a3", "a4"}
  AttemptJob <- MCAttemptJob
  Controlled = {"j1", "j2"}
  Reserve <- MCReserve
  Charges = {1, 3}
  Budgets = {3}
  InFlightLimit = 2
  Bindings = {"a1", "a2", "b", "l"}
  Protocol <- MCProtocol
  LocalProtocol = "local"
  Keys = {"k1", "k2"}
  NoKey = "none"
  Requests <- MCRequests
  LegacyBinding = "a1"
  LegacyKey = "k1"
  NoBinding = "nothing"
  Tests = {"t1", "t2"}
  MaxRevisions = 3
  Models = {"m1", "m2"}
  Backend <- MCBackend
  Preinstalled = {"m1"}
  LocalUnits = {"u1", "u2", "u3"}
  UnitModel <- MCUnitModel
  Threads = {"p1", "p2"}
  MaxRestarts = 1
  MasterJobs = {"a", "b"}
  ChildJobs = {"c"}
  Owner <- MCOwner
  Parsing = {"b"}
  JobModel <- MCJobModel
  NoModel = "none"
  ModelSize <- MCModelSize
  Masters = 2
  Children = 2
  WorkerLimit = 3
  RamTotal = 30
  Percents = {50, 100}
  OtherUse = {0}
  MaxTasks = 2
  Hashes = {"a", "b", "c"}
  MaxMoves = 3
  Blocks = {"p", "q"}
  Mine = {"x"}
  Theirs = {"o"}
  Empty = ""
  MaxGen = 2
  MaxLate = 1
  Forms = {"a", "b"}
  Fields = {"f", "g"}
  FormOf <- MCFormOf
  Values = {"v", "w"}
  Protocols = {"P", "Q"}
  Endpoints = {"e1", "e2"}
  Order <- MCOrder
  MaxSaves = 1
  MaxActs = 3
INVARIANTS
  AdmissionIsFair
  NavigationIsGuarded
  EditsSurvive
  SettingsSurvive
PROPERTIES
  SpendingIsBounded
  SavedKeysAreSafe
  InferenceCompletes
\* Every component may stop: its requests, saves, units and tasks are bounded.
CHECK_DEADLOCK FALSE
