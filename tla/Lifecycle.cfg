SPECIFICATION MCSpec
CONSTANTS
  Docs = {"d", "e"}
  Files = {"f", "g"}
  Owner <- MCOwner
  BackupIds = {1}
  Procs = {"p", "q"}
  Commands <- MCCommands
  FilesPerPass = 2
  Protocols = {"responses", "chat_completions", "claude_messages", "gemini_interactions", "local_translation"}
  RetryLimit = 3
  MaxJobs = 2
  MaxSources = 2
  MaxDrafts = 3
  Workers = 1
  Modes = {"analysed"}
  Startable <- MCStartable
  MaxRows = 2
  MaxPaid = 1
  MaxFence = 2
  MaxClaims = 2
INVARIANTS
  NothingRegisteredIsLost
  PermitTellsTheTruth
  ContinuationIsSound
  TaskListIsSound
  PaperIsReadable
  UnitsRestoreTheSource
PROPERTIES
  TaskListMovesForward
\* Every component may stop: its backups, attempts and jobs are bounded.
CHECK_DEADLOCK FALSE
