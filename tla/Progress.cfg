SPECIFICATION ProgressSpec
CONSTANTS
  a1 = a1
  a2 = a2
  Artifacts = {a1}
  NoArtifact = NoArtifact
  MaxAttempts = 2
  AttemptLimit <- PublishOnce
  MaxGeneration = 3
  Events = {"draft", "pause", "cancel", "crash", "delete", "raise"}
CHECK_DEADLOCK FALSE
INVARIANTS TypeOK NothingOutlivesCleanup
PROPERTIES SearchCatchesUp RequestsAreAccountedFor
