SPECIFICATION Spec
CONSTANTS
  a1 = a1
  a2 = a2
  Artifacts = {a1}
  NoArtifact = NoArtifact
  MaxAttempts = 2
  AttemptLimit <- PublishOnce
  MaxGeneration = 3
  Events = {"draft"}
CHECK_DEADLOCK FALSE
INVARIANT PublishedIsSearchable
