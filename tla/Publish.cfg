SPECIFICATION Spec
CONSTANTS
  a1 = a1
  a2 = a2
  Artifacts = {a1, a2}
  NoArtifact = NoArtifact
  MaxAttempts = 1
  AttemptLimit <- Once
  MaxGeneration = 3
  Events = {"draft", "pause", "cancel", "crash", "delete", "raise", "retention"}
SYMMETRY Symmetry
CHECK_DEADLOCK FALSE
INVARIANTS RegisteredIsOnDisk UserDecisionsStand RowsOfGenerationAreCurrent
PROPERTY ImplementsEdition
