SPECIFICATION WorkersSpec
CONSTANTS
  Versions = {v1}
  Workers = {w1, w2}
  MaxAttempts = 2
  BatchSize = 1
  MaxSegments = 1
  NoVersion = NoVersion
  Consumers = {"chat", "indexing"}
INVARIANT
  WorkerEndsWhole
PROPERTIES
  LateWorkersRestoreNothing
  FinishedBuildsAreFrozen
  FinishedBuildsAreDecided
CHECK_DEADLOCK FALSE
