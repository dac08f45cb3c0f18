SPECIFICATION MCGraphSpec
CONSTANTS
  c1 = c1
  c2 = c2
  w1 = w1
  w2 = w2
  Chunks = {c1, c2}
  Workers = {w1, w2}
  BatchSize = 2
  NoChunk = NoChunk
  MaxBuilds = 2
  MaxEvents = 2
INVARIANTS
  ActiveBuildIsWhole
  LoneWorkersKeepTheGraph
PROPERTIES
  LateWorkersChangeNothing
  UndisturbedBuildsAreDecided
CHECK_DEADLOCK FALSE
