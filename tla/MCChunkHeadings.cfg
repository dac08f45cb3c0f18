SPECIFICATION ChunkSpec
CONSTANTS
  MaxTokens = 8
  OverlapTokens = 1
  Gap = 1
  SoftTokens = 5
  MaxChunks = 50
  IncludeCaptions = FALSE
  UnitTarget = 3
  UnitMax = 4
  UnitSlack = 1
  MinChunk = 3
  TargetChunk = 5
  PenaltyWeight = 6
  MaxUnits = 8
  MaxUnitTokens = 24
  Distances <- MCDistances
  ChunkTasks <- MCChunkTasks
INVARIANTS
  HeadingsWait
CHECK_DEADLOCK FALSE
