SPECIFICATION EvidenceSpec
CONSTANTS
  v1 = v1
  v2 = v2
  a1 = a1
  t1 = t1
  i1 = i1
  a2 = a2
  t2 = t2
  o = o
  p = p
  Versions = {v1, v2}
  NoVersion = NoVersion
  Fixed = Fixed
  Rows = {a1, t1, i1, a2, t2, o, p}
  Home <- MCHome
  Ordinal <- MCOrdinal
  KindOf <- MCKindOf
  Place <- MCPlace
  Near <- MCNear
  Linked <- MCLinked
  Manifested = {v1, v2, Fixed}
  Paths <- MCPaths
  Mapped = {a1, a2, o}
  Excludable = {a1}
  LaneLimit = 2
  AskedLimit = 1
  AnchorLimit = 4
  PackLimit = 2
  Chunks = {1, 2, 3, 4, 5, 6, 7, 8}
  VersionOf <- MCVersion
  Modality <- MCModality
  Distance <- MCDistance
  Similarity <- MCSimilarity
  WithTerm = {1, 8}
  Relations <- MCRelations
  Weight <- MCWeight
  RrfK = 2
  MaxRank = 4
  Edges = {1, 2, 3, 4, 5}
  Ends <- MCEnds
  Support <- MCSupport
  EntryOf <- MCEntry
  MaxSeeds = 2
  WalkBudget = 5
  MaxPaths = 3
  MaxDocuments = 4
  Tasks <- FlowTasks
  Limit = 3
  TopK = 2
  BatchSize = 2
  WindowLimit = 2
  Target = 2
  MaxTokens = 8
  OverlapTokens = 1
  Gap = 1
  SoftTokens = 5
  MaxChunks = 50
  IncludeCaptions = FALSE
  UnitTarget = 3
  UnitMax = 4
  UnitSlack = 1
  MinChunk = 3
  TargetChunk = 5
  PenaltyWeight = 6
  MaxUnits = 8
  MaxUnitTokens = 24
  Distances <- MCDistances
  ChunkTasks <- MCChunkTasks
  BuildSources <- MCBuildSources
  TextBatch = 3
  ImageBatch = 2
  QaBatch = 2
  QaAttempts = 2
  MaxQuestions = 2
  Benchmark <- MCBenchmark
  Preflight <- MCPreflight
  AspectsOf <- MCAspectsOf
  AnswersOf <- MCAnswersOf
  Required <- MCRequired
  JudgeModels = {m1}
  Views = {"sound", "flawed"}
  Sound = "sound"
  JudgeAttempts = 2
  MaxProcesses = 2
  Missing = Missing
INVARIANTS
  EvidenceWasServed
  ChunksKeepTheDocument
  PlansAreBest
  VectorsAreTheirOwn
  ReportIsFaithful
CHECK_DEADLOCK FALSE
