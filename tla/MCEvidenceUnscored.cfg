SPECIFICATION FlowSpec
CONSTANTS
  Chunks = {1, 2, 3, 4, 5, 6, 7, 8}
  VersionOf <- MCVersion
  Modality <- MCModality
  Distance <- MCDistance
  Similarity <- MCSimilarity
  WithTerm = {1, 8}
  Relations <- MCRelations
  Weight <- MCWeight
  RrfK = 2
  MaxRank = 4
  Edges = {1, 2, 3, 4, 5}
  Ends <- MCEnds
  Support <- MCSupport
  EntryOf <- MCEntry
  MaxSeeds = 2
  WalkBudget = 5
  MaxPaths = 3
  MaxDocuments = 2
  Tasks <- FlowTasks
  Limit = 3
  TopK = 2
  BatchSize = 2
  WindowLimit = 2
  Target = 2
INVARIANT UnscoredPathsAreKept
CHECK_DEADLOCK FALSE
