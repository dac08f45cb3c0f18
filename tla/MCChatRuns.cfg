SPECIFICATION MCSpec
CONSTANTS
  Runs = {r1, r2}
  Sessions = {s1, s2}
  Workers = {w1, w2}
  MaxAttempts = 2
  BatchSize = 2
  NoRun = NoRun
  c1 = c1
  c2 = c2
  c3 = c3
  k1 = k1
  k2 = k2
  Chunks = {c1, c2, c3}
  KBs = {k1, k2}
  Home <- MCHome
  Images = {c3}
  Related <- MCRelated
  Adjacent <- MCAdjacent
  Path <- MCPath
  NoChunk = NoChunk
  Requests <- MCRequests
  MaxCalls = 2
  MaxCites = 1
  MaxTokens = 4
  Usage = {1}
  Allowance = 2
  MaxImages = 1
INVARIANTS
  AnswerIsAtomic
  WithheldContentIsVisible
  CitationsWereShown
  NoBaseIsShutOut
  LastRoundsAreBounded
PROPERTIES
  StaleExecutorWritesNothing
  ImplementsChatTurns
  EveryTurnIsDecided
CHECK_DEADLOCK FALSE
