SPECIFICATION StorageSpec
CONSTANTS
  v1 = v1
  c1 = c1
  NoVersion = NoVersion
  Versions <- OneVersion
  Documents <- Apart
  Keys <- Apart
  Creations <- OneVersion
  Bundles = {}
  Clients = {c1, c2}
  BatchSize = 2
  MaxTries = 2
  Faults = {"lose", "delete"}
  pdf = pdf
  note = note
  small = small
  large = large
  Docs = {pdf, note}
  Plain = {note}
  SegmentsOf <- MCSegmentsOf
  Takes = {small, large}
  SizeOf <- MCSizeOf
  Budget = 4
  MaxAttempts = 2
  MaxMishaps = 3
INVARIANTS
  DocumentsAreWhole
PROPERTIES
  DecisionsStand
  CommittedFilesSurvive
  PendingIsDecided
  NothingLeaks
  ParsingIsDecided
CHECK_DEADLOCK FALSE
