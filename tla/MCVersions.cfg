SPECIFICATION VersionsSpec
CONSTANTS
  Versions = {v1, v2}
  Workers = {w1}
  MaxAttempts = 1
  BatchSize = 2
  MaxSegments = 1
  NoVersion = NoVersion
  draft = draft
  redraft = redraft
  recaption = recaption
  Unset = Unset
  Attempters = {e1, e2}
  Drafts = {draft, redraft, recaption}
  UnitsOf <- MCUnitsOf
  TryLimit = 2
  RetryLimit = 1
  Calls = {c1, c2}
  k1 = k1
  Tickets = {k1, k2}
  Bases = {b1, b2}
  Names = {inbox, archive}
  inbox = inbox
  archive = archive
  t1 = t1
  t2 = t2
  m1 = m1
  TextModels = {t1, t2}
  DualModels = {m1}
  PrintOf <- MCPrintOf
  Fragile = {t2}
  Wanted <- MCWanted
  NoBase = NoBase
  Ids = {1, 2, 3}
  MaxValue = 1
  Limit = 1
  MaxEvents = 2
INVARIANTS
  ServedVersionIsSound
  ReadyBuildsAreWhole
  ListingsAreFaithful
PROPERTIES
  ImplementsSearchIndex
  KeysMakeOneBase
SYMMETRY Symmetry
CHECK_DEADLOCK FALSE
