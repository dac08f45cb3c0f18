CONSTANTS
  a2 = a2
  a1 = a1
  c2 = c2
  c1 = c1
  i1 = i1
  i2 = i2
  i3 = i3
  i4 = i4
  k1 = k1
  k2 = k2
  k3 = k3
  s1 = s1
  b1 = b1
  b2 = b2
  p1 = p1
  q1 = q1
  q2 = q2
  e1 = e1
  e2 = e2
  f1 = f1
  None = None
  Intents = {i1, i2, i3, i4}
  SessionIds = {s1}
  Bases = {b1, b2}
  Connections = {c1, c2}
  Providers = {p1}
  Profiles = {q1, q2}
  Secrets = {e1, e2}
  Facts = {f1}
  Admins = {a1, a2}
  Kind <- MCKind
  Key <- MCKey
  Session <- MCSession
  Scope <- MCScope
  Weight <- MCWeight
  Wanted <- MCWanted
  AllowLegacy = FALSE
  HistoryLimit = 1
  TokenBudget = 2
  MaxRequests = 3
  MaxRevisions = 2
  SecretBatch = 2
  MaxEdits = 3
  MaxAttempts = 2
  Kept = 2
  SinkSize = 1
  StreamSize = 2
  MaxEvents = 3
  MaxStages = 1
  MaxLate = 1
SPECIFICATION MCSpec
SYMMETRY Alike
INVARIANTS
  RetriesAreOneTurn
  AnsweredKeysSurvive
PROPERTIES
  ContextIsWhole
  TimelineIsFaithful
