CONSTANTS
  b1 = b1
  b2 = b2
  s1 = s1
  d1 = d1
  d2 = d2
  s2 = s2
  Bases = {b1, b2}
  Sessions = {s1, s2}
  None = None
  PageSize = 2
  Reconnects = 1
  MaxQuestions = 1
  MaxClicks = 2
  MaxFailures = 1
  MaxCalls = 2
  Documents = {d1, d2}
  KnowledgeBases = {b1, b2}
  Unset = Unset
  Home <- MCHome
  MaxActs = 3
  MaxRequests = 2
SPECIFICATION MCSpec
PROPERTIES
  LateAnswersKeepTheView
CHECK_DEADLOCK FALSE
