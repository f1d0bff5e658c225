SPECIFICATION MCSpec
CONSTANTS
  Isolates = {i1}
  Metered = {a, b}
  MaxPeriod = 2
  MaxRows = 2
  MaxTotal = 2
  Cap = 2
  Marks = {1, 2}
  Events = {e1, e2}
  TestId = test
  PageLimit = 2
  MaxSeq = 4
  CsRows = {r1}
  CsTargets = {r1}
  Keys = {k1, k2, k3}
  Handlers = {p1, p2}
  MaxRevision = 1
  MaxPurges = 1
  Cols = {a, b}
  Values = {v0, v1, v2}
  Requests = {k1, k2, k3}
  MaxLog = 3
  MaxStamp = 2
  MaxVersions = 2
  Tokens = {a, b}
  Runs = {p1, p2}
  MaxChanges = 1
SYMMETRY Symmetric
INVARIANTS
  UsageSound FeedComplete  GovernanceSound 
CHECK_DEADLOCK FALSE
