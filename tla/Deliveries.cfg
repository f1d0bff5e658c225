SPECIFICATION MCSpec
CONSTANTS
  Subs = {s1}
  Tables = {t1}
  Polls = {p1, p2}
  MaxWrites = 3
  MaxDDL = 1
  MaxFaults = 1
  MaxPending = 2
  BatchSize = 2
  DeviceTokens = {k1, k2}
  Requests = {r1, r2}
  Drains = {d1, d2}
  MaxEvents = 2
  MaxRevision = 3
  MaxSetbacks = 1
  NoOne = NoOne
INVARIANTS
  SubscriptionsSound
  PushSound
PROPERTIES
  QueueImplemented
  Drained
  OwnGeneration
  Pushed
CHECK_DEADLOCK FALSE
