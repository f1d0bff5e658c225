SPECIFICATION MCSpec
CONSTANTS
  i1 = i1
  i2 = i2
  i3 = i3
  x = x
  y = y
  d = d
  batch = batch
  single = single
  Null = Null
  Gone = Gone
  Keep = Keep
  Ids = {i1, i2, i3}
  Vals = {x, y}
  Exclusive = {x}
  Derived = {d}
  Sourced = {i3}
  MaxRev = 3
  Reqs = {batch, single}
  Offers <- MCOffers
  WriteRows = {w1}
  Contents = {v0, v1}
  Depth = 2
  Skew = 1
  MaxEdit = 3
  Inputs = {v0, v1}
  Invocations = {p1, p2}
  ClockSkew = 1
  MaxTime = 3
  MaxUpdates = 1
INVARIANTS
  BatchesSound
  AnswerExact
  DerivationsSound
  WritesSound
PROPERTIES
  DerivedBacked
  PatchExact
  AllOrNothing
