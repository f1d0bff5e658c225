SPECIFICATION Spec
CONSTANTS
  t1 = t1
  t2 = t2
  NoTable = NoTable
  Tables = {t1, t2}
  TableOf <- MCTableOf
  Rows = {1, 3}
  EditRows = {3}
  OtherRows = {}
  HubRows = {1, 3}
  Excludable = {}
  SameMillisecond = FALSE
  Clocks = {1}
  MaxRevision = 2
  MaxArrival = 3
  MaxFaults = 1
INVARIANTS
  PullSound
