SPECIFICATION FairSpec
CONSTANTS
  t1 = t1
  t2 = t2
  NoTable = NoTable
  Tables = {t1}
  TableOf <- MCTableOf
  Rows = {1}
  EditRows = {1}
  OtherRows = {1}
  HubRows = {1}
  Excludable = {t1}
  SameMillisecond = FALSE
  Clocks = {1, 3}
  MaxRevision = 3
  MaxArrival = 2
  MaxFaults = 1
INVARIANTS
  PushCoverage
  InboxSound
PROPERTIES
  Convergence
