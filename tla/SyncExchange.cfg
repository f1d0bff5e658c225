SPECIFICATION FairSpec
CONSTANTS
  Tables = {t1, t2}
  BaseTables = {t1, t2}
  LocalTables = {}
  RemoteTables = {}
  Rows = {r11, r21}
  TableOf <- MCTableOf
  Vals = {v}
  BadVals = {}
  EditRows = {r11}
  OtherRows = {}
  HubRows = {r21}
  MonotoneEdits = TRUE
  LateRollback = FALSE
  MaxClock = 2
  MaxFaults = 1
  t1 = t1
  t2 = t2
  t3 = t3
  r11 = r11
  r12 = r12
  r21 = r21
  None = None
  v = v
INVARIANTS
  PullCoverage
PROPERTIES
  Convergence
