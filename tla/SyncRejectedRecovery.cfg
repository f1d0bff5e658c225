SPECIFICATION Spec
CONSTANTS
  Tables = {t1}
  BaseTables = {t1}
  LocalTables = {}
  RemoteTables = {}
  Rows = {r11}
  TableOf <- MCTableOf
  Vals = {v, bad}
  BadVals = {bad}
  EditRows = {}
  OtherRows = {r11}
  HubRows = {}
  MonotoneEdits = TRUE
  LateRollback = FALSE
  MaxClock = 2
  MaxFaults = 1
  t1 = t1
  t2 = t2
  t3 = t3
  r11 = r11
  r12 = r12
  r21 = r21
  None = None
  bad = bad
  v = v
INVARIANTS
  RejectedCoverage
