SPECIFICATION FairSpec
CONSTANTS
  Tables = {t1, t2, t3}
  BaseTables = {t1}
  LocalTables = {t2}
  RemoteTables = {t2, t3}
  Rows = {r11, r21}
  TableOf <- MCTableOf
  Vals = {v}
  BadVals = {}
  EditRows = {r21}
  OtherRows = {r11}
  HubRows = {r11}
  MonotoneEdits = TRUE
  LateRollback = FALSE
  MaxClock = 1
  MaxFaults = 1
  t1 = t1
  t2 = t2
  t3 = t3
  r11 = r11
  r12 = r12
  r21 = r21
  None = None
  v = v
INVARIANTS
  QuietSchema
PROPERTIES
  SchemaConvergence
