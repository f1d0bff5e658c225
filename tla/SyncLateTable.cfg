SPECIFICATION Spec
CONSTANTS
  Tables = {t1, t2}
  BaseTables = {t1}
  LocalTables = {}
  RemoteTables = {t2}
  Rows = {r11, r21}
  TableOf <- MCTableOf
  Vals = {v}
  BadVals = {}
  EditRows = {}
  OtherRows = {}
  HubRows = {r11, r21}
  MonotoneEdits = TRUE
  LateRollback = FALSE
  MaxClock = 2
  MaxFaults = 0
  t1 = t1
  t2 = t2
  t3 = t3
  r11 = r11
  r12 = r12
  r21 = r21
  None = None
  v = v
INVARIANTS
  CompleteReplica
