SPECIFICATION MCSpec
CONSTANTS
  Tables = {t1}
  BaseTables = {t1}
  LocalTables = {}
  RemoteTables = {}
  Rows = {r11}
  TableOf <- MCTableOf
  Vals = {v, bad}
  BadVals = {bad}
  EditRows = {r11}
  OtherRows = {r11}
  HubRows = {r11}
  MonotoneEdits = FALSE
  LateRollback = FALSE
  MaxClock = 2
  MaxFaults = 2
  t1 = t1
  t2 = t2
  t3 = t3
  r11 = r11
  r12 = r12
  r21 = r21
  None = None
  bad = bad
  v = v
  SearchTables = {ta}
  SearchIds = {1, 2}
  Texts = {v0, v1}
  SmallQueue = 1
  EarlyDeletes = FALSE
  BackupTables = {1, 2}
  MaxStampRev = 2
  MaskedLogs = FALSE
INVARIANTS
  TypeOK
  PushCoverage
  PushInv
  SearchSound
  RestoreSound
PROPERTIES
  ReceiptsKept
