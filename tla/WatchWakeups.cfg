SPECIFICATION MCSpec
CONSTANTS
  Listeners = {thread}
  Listener = thread
  thread = thread
  MaxCommits = 2
  MaxLost = 1
  MaxEdits = 1
  MaxFailures = 1
  e1 = e1
  c1 = c1
  TableEntries = {e1, e2}
  ColumnEntries = {c1}
  Alters <- MCAlters
  MaxBroken = 1
  LateDDL = FALSE
INVARIANTS
  TypeOK
  RemoteNoticed
PROPERTIES
  Settles
  SchemasAgree
