SPECIFICATION FairSpec
CONSTANTS
  l1 = l1
  l2 = l2
  Listeners = {l1, l2}
  None = None
  MaxCommits = 1
  MaxLost = 0
  MaxConfigs = 1
  MaxEdits = 1
  MaxFailures = 1
INVARIANTS
  TypeOK
  ChangesNoticed
  CredentialOnce
PROPERTIES
  Settles
