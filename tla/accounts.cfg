CONSTANTS
  Threads = {t1, t2}
  Clients = {c}
  Numbers = {n1, n2}
  Tiers = {"employee", "admin"}
  MaxId = 2
  AccessTTL = 1
  RefreshTTL = 2
  None = None
  MaxTime = 3
  MaxChanges = 2
  SnapshotIsolation = TRUE
SPECIFICATION Spec
SYMMETRY Symmetry
INVARIANTS TypeOK TierIsRecent BearerIsRecent FlagTellsPassword
CHECK_DEADLOCK FALSE
