CONSTANTS
  Threads = {t1, t2}
  Employees = {e1}
  Companies = {c1, c2}
  Caps = {1}
  NoSlot = NoSlot
  Exempt = {}
  MaxId = 2
  MaxChanges = 0
  SnapshotIsolation = TRUE
SPECIFICATION FairSpec
PROPERTIES ImplementsBoard RequestsAnswered
INVARIANT ArchivedOnce
