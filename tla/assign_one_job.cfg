CONSTANTS
  Threads = {t1, t2}
  Employees = {e1, e2}
  Companies = {c1, c2}
  Caps = {1}
  NoSlot = NoSlot
  Exempt = {}
  MaxId = 2
  MaxChanges = 1
  SnapshotIsolation = TRUE
SPECIFICATION Spec
SYMMETRY Symmetry
INVARIANT OneJobPerEmployee
