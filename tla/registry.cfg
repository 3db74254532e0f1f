CONSTANTS
  Threads = {t1}
  Employees = {e1, e2}
  Companies = {c1}
  n1 = n1
  n2 = n2
  m1 = m1
  Numbers = {n1, n2}
  Names = {m1}
  Files <- AllFiles
  MaxChanges = 2
  None = None
SYMMETRY Symmetry
SPECIFICATION Spec
INVARIANTS TypeOK ListsAgree
PROPERTIES PlacementsOutliveDeletes UpdatesMerge LinesAreIndependent ReportsAreTrue LinesWriteTheirCells
CHECK_DEADLOCK FALSE
