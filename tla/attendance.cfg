CONSTANTS
  Threads = {t1, t2}
  Employees = {ann}
  DayLength = 2
  WeekLength = 2
  None = None
  MaxTime = 4
  MaxChanges = 1
SPECIFICATION Spec
SYMMETRY Symmetry
INVARIANTS TypeOK OneSuccessPerScan ListsAgree
PROPERTIES ImplementsBook AnswersAreStored GateOutlivesCheckOut
CHECK_DEADLOCK FALSE
