CONSTANTS
  Threads = {t1, t2}
  Texts = {old, new, bad}
  Malformed = {bad}
  None = None
  Failed = Failed
  MaxEdits = 1
SPECIFICATION Spec
SYMMETRY Symmetry
INVARIANT SettledCacheIsCurrent
