CONSTANTS
  Threads = {w}
  Texts = {old, new, bad}
  Malformed = {bad}
  None = None
  Failed = Failed
  MaxEdits = 5
SPECIFICATION Spec
SYMMETRY Symmetry
INVARIANTS TypeOK HitIsCurrent
PROPERTY LoadIsFresh
