CONSTANTS
  Developers = {d1, d2}
  main = main
  None = None
  r1 = r1
  r2 = r2
  get = get
  s1 = s1
  s2 = s2
  ok = ok
  employees = employees
  old = old
  new = new
  plain = plain
  Resources = {r1, r2}
  Methods = {get}
  Schemas = {s1, s2}
  Responses = {ok}
  Tables = {employees}
  Shapes = {old, new}
  Texts = {plain, new}
  base = base
  docs = docs
  nested = nested
  wider = wider
  both = both
  Base = base
  Contracts = {base, docs, nested, wider, both}
  Defs <- Definitions
  Edits <- OneChange
  MaxCommits = 4
SYMMETRY Symmetry
SPECIFICATION Spec
INVARIANTS TypeOK MinorTellsContract PinsTellDependencies NeverDowngrades
PROPERTIES NoIdleBump
CHECK_DEADLOCK FALSE
