SPECIFICATION VmeSpec
CONSTANTS
  Cpus = {c1, c2}
  Spaces = {s1, s2}
  Pages = {p1, p2, p3}
  Frames = {f1}
  Null = Null
  Remaps = FALSE
  SharedSpaces = FALSE
INVARIANTS
  VmeTypeOK
  Isolation
  ListHoldsTable
PROPERTIES
  SwitchCompletes
CHECK_DEADLOCK FALSE
