SPECIFICATION VmeSpec
CONSTANTS
  Cpus = {c1, c2}
  Spaces = {s1, s2}
  Pages = {p1}
  Frames = {f1, f2}
  Null = Null
  Remaps = FALSE
  SharedSpaces = TRUE
INVARIANTS
  MunmapsAll
CHECK_DEADLOCK FALSE
