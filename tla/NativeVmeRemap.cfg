SPECIFICATION VmeSpec
CONSTANTS
  Cpus = {c1}
  Spaces = {s1, s2}
  Pages = {p1, p2}
  Frames = {f1}
  Null = Null
  Remaps = TRUE
  SharedSpaces = FALSE
PROPERTIES
  SwitchCompletes
CHECK_DEADLOCK FALSE
