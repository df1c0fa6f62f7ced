SPECIFICATION CteSpec
CONSTANTS
  Cpus = {c0, c1}
  Cpu0 = c0
  Users = {u1}
  Kernels = {}
  Null = Null
  MaxNest = 2
INVARIANTS
  CteTypeOK
  EventIsCurrent
  OwnStack
  OwnSpace
PROPERTIES
  Preempted
  AllCpusEnter
