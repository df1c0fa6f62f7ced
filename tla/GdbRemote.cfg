SPECIFICATION GdbSpec
CONSTANTS
  Addrs = {0, 1, 2}
  Dests = {0, 2}
  Vals = {0, 1}
  Pcs = 2
  Mtu = 2
  MaxCopy = 3
  MaxExec = 2
  MaxNoise = 2
INVARIANTS
  GdbTypeOK
  InSync
PROPERTIES
  RunsEachCallOnce
  CallEnds
CHECK_DEADLOCK FALSE
