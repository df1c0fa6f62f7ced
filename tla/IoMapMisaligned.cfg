SPECIFICATION IoSpec
CONSTANTS
  W = 16
  MBASE = 5
  MSIZE = 8
  NR_MAP = 2
  PAGE_SIZE = 2
  IO_PAGES = 4
  MaxLen = 2
  DevAddrs = {0, 2, 13}
  DevLens = {1, 2}
INVARIANTS
  InDevice
CHECK_DEADLOCK FALSE
