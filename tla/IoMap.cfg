SPECIFICATION IoSpec
CONSTANTS
  W = 16
  MBASE = 4
  MSIZE = 8
  NR_MAP = 2
  PAGE_SIZE = 2
  IO_PAGES = 4
  MaxLen = 2
  DevAddrs = {0, 1, 2, 3, 4, 11, 12, 13, 14, 15}
  DevLens = {1, 2, 3, 4, 6}
INVARIANTS
  IoTypeOK
  OneDevice
  NoneBehindPmem
  OwnSpace
  InPool
  AlignedInDevice
CHECK_DEADLOCK FALSE
