SPECIFICATION SdSpec
CONSTANTS
  Vals = {zero, v1}
  Zero = zero
  Rev = rev
  Sectors = sectors
  BlockWords = 3
  RevWord = 0
  SectorsWord = 1
  CardBlocks = 3
  ImageBlocks = 2
  None = None
  MaxBlocks = 2
  ShortBy = {0, 2}
INVARIANTS
  SdTypeOK
  NoWarning
PROPERTIES
  ReadsSeeWrites
  RequestAnswered
