SPECIFICATION RingSpec
CONSTANTS
  Bytes = {"a", "b"}
  Capacity = 3
  MaxAmount = 4
INVARIANT
  RingTypeOK
PROPERTY
  BytesInOrder
