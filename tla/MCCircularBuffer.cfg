CONSTANTS
  Capacity = 7
  SyncLimit = 3
  Word = 64
  Datagrams <- MCDatagrams
  ReadSizes <- MCReadSizes
  MaxWritten = 16
  MaxPos = 14
SPECIFICATION Spec
INVARIANTS
  IndexInBuffer
  WindowIntact
  DeliveredInOrder
PROPERTIES
  SkewConstant
