CONSTANTS
  Capacity = 24
  SyncLimit = 18
  Word = 128
  Datagrams <- MCDatagrams
  ReadSizes <- MCReadSizes
  MaxWritten = 54
  MaxPos = 54
  Fluts <- MCFluts
  ProbeSize = 5
  MinScore = 2
  MaxScore = 3
  MaxResync = 20
  Streams <- MCStreams
SPECIFICATION AVSpec
INVARIANTS
  PacketAtPosition
PROPERTIES
  KeepsContract
  ResyncKeepsUp
CHECK_DEADLOCK FALSE
