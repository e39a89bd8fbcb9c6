CONSTANTS
  Pes <- MCPes
  CC = 2
  PmtPackets = 3
  TableMax = 3
  MaxVersion = 1
  MaxFaults = 2
SPECIFICATION FairSpec
INVARIANTS
  TypeOK
  OnlyBlindGaps
  ProgramStable
PROPERTIES
  DiscontinuityJustified
  Recovers
CHECK_DEADLOCK FALSE
