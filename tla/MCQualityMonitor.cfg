CONSTANTS
  NumBufs = 3
  WarmUp = 4
  CtrWord = 64
  Timings <- Measured
  FaultKinds <- AllFaults
  MaxSeq = 8
  MaxFaults = 3
SPECIFICATION Spec
INVARIANTS
  LossCovered
  JitterTrusted
CHECK_DEADLOCK FALSE
