CONSTANTS
  NumBufs = 3
  WarmUp = 4
  CtrWord = 7
  Timings <- AnyTiming
  FaultKinds <- InOrder
  MaxSeq = 13
  MaxFaults = 3
SPECIFICATION Spec
INVARIANTS
  NoFalseLoss
  ReportedOnce
CHECK_DEADLOCK FALSE
