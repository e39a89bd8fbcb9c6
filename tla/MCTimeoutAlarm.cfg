SPECIFICATION Spec
CONSTANTS
  DataWait = 2
  FalseAlarm = 3
  ExecDelay = 6
  SelectWait = 1
  LoopWait = 1
  MaxTime = 14
INVARIANTS
  ExecJustified
  ExecSpaced
CHECK_DEADLOCK FALSE
