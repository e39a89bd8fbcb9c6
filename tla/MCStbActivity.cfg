SPECIFICATION Spec
CONSTANTS
  Groups <- MCGroups
  MaxStats = 4
INVARIANTS
  TimerArmed
  OkIsOwn
  AskedIsFollowed
PROPERTY
  WindowEnds
