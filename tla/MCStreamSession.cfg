CONSTANTS
  MaxSessions = 3
  Prefetch = 1
  Options <- Usual
SPECIFICATION FairSpec
INVARIANTS
  NoDeadRing
  ReadersBounded
  RowPerSession
  RestartNotStale
PROPERTIES
  SessionsInTurn
  ShutdownStops
  BrokenReplaced
CHECK_DEADLOCK FALSE
