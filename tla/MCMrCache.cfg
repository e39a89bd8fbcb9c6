SPECIFICATION Spec
CONSTANTS
  Entries <- MCEntries
  Key <- MCKey
  Iifs <- MCIifs
  iif_num = 1
  MaxEntries = 3
  MaxTime = 2
INVARIANTS
  CacheFollowsTable
  LogShowsTable
PROPERTY ElapsedIsOwn
CHECK_DEADLOCK FALSE
