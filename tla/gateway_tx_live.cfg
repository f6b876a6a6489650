CONSTANTS
  Names = {A, B}
  Endpoints = {e}
  NumInst = 2
  StaleAfter = 0
  Lags = {0}
  SlowPush = FALSE
  MaxPush = 2
  Limit <- LiveLimit
  None = None
SPECIFICATION FairSpec
INVARIANT SnapshotConsistent
PROPERTIES EventuallyMirrored TcHandled
