CONSTANTS
  Names = {A, B}
  Endpoints = {e}
  NumInst = 1
  StaleAfter = 0
  Lags = {0}
  SlowPush = FALSE
  MaxPush = 1
  Limit <- SendFailLimit
  None = None
SPECIFICATION FairSpec
PROPERTY TcHandled
