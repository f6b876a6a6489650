CONSTANTS
  Names = {A, B}
  Endpoints = {e}
  NumInst = 2
  StaleAfter = 1
  Lags = {0, 1}
  SlowPush = TRUE
  MaxPush = 1
  Limit <- SafetyLimit
  None = None
SPECIFICATION Spec
INVARIANTS TypeOK SelectionRegistered WorkRegistered OnlyChosenNames
PROPERTIES SettledIsStable SelectionSpec
