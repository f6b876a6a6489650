CONSTANTS
  grc = grc
  circuitpython = circuitpython
  g1 = g1
  g2 = g2
  c1 = c1
  Types = {grc, circuitpython}
  Settings = {g1, g2, c1}
  TypeOf <- BoardOf
  Writes <- WritesOf
  Limit <- SyncLimit
  Empty = Empty
  None = None
SPECIFICATION FairSpec
INVARIANTS TypeOK AppliedIsRunning OnlyOwnSettings
PROPERTIES ForgetsWithCause BoardFollowsOperator
\* The system may stop: the heartbeat thread ended and no event is left.
CHECK_DEADLOCK FALSE
