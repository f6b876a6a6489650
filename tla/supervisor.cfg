CONSTANTS
  Runs = {r1, r2}
  Stops = {s1}
  Bridges = 2
  Limit <- OneOfEach
  None = None
SPECIFICATION FairSpec
INVARIANTS TypeOK NoLateOrphans StackOwned
PROPERTY StopReaches
\* The system may stop: every process has ended.
CHECK_DEADLOCK FALSE
