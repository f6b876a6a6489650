CONSTANTS
  Runs = {r1}
  Stops = {s1}
  Bridges = 2
  Limit <- NoFailure
  None = None
SPECIFICATION FairSpec
PROPERTY StopStops
CHECK_DEADLOCK FALSE
