CONSTANTS
  f1 = f1
  f2 = f2
  stray = stray
  sat1 = sat1
  sat2 = sat2
  Frames = {f1, f2, stray}
  Instances = {sat1, sat2}
  Route <- TwoSatellites
  Window = 2
  Limit <- SmallLimit
  None = None
SPECIFICATION Spec
INVARIANTS TypeOK SeenWasSent AcceptedAccounted SeenIsSince
PROPERTY FeedSpec
