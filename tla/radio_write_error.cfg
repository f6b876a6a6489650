CONSTANTS
  grc = grc
  circuitpython = circuitpython
  g1 = g1
  g2 = g2
  c1 = c1
  Types = {grc, circuitpython}
  Settings = {g1, g2, c1}
  TypeOf <- BoardOf
  Writes <- WritesOf
  Limit <- WriteErrorLimit
  Empty = Empty
  None = None
SPECIFICATION FairSpec
PROPERTY ForgottenIsRunning
