CONSTANTS
  s1 = s1
  s2 = s2
  s3 = s3
  plain = plain
  shared = shared
  own = own
  Sats = {s1, s2, s3, plain}
  Signed = {s1, s2, s3}
  Files = {shared, own}
  FileOf <- FilesOf
  MaxNumber = 2
  Limit <- SmallLimit
  None = None
SPECIFICATION Spec
INVARIANTS TypeOK FileAhead
PROPERTY NumbersFresh
\* Once the bound on frames is used up, the thread waits for ever.
CHECK_DEADLOCK FALSE
