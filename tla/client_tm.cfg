CONSTANTS
  near = near
  far = far
  Modulus = 3
  Sats = {near, far}
  Sync <- Syncs
  Length <- Lengths
  Crc <- SumCrc
  MaxStream = 9
  flight = flight
  engineering = engineering
  short = short
  long = long
  stray = stray
  Links = {flight, engineering}
  Wire <- WireIds
  Native = 68
  TmSize = 2
  TcFrames = {short, long, stray}
  TcSize <- FrameSizes
  TcScid <- FrameIds
  Header = 2
  Room = 3
  NumClients = 2
  Limit <- SmallLimit
  None = None
SPECIFICATION ClientSpec
INVARIANTS
  ScannerTypeOK BytesAccounted BufferBounded FramesGenuine CleanStreamDelivered
  CuttingIrrelevant TypeOK TmFaithful TcFaithful
PROPERTY CloseIsNoticed
\* The system may stop: no datagram, client or interrupt is left.
CHECK_DEADLOCK FALSE
