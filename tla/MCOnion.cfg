SPECIFICATION MCSpec
CONSTANTS
  Client = c
  s1 = s1
  s2 = s2
  s3 = s3
  Servers = {s1, s2, s3}
  MaxPaths = 3
  Routes <- MCRoutes
  MaxErrorStreams = 0
  Configs <- MCConfigs
  BufLen = 3
  SourceLen = 5
  Chunk = 2
  IdBits = 3
  MaxCount = 3
  Byte = 2
  CryptoTag = 1
  BufferSize = 9
  Written = 5
  MaxCall = 2
  MaxWire = 3
INVARIANTS
  Authentic
  Delivered
  RoutesBounded
  PathsResolve
  ForwardsAll
  ClosestAreClosest
  StreamIntact
CHECK_DEADLOCK FALSE
