SPECIFICATION MCSpec
CONSTANTS
  Peers = {p1, p2}
  MaxConns = 3
  MaxRequests = 2
  MaxIncoming = 1
  Nodes = {n1, n2}
  Ips = {i1, i2}
  Loopback = {i2}
  AllowedCap = 1
  BannedCap = 1
  BanTimeout = 1
  Expiries = {1}
  MaxSockets = 3
  MaxClock = 2
  CacheSize = 1
  Lifetime = 3
  Margin = 2
  Delay = 1
  MaxAge = 5
  MaxStreams = 2
  MaxWork = 4
  Raters = {r1, r2}
  Threshold = 6
  VoteWeight = 1
  Severities <- MCSeverities
  MaxPunish = 1
INVARIANTS
  Ledger
  AnswersMatch
  
  NobodyUnchecked
  PunishedOnGrounds
PROPERTIES
  AnswersEachRequest
CHECK_DEADLOCK FALSE
