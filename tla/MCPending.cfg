SPECIFICATION FairSpec
CONSTANTS
  ipA = ipA
  ipB = ipB
  r1 = r1
  r2 = r2
  r3 = r3
  NoIP = NoIP
  IPs <- MCIPs
  Requests <- MCRequests
  Addrs <- MCAddrs
  CanonicalIP <- MCCanonicalIP
  ConfiguredMax = 2
  ConfiguredTTL = 2
  DefaultTTL = 3
  SweepInterval = 3
  Horizon = 6
  MaxTime = 9
INVARIANT TypeOK
INVARIANT PendingCountsHolders
INVARIANT LimitRespected
INVARIANT BlockIsFixed
PROPERTY AnswersJustified
PROPERTY BlockNotExtended
PROPERTY SweepReclaims
PROPERTY Recovers
