SPECIFICATION Spec
CONSTANTS
  r1 = r1
  r2 = r2
  ipA = ipA
  ipB = ipB
  gen = gen
  forged = forged
  fixed = fixed
  open = open
  NoIP = NoIP
  NoToken = NoToken
  Requests <- MCRequests
  IPs <- MCIPs
  Addrs <- MCAddrs
  CanonicalIP <- MCCanonicalIP
  Tokens <- MCTokens
  TokenOf <- MCTokenOf
  Expiry <- MCExpiry
  Limit <- MCLimit
  Inputs <- ServiceInputs
  Configs <- ServiceConfigs
  Skew = 0
  Drivers = {"redis"}
  Grace = 1
  MaxLag = 1
  ConfiguredMax = 1
  ConfiguredTTL = 1
  DefaultTTL = 1
  SweepInterval = 2
  MaxTime = 2
SYMMETRY Symmetry
INVARIANT TypeOK
INVARIANT HonouredWithinQuota
INVARIANT InFlightBounded
INVARIANT SlotsMatchInFlight
PROPERTY AllowJustified
