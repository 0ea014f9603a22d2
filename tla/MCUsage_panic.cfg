SPECIFICATION Spec
CONSTANTS
  c1 = c1
  c2 = c2
  ip1 = ip1
  ip2 = ip2
  tok = tok
  Drivers = {"memory"}
  Calls <- MCCalls
  Ids <- MCIds
  IPs <- MCIPs
  Limit <- MCLimit
  Expiry <- MCExpiry
  Grace = 2
  MaxLag = 2
  MaxTime = 7
SYMMETRY Symmetry
INVARIANT CloseIsClean
