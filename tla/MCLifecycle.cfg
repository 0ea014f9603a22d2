SPECIFICATION FairSpec
CONSTANTS
  r1 = r1
  r2 = r2
  Requests <- MCRequests
  Configs <- MCConfigs
  MaxSignals = 2
INVARIANT TypeOK
INVARIANT StoresOutliveUsers
INVARIANT StartedAsConfigured
PROPERTY SignalEndsProcess
