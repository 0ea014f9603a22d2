SPECIFICATION Spec
CONSTANTS
  c1 = c1
  c2 = c2
  Drivers = {"memory", "redis"}
  Callers <- MCCallers
  Series <- MCSeries
  Window <- MCWindow
  Second = 2
  SweepInterval = 2
  MaxSends = 2
  MaxIncrs <- MCMaxIncrs
  Horizon <- MCHorizon
  MaxTime = 8
CONSTRAINT OneSeries
SYMMETRY Symmetry
INVARIANT TypeOK
INVARIANT CountsKept
INVARIANT ResidueBounded
