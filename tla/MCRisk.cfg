SPECIFICATION Spec
CONSTANTS
  r1 = r1
  r2 = r2
  none = none
  NoKey = none
  Requests <- MCRequests
  RequestKinds <- MCKinds
  Keys = {"a"}
  CounterNames = {"hits"}
  When <- MCWhen
  Names <- MCNames
  Texts <- MCTexts
  ChainMaps <- MCChainMaps
  MaxVisits = 8
  Threshold <- MCThreshold
  MaxArrivals = 3
  Drivers = {"memory", "redis"}
  WindowOf <- MCWindowOf
  Second = 1
  SweepInterval = 1
  MaxSends = 1
  MaxIncrs <- MCMaxIncrs
  Horizon <- MCHorizon
  MaxTime = 1
SYMMETRY Symmetry
INVARIANT TypeOK
INVARIANT CyclesFound
INVARIANT EvaluationSound
INVARIANT VerdictAgrees
INVARIANT OvershootBounded
