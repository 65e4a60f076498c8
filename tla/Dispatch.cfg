SPECIFICATION Spec
CONSTANTS
  Runs = {r1, r2}
  StartKeys = {k1, k2}
  ApiProcesses = {a1, a2}
  Workers = {w1, w2}
  Sweepers = {s1, s2}
  LastScorecard = 1
  DemandRequests = {d1}
  MaxLimits = 2
  OnDemandToo = FALSE
  MaxGenerations = 2
  MaxFaults = 1
  NoOne = NoOne
  NoItem = NoItem
SYMMETRY Symmetric
INVARIANTS
  DispatchTypeOK
  NothingIsForgotten
  ScorecardIsRunOnce
PROPERTIES
  CompletedStaysCompleted
CHECK_DEADLOCK FALSE
