SPECIFICATION FairSpec
CONSTANTS
  Runs = {r1, r2}
  StartKeys = {k1}
  ApiProcesses = {a1}
  Workers = {w1}
  Sweepers = {s1}
  LastScorecard = 2
  DemandRequests = {d1}
  MaxLimits = 2
  OnDemandToo = FALSE
  MaxGenerations = 1
  MaxFaults = 1
  NoOne = NoOne
  NoItem = NoItem
  Rows = {c1}
  Keys = {k1}
  Urls = {}
  Emails = {}
  Requests = {q1}
  MaxLost = 0
  Asks = {p1}
  Managers = {m1}
  Cleaners = {x1}
  MaxTroubles = 1
  NoRow = NoRow
  NoUrl = NoUrl
  NoAsk = NoAsk
  NoRequest = NoRequest
PROPERTIES
  CommittedWorkIsDone
  ExecutingDeletionsComplete
CHECK_DEADLOCK FALSE
