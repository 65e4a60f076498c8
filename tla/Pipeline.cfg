SPECIFICATION Spec
CONSTANTS
  Runs = {r1}
  Workers = {w1, w2}
  People <- MCPeople
  Candidates <- MCCandidates
  CandidateOf <- MCCandidateOf
  Suppressed <- MCSuppressed
  Main <- MCMain
  Pages <- MCPages
  PeopleOn <- MCPeopleOn
  MaxCandidates = 2
  MatchBatch = 1
  SearchCap = 3
  MaxTries = 1
  ProviderErrors = {"auth", "retryable", "other"}
  EnrichOutcomes = {"pending", "completed", "failed", "deferred", "rate_limited", "auth"}
  Outdated = {"plan", "match"}
  OnDemand = TRUE
  MaxPublish = 1
  MaxRedeliveries = 1
  MaxCrashes = 1
  MaxFailures = 0
  NoJob = NoJob
  ana = ana
  ben = ben
  bob = bob
  dnc = dnc
  eve = eve
  c1 = c1
  c2 = c2
SYMMETRY WorkerSymmetry
INVARIANTS
  TypeOK
  CheckpointsFollowState
  SeenWithinLimit
  AtMostOneSearchAfterCancel
PROPERTIES
  CancelFreezesCandidates
  KeepsRunPromise
CHECK_DEADLOCK FALSE
