SPECIFICATION Spec
CONSTANTS
  Runs = {r1, r2}
  Workers = {w1, w2}
  People <- MCPeople
  Candidates <- MCCandidates
  CandidateOf <- MCCandidateOf
  Suppressed <- MCSuppressed
  Main <- MCMain
  Pages <- MCPages
  PeopleOn <- MCPeopleOn
  MaxCandidates = 2
  MatchBatch = 1
  SearchCap = 3
  MaxTries = 1
  ProviderErrors = {"retryable", "other"}
  EnrichOutcomes = {"pending", "failed"}
  Outdated = {}
  OnDemand = FALSE
  MaxPublish = 1
  MaxRedeliveries = 0
  MaxCrashes = 0
  MaxFailures = 0
  NoJob = NoJob
  ana = ana
  ben = ben
  bob = bob
  dnc = dnc
  eve = eve
  c1 = c1
  c2 = c2
SYMMETRY WorkerSymmetry
INVARIANTS
  SpendWithinCap
CHECK_DEADLOCK FALSE
