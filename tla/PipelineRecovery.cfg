SPECIFICATION Spec
CONSTANTS
  Runs = {r1}
  Workers = {w1, w2}
  People <- MCPeople
  Candidates <- MCCandidates
  CandidateOf <- MCCandidateOf
  Suppressed <- MCSuppressed
  Main <- MCMain
  Pages <- MCPages
  PeopleOn <- MCPeopleOn
  MaxCandidates = 3
  MatchBatch = 1
  SearchCap = 9
  MaxTries = 3
  ProviderErrors = {}
  EnrichOutcomes = {"pending", "completed", "failed", "deferred"}
  Outdated = {}
  OnDemand = FALSE
  MaxPublish = 2
  MaxRedeliveries = 1
  MaxCrashes = 1
  MaxFailures = 1
  NoJob = NoJob
  ana = ana
  ben = ben
  bob = bob
  dnc = dnc
  eve = eve
  c1 = c1
  c2 = c2
SYMMETRY WorkerSymmetry
INVARIANTS
  ResultsMatchState
  WorkNotLost
CHECK_DEADLOCK FALSE
