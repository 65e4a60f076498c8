SPECIFICATION FairSpec
CONSTANTS
  Runs = {r1}
  Workers = {w1, w2}
  People <- MCPeople
  Candidates <- MCCandidates
  CandidateOf <- MCCandidateOf
  Suppressed <- MCSuppressed
  Main <- MCMain
  Pages <- MCPages
  PeopleOn <- MCPeopleOn
  MaxCandidates = 3
  MatchBatch = 1
  SearchCap = 9
  MaxTries = 1
  ProviderErrors = {"auth", "retryable", "other"}
  EnrichOutcomes = {"pending", "deferred"}
  Outdated = {}
  OnDemand = FALSE
  MaxPublish = 1
  MaxRedeliveries = 0
  MaxCrashes = 1
  MaxFailures = 0
  NoJob = NoJob
  ana = ana
  ben = ben
  bob = bob
  dnc = dnc
  eve = eve
  c1 = c1
  c2 = c2
PROPERTY RunsProgress
CHECK_DEADLOCK FALSE
