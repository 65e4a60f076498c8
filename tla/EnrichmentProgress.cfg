SPECIFICATION FairSpec
CONSTANTS
  Batches = {1, 2}
  Demands = {3}
  UnitCap = 2
  MaxAttempts = 2
  SubmitAnswers = {"pending", "applied", "rate_limited", "refused", "auth"}
  PollAnswers = {"result", "pending", "refused"}
  Webhooks = TRUE
  Cancellable = TRUE
  OtherRuns = FALSE
  Resets = FALSE
  MaxCrashes = 0
  NoRequest = NoRequest
PROPERTIES
  EnrichmentEnds
  DemandsAreAnswered
CHECK_DEADLOCK FALSE
