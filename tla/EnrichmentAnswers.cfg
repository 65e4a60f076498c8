SPECIFICATION Spec
CONSTANTS
  Batches = {1, 2}
  Demands = {3}
  UnitCap = 2
  MaxAttempts = 2
  SubmitAnswers = {"pending", "completed", "applied", "rate_limited", "lost", "refused"}
  PollAnswers = {"result", "refused"}
  Webhooks = TRUE
  Cancellable = TRUE
  OtherRuns = FALSE
  Resets = FALSE
  MaxCrashes = 1
  NoRequest = NoRequest
INVARIANTS
  ReadyMeansCompleted
  AcceptedWorkIsCharged
PROPERTIES
  AnswersAreFinal
CHECK_DEADLOCK FALSE
