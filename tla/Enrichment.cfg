SPECIFICATION Spec
CONSTANTS
  Batches = {1, 2}
  Demands = {3}
  UnitCap = 2
  MaxAttempts = 2
  SubmitAnswers = {"pending", "completed", "applied", "rate_limited", "lost", "refused", "auth"}
  PollAnswers = {"result", "pending", "refused", "auth"}
  Webhooks = TRUE
  Cancellable = TRUE
  OtherRuns = TRUE
  Resets = TRUE
  MaxCrashes = 1
  NoRequest = NoRequest
INVARIANTS
  TypeOK
  SubmittedOnce
  AtMostOneSubmissionAfterCancel
CHECK_DEADLOCK FALSE
