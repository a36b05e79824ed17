SPECIFICATION Spec
CONSTANTS
  Effect = {e1, e2}
  Callback = {k1}
  Resource = {r1}
  Coordinator = {c1}
  Resumable = {e2}
  StartProvider = e1
  Limits <- TwoEnvelopes
  DefaultLimit <- Defaults
  Calls <- CallsAlone
  TokenCost = {}
  TimeBudget = 1
  Targets = {"starting", "awaiting-callback", "verifying", "cancelling", "failed"}
  Reasons = {"attention-required", "process-start-failed"}
  MaxRevision = 8
  MaxTime = 3
  MaxRuns = 2
  e1 = e1
  e2 = e2
  k1 = k1
  r1 = r1
  c1 = c1
INVARIANTS NoBlindRetry SucceededMeansPerformed
CHECK_DEADLOCK FALSE
