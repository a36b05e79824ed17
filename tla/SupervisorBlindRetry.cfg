SPECIFICATION Spec
CONSTANTS
  Effect = {e1, e2}
  Callback = {}
  Resource = {r1}
  Coordinator = {c1, c2}
  Resumable = {e2}
  StartProvider = e1
  Limits = {}
  DefaultLimit <- Defaults
  Calls = {}
  TokenCost = {}
  TimeBudget = 1
  Targets = {"starting", "verifying", "cancelling"}
  Reasons = {"attention-required"}
  MaxRevision = 6
  MaxTime = 1
  MaxRuns = 2
  e1 = e1
  e2 = e2
  r1 = r1
  c1 = c1
  c2 = c2
SYMMETRY CoordinatorSymmetry
INVARIANTS NoBlindRetry
CHECK_DEADLOCK FALSE
