SPECIFICATION Spec
CONSTANTS
  Effect = {e1}
  Callback = {k1}
  Resource = {r1}
  Coordinator = {c1, c2}
  Resumable = {e1}
  StartProvider = e1
  Limits <- OneEnvelope
  DefaultLimit <- Defaults
  Calls <- CallsTogether
  TokenCost = {1}
  TimeBudget = 1
  Targets = {"awaiting-callback", "verifying", "failed"}
  Reasons = {"attention-required"}
  MaxRevision = 5
  MaxTime = 2
  MaxRuns = 1
  e1 = e1
  k1 = k1
  r1 = r1
  c1 = c1
  c2 = c2
SYMMETRY CoordinatorSymmetry
INVARIANTS RecordConstructible AttentionIsExplained TerminalIsSettled NoChargeIsLost
PROPERTIES TerminalIsFinal PendingBlocksProgress AnswerIsKept
CHECK_DEADLOCK FALSE
