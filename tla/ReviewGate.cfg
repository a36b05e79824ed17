SPECIFICATION Spec
CONSTANTS
  NoAttempt = NoAttempt
  h1 = h1
  h2 = h2
  a1 = a1
  a2 = a2
  Attempt <- Attempts
  HeadSha <- Heads
  BoundId <- Retry
  FirstId <- First
  HeadOf <- HeadIn
  Requests = {}
  Axis <- Lanes
  LaneAxes <- OneThenTwo
  Driver = {d1}
  MaxCycles = 2
  MaxReceipts = 1
  MaxCommits = 1
  MaxCrashes = 1
SYMMETRY HeadSymmetry
CHECK_DEADLOCK FALSE
INVARIANTS GateTypeOK ReservedBeforeEffect VerdictIsAnswered OneAnswer
PROPERTIES TerminalIsOneShot OneGeneration
