SPECIFICATION LedgerSpec
CONSTANTS
  NoAttempt = NoAttempt
  h1 = h1
  h2 = h2
  RetryDepth = 1
  Attempt <- Attempts
  HeadSha <- Heads
  BoundId <- RetryId
  Requests <- DriverRequests
  MaxCycles = 2
  MaxReceipts = 2
SYMMETRY HeadSymmetry
CHECK_DEADLOCK FALSE
INVARIANTS Readable AccountedFor ApprovalReopenedByAttempt RetriesFormChain
PROPERTIES AuthorizedOnce VerdictsStand ImplementsBudget
