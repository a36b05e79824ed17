SPECIFICATION FairSpec
CONSTANTS
  Writer = {w1, w2}
  Path = {page, other, log}
  Editable = {log}
  Content = {x, y, l0, l1}
  Source <- Sources
  Requests <- Payloads
  InitialFile <- Vault
  Absent = Absent
  Present = Present
  None = None
  MaxFaults = 3
  page = page
  other = other
  log = log
  x = x
  y = y
  l0 = l0
  l1 = l1
  w1 = w1
  w2 = w2
INVARIANTS SourcesAreUnique
PROPERTIES ImplementsAtomicVault OkMeansWritten OutstandingIsFinished
CHECK_DEADLOCK FALSE
