SPECIFICATION Spec
CONSTANTS
  Writer = {w1, w2}
  Path = {page, other, log}
  Editable = {page}
  Content = {x, y, l0, l1}
  Source <- Sources
  Requests <- Payloads
  InitialFile <- Vault
  Absent = Absent
  Present = Present
  None = None
  MaxFaults = 2
  page = page
  other = other
  log = log
  x = x
  y = y
  l0 = l0
  l1 = l1
  w1 = w1
  w2 = w2
SYMMETRY WriterSymmetry
PROPERTIES ConflictWritesNothing
CHECK_DEADLOCK FALSE
