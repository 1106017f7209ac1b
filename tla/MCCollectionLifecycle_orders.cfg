SPECIFICATION Spec
CONSTANTS
  c1 = c1
  c2 = c2
  c3 = c3
  c4 = c4
  d1 = d1
  d2 = d2
  d3 = d3
  None = None
  Create = {c1, c2, c3, c4}
  Delete = {d1, d2, d3}
  Before <- CreatesInOrder
  DiskFull = FALSE
  MaxCrash = 2
INVARIANTS
  TypeOK
  AckedCreateStays
  AckedDeleteStays
  ServedIsStored
  UnreadableIsUnfinished
CHECK_DEADLOCK FALSE
