SPECIFICATION Spec
CONSTANTS
  c1 = c1
  c2 = c2
  c3 = c3
  c4 = c4
  d1 = d1
  d2 = d2
  d3 = d3
  None = None
  Create = {c1, c2}
  Delete = {d1}
  Before <- Freely
  DiskFull = FALSE
  MaxCrash = 0
PROPERTY NewSegmentsOpen
CHECK_DEADLOCK FALSE
