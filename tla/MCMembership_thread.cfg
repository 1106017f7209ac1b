SPECIFICATION Spec
CONSTANTS
  s = s
  j1 = j1
  j2 = j2
  c1 = c1
  None = None
  Node = {s, j1}
  Named = {s}
  Bootstrap <- Star
  Collection = {c1}
  InitHeld <- OneHeld
  MaxCrash = 1
  MaxEvents = 2
INVARIANT ThreadRuns
CHECK_DEADLOCK FALSE
