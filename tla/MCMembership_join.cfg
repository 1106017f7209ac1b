SPECIFICATION FairSpec
CONSTANTS
  s = s
  j1 = j1
  j2 = j2
  c1 = c1
  None = None
  Node = {s, j1, j2}
  Named = {s, j1}
  Bootstrap <- Star
  Collection = {c1}
  InitHeld <- OneHeld
  MaxCrash = 1
  MaxEvents = 1
INVARIANTS
  TypeOK
  RemotesAreKnownPeers
  JoinedIsLinked
  JoinersMeet
PROPERTY BootstrapEnds
CHECK_DEADLOCK FALSE
