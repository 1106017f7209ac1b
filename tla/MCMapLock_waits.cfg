SPECIFICATION FairSpec
CONSTANTS
  n1 = n1
  n2 = n2
  coll1 = coll1
  p1 = p1
  p2 = p2
  make1 = make1
  add1 = add1
  link1 = link1
  None = None
  Node = {n1, n2}
  Coll = {coll1}
  Shard = {0}
  Points = {p1, p2}
  Meta = {make1}
  AddPeer = {add1}
  Link = {link1}
  PeerOf <- MCPeerOf
  CollOf <- MCCollOf
  NewPeer <- MCNewPeer
  Loaded <- MCLoaded
  InitRemotes <- MCInitRemotes
INVARIANTS
  TypeOK
  UsedStays
  NoCircle
PROPERTIES
  EveryRequestEnds
  WritersGetDone
CHECK_DEADLOCK FALSE
