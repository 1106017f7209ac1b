SPECIFICATION ListSpec
CONSTANTS
  n1 = n1
  n2 = n2
  i1 = i1
  i2 = i2
  a = a
  b = b
  o1 = o1
  o2 = o2
  None = None
  Node = {n1, n2}
  Shard = {0, 1}
  PointId = {i1}
  NumericId = {i1}
  Payload = {a, b}
  Op = {o1, o2}
  Batch <- Rewrites
  Before <- Serially
  Hosts = {n1, n2}
  Shards <- LowestMissing
  Segmented <- LowestMissing
  Ring <- MCRing
  Addressable = {n2}
  InitRemotes <- Mutual
  MaxCrash = 0
INVARIANT ListTypeOK
PROPERTY LocalTakesPrecedence
CHECK_DEADLOCK FALSE
