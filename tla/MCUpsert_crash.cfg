SPECIFICATION Spec
CONSTANTS
  n1 = n1
  n2 = n2
  n3 = n3
  i1 = i1
  i2 = i2
  u1 = u1
  a = a
  b = b
  o1 = o1
  o2 = o2
  None = None
  Node = {n1, n2}
  Shard = {0, 1}
  PointId = {i1, i2, u1}
  NumericId = {i1, i2}
  Payload = {a, b}
  Op = {o1, o2}
  Batch <- TwoBatches
  Before <- Serially
  Hosts = {n1, n2}
  Shards <- BothShards
  Segmented <- BothShards
  Ring <- MCRing
  Addressable = {n1, n2}
  InitRemotes <- JoinedOnce
  MaxCrash = 1
INVARIANTS
  TypeOK
  AckedIsReplicated
  SerialWritesConverge
  AckedIsServed
CHECK_DEADLOCK FALSE
