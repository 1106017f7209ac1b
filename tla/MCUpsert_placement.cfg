SPECIFICATION FairSpec
CONSTANTS
  n1 = n1
  n2 = n2
  n3 = n3
  i1 = i1
  i2 = i2
  u1 = u1
  a = a
  b = b
  o1 = o1
  o2 = o2
  None = None
  Node = {n1, n2, n3}
  Shard = {0, 1}
  PointId = {i1, i2, u1}
  NumericId = {i1, i2}
  Payload = {a, b}
  Op = {o1}
  Batch <- TwoBatches
  Before <- Freely
  Hosts = {n1, n2, n3}
  Shards <- ShardMissing
  Segmented <- SegmentMissing
  Ring <- MCRing
  Addressable = {n1, n2}
  InitRemotes <- Three
  MaxCrash = 1
INVARIANTS
  AckedIsReplicated
  WriteProgress
  StoredWhereRead
PROPERTIES
  EveryExecutionEnds
  ImplementsAckedWrites
CHECK_DEADLOCK FALSE
