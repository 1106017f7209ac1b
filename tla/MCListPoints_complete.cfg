SPECIFICATION ListSpec
CONSTANTS
  n1 = n1
  n2 = n2
  i1 = i1
  i2 = i2
  a = a
  b = b
  o1 = o1
  o2 = o2
  None = None
  Node = {n1, n2}
  Shard = {0, 1, 2}
  PointId = {i1, i2}
  NumericId = {i1, i2}
  Payload = {a, b}
  Op = {o1}
  Batch <- OneBatch
  Before <- Serially
  Hosts = {n1, n2}
  Shards <- OneMissing
  Segmented <- OneMissing
  Ring <- MCRing
  Addressable = {n1, n2}
  InitRemotes <- JoinedOnce
  MaxCrash = 1
PROPERTY ListIsComplete
CHECK_DEADLOCK FALSE
