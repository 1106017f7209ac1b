SPECIFICATION Spec
CONSTANTS
  MaxLen = 4
  Text <- MCText
  DigitOf <- MCDigitOf
  Kilo = 4
  Kibi = 5
  MaxNumber = 1023
  BatchSize = {0, 1, 2, 3, 5}
  P9 = {1, 2, 4}
  Precision = 3
  MaxQueries = 2
  MaxResults = 4
  MaxBatch = 4
  MaxPoints = 5
  None = None
INVARIANTS
  TypeOK
  NumberAsWritten
  WritesAfresh
  UpsertedOnce
  AsksForAcked
  PanicsOnlyAtLimits
PROPERTIES
  EveryRunEnds
CHECK_DEADLOCK FALSE
