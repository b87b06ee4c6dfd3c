SPECIFICATION FairGroupSpec
CONSTANTS
  Workers = {w1, w2}
  NoWorker = NoWorker
  Partitions = {p1}
  Records = {good, poison}
  Poison = {poison}
  MaxRetries = 1
  MaxFaults = 2
  MaxLog = 3
INVARIANTS
  CommittedIsSettled
  InOrder
PROPERTIES
  EveryRecordIsPassed
  DeliverySpec
CHECK_DEADLOCK FALSE
