SPECIFICATION FairPathSpec
CONSTANTS
  e1 = e1
  u1 = u1
  i1 = i1
  Requests = {r1, r2}
  Events = {e1}
  Event <- MCEvent
  Partitions = {u1, i1}
  UserPartition <- MCUserPartition
  ItemPartition <- MCItemPartition
  Known = {e1}
  MaxRetries = 0
  Workers = {w1}
  NoWorker = NoWorker
  Poison = {}
  ConsumerRetries = 0
  MaxFaults = 1
  MaxLog = 4
INVARIANTS
  UnauditedWasReported
PROPERTIES
  AcceptedIsProcessed
CHECK_DEADLOCK FALSE
