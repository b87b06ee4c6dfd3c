SPECIFICATION FairSpec
CONSTANTS
  e1 = e1
  u1 = u1
  i1 = i1
  Requests = {r1, r2, r3}
  Events = {e1}
  Event <- MCEvent
  Partitions = {u1, i1}
  UserPartition <- MCUserPartition
  ItemPartition <- MCItemPartition
  Known = {e1}
  MaxRetries = 1
INVARIANTS
  AcceptedIsDurable
  StreamBeforeAudit
  OnePublisherPerMarker
  CopiesBounded
  LossIsReported
PROPERTY EveryRequestAnswered
CHECK_DEADLOCK FALSE
