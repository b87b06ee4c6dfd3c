SPECIFICATION PipelineSpec
CONSTANTS
  e1 = e1
  e2 = e2
  e3 = e3
  user = user
  a = a
  b = b
  up = up
  ip = ip
  Workers = {w1, w2}
  NoWorker = NoWorker
  Partitions = {up, ip}
  Records = {e1, e2, e3}
  Poison = {e3}
  MaxRetries = 1
  MaxFaults = 1
  MaxLog = 2
  Users = {user}
  Items = {a, b}
  User <- MCUser
  Item <- MCItem
  Weight <- MCWeight
  UserPartition <- MCUserPartition
  ItemPartition <- MCItemPartition
  Trending = trending
  Cap = 1
SYMMETRY WorkerSymmetry
VIEW OrderOfStamps
INVARIANTS
  DoneIsApplied
  OvercountBounded
  RecentBounded
  NoKeyForever
CHECK_DEADLOCK FALSE
