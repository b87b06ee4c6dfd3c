SPECIFICATION Spec
CONSTANTS
  handler = handler
  swapper = swapper
  seeder = seeder
  api = api
  script = script
  g1 = g1
  g2 = g2
  a = a
  b = b
  c = c
  Threads = {handler, swapper, seeder}
  NoThread = NoThread
  Processes = {api, script}
  Owner <- MCOwner
  Calls <- MCCalls
  Gens = {g1, g2}
  Items = {a, b, c}
  Content <- MCContent
  None = None
  EmptyIds = EmptyIds
  NotReady = NotReady
  OutOfRange = OutOfRange
INVARIANTS
  SwapsKeepPairs
  CleanSaveRepairs
  QuietSearchIsExact
