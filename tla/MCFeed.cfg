SPECIFICATION Spec
CONSTANTS
  a = a
  b = b
  c = c
  d = d
  e = e
  Items = {a, b, c, d, e}
  Scores <- MCScores
  AnnResults <- MCAnnResults
  TrendingLists <- MCTrendingLists
  Sizes <- MCSizes
  Unknown = unknown
  CapPercent = 40
  SlotPercent = 70
INVARIANTS
  ServesTheBest
  FeedAlmostFull
  SeenNeverLifted
CHECK_DEADLOCK FALSE
