SPECIFICATION Spec
CONSTANTS
  u1 = u1
  u2 = u2
  r1 = r1
  r2 = r2
  r3 = r3
  c1 = c1
  c2 = c2
  k1 = k1
  k2 = k2
  k3 = k3
  Users = {u1, u2}
  Holdback = {u2}
  NumBuckets = 2
  Bucket <- MCBucket
  Readers = {r1, r2, r3}
  Reader <- MCReader
  Creators = {c1, c2}
  Ranges <- MCRanges
  Stoppers = {s1}
  Recorders = {k1, k2, k3}
  Delta <- MCDelta
  NoRow = NoRow
  NoAnswer = NoAnswer
  NoBucket = NoBucket
  NoCreator = NoCreator
  NoRecorder = NoRecorder
INVARIANTS
  AssignmentStable
  AssignedByCommittedRow
  CountFollowsBumps
