SPECIFICATION DFairSpec
CONSTANTS
  c1 = c1
  c2 = c2
  g1 = g1
  g2 = g2
  Consumer = {c1, c2}
  Group = {g1, g2}
  Proc = {p1, p2}
  GroupOf <- GroupEach
  AckOffset = {}
  Batch = 2
  CompactWhen = "quiet"
  MaxMessage = 0
  MaxAppends = 4
INVARIANTS
  DTypeOK
  NothingSkipped
  AckMatchesBatch
  DeletedWereConsumed
  CommittedInRange
PROPERTIES
  AtLeastOnceSpec
  EveryMessageArrives
