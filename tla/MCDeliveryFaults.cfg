SPECIFICATION RFairSpec
CONSTANTS
  c1 = c1
  g1 = g1
  g2 = g2
  Consumer = {c1}
  Group = {g1, g2}
  Proc = {p1}
  GroupOf <- OneGroup
  AckOffset = {}
  Batch = 2
  CompactWhen = "anytime"
  MaxMessage = 0
  MaxAppends = 4
INVARIANTS
  SkipsHaveACause
PROPERTIES
  NeverGoesBack
  PollsReturn
  CompactReturns
