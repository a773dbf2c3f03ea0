SPECIFICATION DSpec
CONSTANTS
  c1 = c1
  c2 = c2
  g1 = g1
  g2 = g2
  Consumer = {c1, c2}
  Group = {g1}
  Proc = {p1, p2}
  GroupOf <- OneGroup
  AckOffset = {}
  Batch = 2
  CompactWhen = "never"
  MaxMessage = 0
  MaxAppends = 3
INVARIANTS
  NothingSkipped
