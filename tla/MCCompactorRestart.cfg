SPECIFICATION Spec
CONSTANTS
  Topic = {}
  Partitions = 1
  Threshold = {0}
  Call = {"Stop"}
  Loop = {l1, l2}
  MaxChannels = 1
  MaxLength <- MCNoMessages
  MaxCommits = 0
SYMMETRY MCSymmetry
INVARIANTS
  RunningHasLoop
