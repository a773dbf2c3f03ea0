SPECIFICATION Spec
CONSTANTS
  Group = {g1, g2}
  Proc = {p1, p2}
  AckOffset = {1, 2}
  MaxMessage = 2
  MaxAppends = 3
SYMMETRY MCSymmetry
INVARIANTS
  TypeOK
  LogIntegrity
  WatermarkRespected
PROPERTIES
  PositionKept
  RetainedSpec
