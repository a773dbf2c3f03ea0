SPECIFICATION Spec
CONSTANTS
  Key = {k1, k2}
  Partitions = 2
  Replicas = 2
  MaxHash = 3
  MaxProduced = 2
  Member = {m1, m2}
  Batch = 2
  MaxRewinds = 1
SYMMETRY MCSymmetry
INVARIANTS
  TypeOK
  OffsetTracksConsumed
  KeyOrder
  MinimalMovement
