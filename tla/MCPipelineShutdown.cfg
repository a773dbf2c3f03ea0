SPECIFICATION Spec
CONSTANTS
  g1 = g1
  g2 = g2
  NoGpu = NoGpu
  Gpu = {g1, g2}
  Records <- OneGpu
  Streamer = {s1, s2}
  Partitions = 2
  PartitionOf <- MCPartitionOf
  Batch = 2
  OtherPayload = {"bad"}
  DbErrors = FALSE
  MaxClock = 1
  MaxSent = 3
  MaxRestarts = 1
  MaxLate = 0
INVARIANTS
  AckedAreStored
