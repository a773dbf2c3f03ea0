SPECIFICATION FairSpec
CONSTANTS
  g1 = g1
  g2 = g2
  NoGpu = NoGpu
  Gpu = {g1, g2}
  Records <- OneGpu
  Streamer = {s1, s2}
  Partitions = 2
  PartitionOf <- MCPartitionOf
  Batch = 2
  OtherPayload = {"bad", "opaque"}
  DbErrors = FALSE
  MaxClock = 0
  MaxSent = 2
  MaxRestarts = 0
  MaxLate = 0
PROPERTIES
  EveryMessageSettled
