SPECIFICATION FairSpec
CONSTANTS
  g1 = g1
  g2 = g2
  NoGpu = NoGpu
  Gpu = {g1, g2}
  Records <- JustGpu
  Streamer = {s1}
  Partitions = 2
  PartitionOf <- MCPartitionOf
  Batch = 2
  OtherPayload = {"bad"}
  DbErrors = TRUE
  MaxClock = 1
  MaxSent = 2
  MaxRestarts = 1
  MaxLate = 1
INVARIANTS
  TypeOK
  StoredOrFailed
  FirstWins
PROPERTIES
  EveryMessageSettled
  TableSpec
