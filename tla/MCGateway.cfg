SPECIFICATION GFairSpec
CONSTANTS
  g1 = g1
  NoGpu = NoGpu
  Gpu = {g1}
  Followed = g1
  Window <- UpToFirstSecond
  Records <- File
  Streamer = {s1}
  Partitions = 1
  PartitionOf <- OnePartition
  Batch = 1
  OtherPayload = {}
  DbErrors = FALSE
  MaxClock = 1
  MaxSent = 2
  MaxRestarts = 1
  MaxLate = 1
INVARIANTS
  GTypeOK
  AnswersStand
  FollowerMissesNothing
PROPERTIES
  EveryRecordServed
