SPECIFICATION FairSpec
CONSTANTS
  Topic = {t1}
  Partitions = 2
  Threshold = {1}
  Call = {"Stop", "UpdateConfig"}
  Loop = {l1, l2}
  MaxChannels = 2
  MaxLength <- MCMaxLength
  MaxCommits = 1
INVARIANTS
  TypeOK
  CloseOnce
  EveryLoopHears
PROPERTIES
  StopStops
  DueIsCompacted
