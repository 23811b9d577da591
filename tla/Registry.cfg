SPECIFICATION FairSpec
CONSTANTS
  Requests = {r1, r2}
  Foreign = {f1}
  W = 4
  Network = 8
  Prefix = 1
  ServerAddress = 9
  Names <- MCNames
  Initial <- MCInitial
  MaxUpdates = 2
INVARIANTS FileLoads AnswersHold NoOrphans
PROPERTIES Converges
CHECK_DEADLOCK FALSE
