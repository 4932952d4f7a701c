SPECIFICATION FairSpec
CONSTANTS
  NWorkers = 3
  MaxTries = 2
  Cells = 1
  MaxAllocs = 3
INVARIANTS StopTheWorld NoMissedWake OneCollector
PROPERTIES EpochsInOrder QuiesceProgress
