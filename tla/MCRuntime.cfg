SPECIFICATION RuntimeSpec
CONSTANTS
  HWorkers = {0, 1}
  NRegions = 3
  RegionG = 2
  NClass = 1
  NodeSizes = {1}
  BlobSizes = {3}
  MarkCap = 1
  RootCap = 9
  ScanCap = 9
  HAllocs = 4
  HCollects = 2
  NWaiters = 2
  MaxEvents = 1
  MaxStirs = 1
  TxFibers = {f1, f2}
  JACL_JOBS = 1
  TxPending = 2
  TxLens = {3}
  TxStarts = 2
  TxCalls = 3
  TxGens = 3
  TxFaults = {"store", "begin", "write", "memory"}
INVARIANTS HeapSound NoWakeLost
PROPERTIES TranscriptSound
CHECK_DEADLOCK FALSE
