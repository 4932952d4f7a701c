SPECIFICATION TasksSpec
CONSTANTS
  NWorkers = 1
  NJobs = 3
  MaxSets = 3
  NBlocks = 4
  ParMax = 3
  Fibers = {f1, f2, f3}
  EdgeCap = 1
  MaxFrame = 2
  WriteLens = {0, 1, 3}
  ReadLens = {1}
  MaxOps = 4
  CanSever = TRUE
  NStages = 2
  Ring = 1
  MaxWork = 2
  MaxErr = 1
  ValFrames = 1
  Starts = {"ok", "nospawn", "noopen"}
  AtomTasks = {1, 2}
  AtomKeys = {"k1"}
  AtomNames = {"a", "lost"}
  AtomLost = {"lost"}
  AtomCalls = 2
  GsTasks = {1, 2}
  JACL_TIMEOUT_MAX = 2
  JACL_TRACE_MAX = 3
  TraceFrames = 2
  GsLens = {1, 2}
  GsOps = 5
  NGens = 4
  JACL_GEN_STACKS = 3
  GenSteps = 10
  PipeLen = 3
  SrcLen = 4
INVARIANTS CtxIsolated AmbientRestored ParallelSound ChannelSound PipelineReports AtomsSound StacksServe IterationSound
PROPERTIES StreamRefined CloseReleases PipelineEnds
