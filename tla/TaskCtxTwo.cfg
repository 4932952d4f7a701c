SPECIFICATION Spec
CONSTANTS
  NWorkers = 2
  NJobs = 3
  MaxSets = 1
INVARIANT CtxIsolated
