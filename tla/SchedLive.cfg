SPECIFICATION FairSpec
CONSTANTS
  NWorkers = 2
  NJobs = 3
  RQCap = 3
  NStacks = 3
  MaxOps = 3
PROPERTIES JobsProgress
