SPECIFICATION Spec
CONSTANTS
  NWorkers = 2
  NJobs = 3
  RQCap = 3
  NStacks = 3
  MaxOps = 5
INVARIANTS JobsPlaced StacksSound
PROPERTIES ResultsTrue
