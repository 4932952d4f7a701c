SPECIFICATION TreesSpec
CONSTANTS
  HKeys = {1,2,3}
  HVals = {1,2}
  Fan = 2
  Frags = 2
  IterDepth = 3
  HSteps = 4
  LeafMax = 4
  Window = 2
  Texts = 1
  LongLen = 17
  RopeMax = 18
  RSteps = 2
  DocLeaf = 4
  DocIds = {1}
  DocToks = 3
  DocMax = 8
  DSteps = 2
INVARIANTS TrieSound RopeSound DocSound
CHECK_DEADLOCK FALSE
