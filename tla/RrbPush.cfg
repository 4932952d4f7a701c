SPECIFICATION RrbSpec
CONSTANTS
  Br = 2
  VMax = 12
  VSteps = 3
  VGrow = 6
INVARIANT VecAgrees
CHECK_DEADLOCK FALSE
