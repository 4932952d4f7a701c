SPECIFICATION NumbersSpec
CONSTANTS
  W = 6
  Karatsuba = 2
  Ten = 6
  ChunkLen = 2
  EstNum = 3
  EstDen = 10
  Nibble = 3
  NumLimbs = {0, 32, 63}
  NumLen = 4
  ArgLimbs = {0, 1, 32}
  ArgLen = 3
  RefLimbs = 5
  OpPrecs = {2, 4}
  CtxPrecs = {3, 4}
  FloatExps = {0, 7}
  FloatBias = 5
  LogNum = 1584
  LogDen = 4096
  FloatDigits = 3
  JW = 3
  JMaxLimbs = 5
  JTen = 2
  JChunk = 2
  JMags = {0, 1, 3, 4, 7, 31, 32, 63, 64, 449, 4095, 32767}
  JSteps = 2
  JV_MAX_DEPTH = 6
  FrameCap = 14
  FrameMax = 18
  TextLens = {0, 1, 9}
  MaxNest = 3
INVARIANTS BignumSound TowerSound CodecSound
CHECK_DEADLOCK FALSE
