SPECIFICATION LibsSpec
CONSTANTS
  Br = 2
  VMax = 15
  VSteps = 2
  VGrow = 7
  RLeaves = {"a", "^", "[^a]", "%b", "(?i:a)", "."}
  RQuants = {"", "*", "{1,2}", "{2,}", "*?"}
  RJunk = {"a", "(", ")", "|", "*", "(?:", "{2,1}", "%"}
  RJunkLen = 3
  RAlpha = {0, 4, 2}
  RLen = 3
  SegChars = {"CR", "LF", "ext", "zwj", "mark", "pre", "ri", "pic", "L", "V", "a", "sp", "wj"}
  SegLen = 4
  SegWindow = 2
  NfdChars = {"a", "below", "acute", "grave", "aacute", "both", "LVT", "ang", "bad"}
  NfdLen = 4
  BufCap = 6
  AsciiCap = 4
  SegCap = 3
  Thieves = {w1, w2}
  DqMaxThieves = 2
  DqLog = 0
  DqBufs = 3
  DqPushes = 3
  DqRounds = 2
  StoreOrders = {FALSE, TRUE}
INVARIANTS VecAgreesUnlessSpoilt RegexSound SegmentationSound NfdSound DequeSound
CHECK_DEADLOCK FALSE
