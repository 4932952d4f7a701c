SPECIFICATION ExpandSpec
CONSTANTS
  Builds = {"staged", "legacy", "bare"}
  ExpandDepth = 3
  EXPAND_FRAME_MAX = 3
  MACRO_TABLE_MAX = 4
  MaxLines = 2
INVARIANTS EveryCallExpanded
CHECK_DEADLOCK FALSE
