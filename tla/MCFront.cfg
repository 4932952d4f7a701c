SPECIFICATION FrontSpec
CONSTANTS
  LexIntMax = 40
  LexTen = 10
  ShellNest = 1
  TextLen = 4
  CoreLen = 4
  TripleLen = 5
  DEFSTRUCT_MAX_FIELDS = 2
  DEFMACRO_MAX_PARAMS = 2
  ParseLen = 4
  Builds = {"staged", "legacy", "bare"}
  ExpandDepth = 3
  EXPAND_FRAME_MAX = 3
  MACRO_TABLE_MAX = 4
  MaxLines = 2
  TYPER_MAX_STRUCTS = 5
  TYPER_MAX_STRUCT_FIELDS = 3
  TYPER_MAX_PROC_PARAMS = 4
  TYPER_MAX_PROCS = 3
  STRUCT_REGISTRY_INIT_CAP = 3
  SHAPES_SCALAR_VEC_BASE = 17
  ChainLimit = 4
  ShapeSteps = 2
  MaxBlocks = 2
  NLines = 3
  LineCells = 2
  Sizes = {1, 3}
  MaxAllocs = 5
  MaxSweeps = 2
  NObjs = 3
  MaxCycles = 4
  GenAllocs = 3
  InlineRoom = 4
INVARIANTS LexSound ExpandSound ShapesSound BlockHeapSound
PROPERTIES ParseSound CollectionsSound
CHECK_DEADLOCK FALSE
