SPECIFICATION Spec
CONSTANTS
  Base = 8
  MAXstring = 10
  ALLOC_CHUNK = 2
  ALLOC_INCR = 2
  LEVELS = 2
  MagicFiles <- MCMagicFiles
  Paths <- MCPaths
  Mallocs <- MCMallocs
  FlagSets <- MCFlagSets
  MaxLoads = 2
  Buffers <- MCBuffers
  MaxDepth = 4
INVARIANTS
  LoadedInOrder
  ContinuationsInOrder
  LevelsRight
  FailuresKnown
CHECK_DEADLOCK FALSE
