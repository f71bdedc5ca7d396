SPECIFICATION Spec
CONSTANTS
  MaxRow = 6
  PerLedger = 2
  PageSize = 2
  ChunkLedgers = 1
  Target = 5
  Overhead = 2
  MaxCrashes = 1
PROPERTIES StopsWhenMet
CHECK_DEADLOCK FALSE
