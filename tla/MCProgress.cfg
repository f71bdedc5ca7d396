SPECIFICATION MCSpec
CONSTANTS
  MaxRow = 8
  PerLedger = 2
  PageSize = 2
  ChunkLedgers = 1
  Target = 4
  Overhead = 2
  MaxCrashes = 2
  Contracts = {"a", "b"}
  Configured = {"a"}
  StartLedger = 1
  LatestLedger = 2
  CheckpointSize = 2
  Limit = 10
  MaxStarts = 1
INVARIANTS StoreOutlivesLookups
PROPERTIES OldestFirst SizePruneEnds BudgetMetInTheEnd LookupsSettle SignalEndsRun EveryEventSettles CallsEnd EveryProcessOpens ShutdownEnds EveryEventHandled
CHECK_DEADLOCK FALSE
