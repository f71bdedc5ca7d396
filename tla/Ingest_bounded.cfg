SPECIFICATION Spec
CONSTANTS
  MaxLedger = 4
  MaxPerLedger = 2
  MaxCrashes = 0
  PageSize = 2
  Window = 3
  StartLedger = 1
  EndLedger = 2
  RpcMayFail = FALSE
  Once = FALSE
INVARIANTS NothingPastEnd
CHECK_DEADLOCK FALSE
