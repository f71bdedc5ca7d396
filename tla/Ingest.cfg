SPECIFICATION FairSpec
CONSTANTS
  MaxLedger = 3
  MaxPerLedger = 2
  MaxCrashes = 1
  PageSize = 2
  Window = 3
  StartLedger = 2
  EndLedger = 0
  RpcMayFail = TRUE
  Once = FALSE
INVARIANTS TypeOK NoSilentLoss RememberedIsStored ReplayIsOnePage CommittedLedgerIsSafe
PROPERTIES ClearedOnlyWhenForgotten AtLeastOnce EveryEventSettles
