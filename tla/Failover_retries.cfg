SPECIFICATION FailoverSpec
CONSTANTS
  N = 2
  Outages = {{}}
  MaxLedger = 3
  PerLedger = 2
  PageSize = 1
  Window = 2
  Threshold = 2
  MaxCrashes = 1
PROPERTIES FailoverRetries
