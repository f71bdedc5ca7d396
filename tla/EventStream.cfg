SPECIFICATION StreamFairSpec
CONSTANTS
  Clients = {c1, c2}
  LastStreamed = 2
  Wanted = {2}
  MaxStreams = 2
  Batch = 1
  HighWater = 1
  MaxDrops = 1
  Stops = TRUE
PROPERTIES EveryEventArrives
CHECK_DEADLOCK FALSE
