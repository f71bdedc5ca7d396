SPECIFICATION ExplorerSpec
CONSTANTS
    LastIndexed = 4
    ListLimit = 1
    MaxRequests = 3
    MaxRetypes = 2
    MaxBreaks = 1
    LoadsMore = TRUE
INVARIANTS StreamCatchesUp
CHECK_DEADLOCK FALSE
