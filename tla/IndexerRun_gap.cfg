SPECIFICATION RunSpec
CONSTANTS
    Contracts = {"a", "b"}
    Configured = {"a"}
    StartLedger = 1
    LatestLedger = 4
    CheckpointSize = 2
    Limit = 10
    MaxStarts = 1
INVARIANTS NoArchiveGap
CHECK_DEADLOCK FALSE
