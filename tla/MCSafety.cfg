SPECIFICATION MCSpec
CONSTANTS
    Procs = {"p", "q"}
    Upgraded = {"p"}
    MaxId = 2
    Hard = {2}
    Plain = {1}
    BatchSize = 1
    MaxDowns = 1
    MaxFaults = 1
    Calls = {"a", "b"}
    PgPoolSize = 2
    PgMaxId = 3
    PgPlain = {1}
    Conns = {"c", "d"}
    MaxEvent = 1
    CliProcs = {"p", "q"}
    LastEvent = 2
    CliPageSize = 1
    MaxKills = 1
    Keys = {"a", "b"}
    TrustProxy = TRUE
    Unit = 2
    Capacity = 2
    SweepEvery = 3
    CachedIds = {"a"}
    Askers = {1, 2}
    Ttl = 2
    MaxTime = 2
    MaxChanges = 1
    NamedIds = {"a", "b"}
    Rows = {1, 2}
    Clients = {"k", "l"}
    LastStreamed = 3
    Wanted = {1, 3}
    MaxStreams = 2
    Batch = 1
    HighWater = 1
    MaxDrops = 1
    Stops = FALSE
    N = 2
    Outages = {{}}
    MaxLedger = 2
    PerLedger = 3
    PageSize = 1
    Window = 2
    Threshold = 2
    MaxCrashes = 1
    Contracts = 5
    PerFilter = 2
    Concurrency = 2
    Attempts = 2
    PageLimit = 1
    NetworkEvents = 6
    EventRow <- SomeEvents
    Filters <- SomeFilters
    Limit = 2
    ExportDirections = {"forward"}
    MaxWrites = 4
    Selection <- SomeSelections
    Documents <- SomeDocuments
    MaxDepth = 4
    MaxComplexity = 12
    NoLimit = NoLimit
    DefaultLimit = 2
    MaxLimit = 4
    ContractsLimit = 4
    TopicSize = 2
    LastIndexed = 4
    ListLimit = 1
    MaxRequests = 3
    MaxRetypes = 2
    MaxBreaks = 1
    LoadsMore = TRUE
INVARIANTS
    SchemaWhole IndexesInStep InsertersDoNotDeadlock PgAddressesInStep
    NotModifiedIsCurrent StoreOutlivesRequests ResumeIsSafe
    StreamIsExact BufferBounded FailoverLosesNothing ChunksAreExact SweepIsInvisible PagesAdjoin
    ExportListsEachEventOnce WorkWithinCost ListIsOfTheFilter AnswersAreRecent ExitIsHonest
CHECK_DEADLOCK FALSE
