SPECIFICATION ReadersSpec
CONSTANTS
    EventRow <- SomeEvents
    Filters <- SomeFilters
    Limit = 2
    ExportDirections = {"forward", "backward"}
    MaxWrites = 4
INVARIANTS ExportListsEachEventOnce
CHECK_DEADLOCK FALSE
