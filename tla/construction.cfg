SPECIFICATION Spec
CONSTANTS
    p1 = p1
    p2 = p2
    Plans = {p1, p2}
    Environments <- AllEnvironments
    Requests <- AllRequests
    MaxTables = 6
    MaxFailures = 2
INVARIANTS
    NothingLeaks
    FreedOnce
    ModulesBalanced
    HandleInLoadedModule
    FoundWhereDocumented
    TablesFound
    ProviderAsDocumented
    QueryTellsTruth
