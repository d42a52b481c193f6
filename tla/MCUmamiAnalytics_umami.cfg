CONSTANTS
    r1 = r1
    r2 = r2
    w1 = w1
    w2 = w2
    w3 = w3
    Reports = {r1, r2}
    Websites = {w1, w2}
    Main = w1
    Strangers = {w3}
    Scenarios <- MCScenarios
    Arrivals <- MCArrivals
    MaxTokens = 2
    PageSize = 1
    CatalogRows = 1
    MaxPages = 5
    RootPaths = {"/search?text"}
    ResourcePaths = {"/search/1"}
    Query <- MCQuery
    Coord <- MCCoord
    Nothing = Nothing
SPECIFICATION UmamiFairSpec
INVARIANTS
    ReportsComplete
    TokensWork
PROPERTIES
    EveryReportAnswered
