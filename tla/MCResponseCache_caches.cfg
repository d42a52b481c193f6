CONSTANTS
    Servers = {s1, s2}
    Requests = {r1, r2}
    range = range
    heatmap = heatmap
    sessions = sessions
    catalog = catalog
    names = names
    count = count
    Keys = {range, heatmap, sessions, catalog, names, count}
    Kind <- MCKind
    Tolerant = {heatmap, names, count}
    Closes <- MCCloses
    L1Ttl = 1
    OpenTtl = 1
    ClosedTtl = 4
    SessionTtl = 1
    CatalogTtl = 2
    CountTtl = 2
    Patience = 1
    MaxClock = 5
    None = None
    Failed = Failed
SPECIFICATION FocusSpec
INVARIANTS
    SingleFlight
    NoErrorKept
PROPERTIES
    ImplementsFreshAnswers
    EveryRequestAnswered
