CONSTANTS
    Requests = {r1, r2, r3}
    Urls = {u1, u2}
    Misleading = {u2}
    Ids = {i1, i2, i3}
    MaxRetries = 2
    None = None
SPECIFICATION FairSpec
INVARIANTS
    LinksResolve
    FailsOnlyOnTakenIds
PROPERTIES
    ImplementsMap
    EveryRequestAnswered
