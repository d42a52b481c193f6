CONSTANTS
    r1 = r1  r2 = r2  r3 = r3
    t1 = t1  c1 = c1  c2 = c2
    n0 = n0  n1 = n1  n2 = n2
    None = None
    Default = Default
    Requests = {r1, r2}
    Tenants = {t1}
    Codes = {c1}
    Needs = {n0, n1}
    Kinds = {"publish"}
    VersionIds = {0}
    InitialDocs <- OneCode
    MaxInFlight = 2
SPECIFICATION MCSpec
INVARIANT SavedVersionsKept
