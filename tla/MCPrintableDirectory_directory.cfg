CONSTANTS
    d1 = d1  d2 = d2  s1 = s1  s2 = s2  x1 = x1  x2 = x2
    u1 = u1  u2 = u2  t1 = t1  a = a  g = g
    None = None
    Keep = Keep
    Requests = {r1, r2, r3}
    Users = {u1, u2}
    Tenants = {t1}
    Ids = {d1, d2, s1, s2, x1, x2}
    Texts = {a, b}
    Slugs = {g}
    Kinds = {"create", "update", "remove", "createSection", "updateSection",
             "removeSection", "reorderSections", "createSource", "updateSource",
             "removeSource", "reorderSources"}
    InitialDirs <- Collections
    MaxInFlight = 3
SPECIFICATION MCSpec
SYMMETRY RequestSymmetry
INVARIANTS
    SlugsUnique
    DirectoriesWellFormed
    VersionGuardsShape
PROPERTIES
    SectionOrdersKept
    NothingLost
    NothingReturns
    EditsHitTarget
