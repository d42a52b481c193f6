CONSTANTS
    l1 = l1  l2 = l2  u1 = u1  u2 = u2  t1 = t1
    None = None
    Requests = {r1, r2, r3}
    Users = {u1}
    Tenants = {t1}
    Resources = {1, 2}
    Kinds = {"add", "sync"}
    InitialLists <- OneList
    MaxInFlight = 3
SPECIFICATION TurnSpec
PROPERTY SyncExistsIsIdentical
