CONSTANTS
    t1 = t1
    t2 = t2
    s1 = s1
    s2 = s2
    r1 = r1
    r2 = r2
    Servers = {s1, s2}
    Requests = {r1, r2}
    Tenants = {t1, t2}
    Form <- MCForm
    Columns <- MCColumns
    Heads <- MCHeads
    Tokens <- MCTokens
    MemTtl = 2
    SharedTtl = 1
    Patience = 1
    MaxRounds = 3
    MaxClock = 6
    MaxEdition = 3
    MaxKey = 2
    None = None
SPECIFICATION FocusSpec
INVARIANTS
    AnswersRecent
    EmptyNotKept
    ClearForgets
    LockedOutOnlyByRotation
    CsvComplete
SYMMETRY Symmetry
