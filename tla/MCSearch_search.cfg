CONSTANTS
    Docs <- MCDocs
    Queries <- MCQueries
    FacetKeys = {"kind"}
    Translated <- MCTranslated
    Rank <- MCRank
    Broker <- MCBroker
    Scope <- MCScope
    FoundBy <- MCFoundBy
    FacetsLimit = 2
    TotalCap = 2
    MaxPages = 2
    MaxChanges = 1
    None = None
SPECIFICATION FocusSpec
INVARIANTS
    FindsWhatIsWanted
    PagesPartition
    CountsAgree
    LabelsPairUp
