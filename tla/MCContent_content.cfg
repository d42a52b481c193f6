CONSTANTS
    Copies <- MCCopies
    Redirects = {"x"}
    Lists <- MCLists
    Requests <- MCRequests
    Hits <- MCHits
    MaxChanges = 2
    None = None
SPECIFICATION Spec
INVARIANTS
    EachIdAnswered
    BestTierAnswers
    PreviewsInOrder
