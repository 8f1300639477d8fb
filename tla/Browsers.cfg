SPECIFICATION Spec
CONSTANTS
    p1 = p1
    p2 = p2
    p3 = p3
    none = none
    bad = bad
    Pages = {p1, p2, p3}
    NoLink = none
    NoInstance = none
    NoPage = none
    Bad = bad
    EntryLists <- MCEntryLists
    FeedCount = 2
    MaxItems = 2
    Impersonate = TRUE
    Codes = {200, 204, 429}
    required_fields = {"title"}
    optional_fields = {"author"}
    min_quality_score = 50
    MaxRuns = 1
    MaxRefusals = 1
    MayDie = FALSE
    ConfigUrls <- MCTwoUrls
    Kinds = {"browser"}
    Contents <- MCPages
INVARIANT
    NothingLeftRunning
CHECK_DEADLOCK FALSE
