SPECIFICATION FairSpec
CONSTANTS
    s1 = s1
    s2 = s2
    h1 = h1
    h2 = h2
    i1 = i1
    i2 = i2
    i3 = i3
    i4 = i4
    i5 = i5
    i6 = i6
    i7 = i7
    p1 = p1
    p2 = p2
    p3 = p3
    p4 = p4
    k1 = k1
    k2 = k2
    Items = {i1, i2, i3, i4, i5, i6, i7}
    Sources = {s1, s2}
    Hosts = {h1, h2}
    Pages = {p1, p2, p3, p4}
    Sinks = {k1, k2}
    Outputs <- CrawlOutputs
    ItemsOf <- CrawlItemsOf
    PageOf <- CrawlPageOf
    HostOf <- CrawlHostOf
    Unfetchable = {i6}
    BadPort = {i5}
    BadHost = {i3}
    BadStrategy = {s2}
    ListText = {i2}
    Feeds = {s1}
    Browsers = {s2}
    BadClose = {s2}
    Frail = {k1}
    Preludes <- CrawlPreludes
    NoHost = NoHost
    MaxItems = 3
    MaxConcurrency = 2
    Rates = {1, 2}
    DefaultRate = 2
    Token = 2
    EarlyCredit = 1
    MaxOverrides = 2
INVARIANTS
    TypeOK
    PermitsConserved
    FailureConfined
    StatsTellTheTruth
    Politeness
PROPERTIES
    PagesCrawledOnce
    RunEnds
CHECK_DEADLOCK FALSE
