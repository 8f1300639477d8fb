SPECIFICATION Spec
CONSTANTS
    s1 = s1
    s2 = s2
    h1 = h1
    h2 = h2
    i1 = i1
    i2 = i2
    i3 = i3
    i4 = i4
    i5 = i5
    i6 = i6
    i7 = i7
    p1 = p1
    p2 = p2
    p3 = p3
    p4 = p4
    k1 = k1
    k2 = k2
    Items = {i1, i4, i5}
    Sources = {s1, s2}
    Hosts = {h1, h2}
    Pages = {p1, p2, p3}
    Sinks = {k1}
    Outputs <- OneOutput
    ItemsOf <- SiblingItemsOf
    PageOf <- SiblingPageOf
    HostOf <- SiblingHostOf
    Unfetchable = {}
    BadPort = {i5}
    BadHost = {}
    BadStrategy = {}
    ListText = {}
    Feeds = {}
    Browsers = {}
    BadClose = {}
    Frail = {}
    Preludes <- NoPrelude
    NoHost = NoHost
    MaxItems = 4
    MaxConcurrency = 2
    Rates = {1}
    DefaultRate = 1
    Token = 2
    EarlyCredit = 0
    MaxOverrides = 0
INVARIANTS
    NothingHeldAtExit
CHECK_DEADLOCK FALSE
