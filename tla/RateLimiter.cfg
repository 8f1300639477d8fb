SPECIFICATION FairSpec
CONSTANTS
    Callers = {c1, c2, c3, c4}
    Domains = {d1}
    Rates = {0, 1, 3}
    DefaultRate = 1
    Burst = 1
    Token = 4
    EarlyCredit = 1
    MaxOverrides = 1
    IdleHorizon = 2
INVARIANTS
    TypeOK
    Conformance
    SleeperOwnsBucket
    CurrentRate
PROPERTIES
    EveryAcquireReturns
CHECK_DEADLOCK FALSE
