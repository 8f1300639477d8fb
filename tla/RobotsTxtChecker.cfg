SPECIFICATION FairSpec
CONSTANTS
    Askers = {a1, a2, a3}
    Origins = {o1}
    Ttl = 2
    MaxTime = 4
    MaxChanges = 2
INVARIANTS
    TypeOK
    LoadsSpaced
    AnswersAreFresh
    RefusedOnlyByRules
PROPERTIES
    EveryAskAnswered
CHECK_DEADLOCK FALSE
