SPECIFICATION Spec
CONSTANTS
    none = none
    Rules <- MCRules
    NoRule = none
    Bits <- MCBits
    MaxLpmNodes = 4
    Labels <- MCLabels
    NoLabel = ""
    LabelHash <- MCLabelHash
    EdgeHome <- MCEdgeHome
    EdgeCap = 2
    MaxEdgeCap = 8
    MaxTrieNodes = 7
    MAX_LABELS = 3
    Width = 3
    Bytes = {0, 1}
    KeyHome <- MCKeyHome
    BucketCap = 2
    MaxBucketCap = 4
    SizeModulus = 4096
    Stray = {0, 1, 56, 100, 342, 4095}
    CapLens = {0, 13, 17, 54, 58, 97, 128, 140, 1048577}
    Lengths = {0, 1, 5, 40, 65535}
    FieldModulus = 65536
    MAX_SNAP = 1048576
    SniCap = 256
    MaxLicense = 1
    MaxRules = 3
    PoolSize = 8
    DomainRecords <- MCDomainRecords
    PayloadRecords <- MCPayloadRecords
    CidrRecords <- MCCidrRecords
    Queries <- MCQueries
INVARIANTS
    TypeOK
    LongestPrefixWins
    MostSpecificName
    TightestPayload
    ReadsInside
PROPERTIES
    EveryFrameDecided
CHECK_DEADLOCK FALSE
