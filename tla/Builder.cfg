SPECIFICATION Spec
CONSTANTS
    epicgames = epicgames
    epic_games = epic_games
    epic = epic
    go = go
    k1 = k1
    k2 = k2
    d1 = d1
    dot_d1 = dot_d1
    c1 = c1
    ssh = ssh
    tls = tls
    zeros = zeros
    Feeds <- MCFeeds
    Shape <- MCShape
    Slugs = {epicgames, epic_games, epic, go}
    Keys = {k1, k2}
    Key <- MCKey
    Hyphenated = {epic_games}
    Drops = {go}
    Aliased = {epic}
    AliasOf <- MCAliasOf
    Patterns = {d1, dot_d1, c1, ssh, tls, zeros}
    Kind <- MCKind
    Norm <- MCNorm
    Refused = {tls}
    Noise = {zeros}
    MaxCalls = 4
INVARIANTS
    TypeOK
    ShippedIsLicensed
    LoadFilterAgrees
    CurationApplied
    NamesAreIdentities
CHECK_DEADLOCK FALSE
